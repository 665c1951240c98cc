SPECIFICATION ExecSpec
CONSTANTS
  q1 = q1  q2 = q2  q3 = q3
  w1 = w1  w2 = w2  w3 = w3
  s1 = s1  s2 = s2
  c1 = c1  c2 = c2  c3 = c3
  e1 = e1  e2 = e2  e3 = e3
  None = None
  Quotes = {q1, q2, q3}
  Conversions = {c1, c2, c3}
  Events = {e1, e2, e3}
  Wallets = {w1, w2, w3}
  Keys = {}
  Sessions = {s1, s2}
  Workers = {s1, s2}
  Terms <- MCTerms
  Initial <- MCInitial
  Strays <- NoStrays
  Prunable = {e1, e2, e3}
SYMMETRY Symmetry
INVARIANTS ExecTypeOK Backed Conserved CreditFindsWallet SettledAsExecuted SettlementChecksStayTrue
PROPERTIES SettlesOnce LedgerKept AccountsKept LifecycleKept
