SPECIFICATION FairSpec
CONSTANTS
  q1 = q1  q2 = q2
  w1 = w1  w2 = w2
  k1 = k1  k2 = k2
  s1 = s1  s2 = s2
  c1 = c1  c2 = c2
  e1 = e1  e2 = e2
  None = None
  Quotes = {q1, q2}
  Conversions = {c1}
  Events = {e1}
  Wallets = {w1, w2}
  Keys = {k1, k2}
  Sessions = {s1, s2}
  Terms <- RivalTerms
  Initial <- MCInitial
  TTL = 1
  Retention = 1
  BatchSize = 1
  MaxTime = 1
  StuckKeys = {k1}


PROPERTIES Answered
