SPECIFICATION EngineFairSpec
CONSTANTS
  q1 = q1
  w1 = w1  w2 = w2
  c1 = c1
  e1 = e1
  p1 = p1
  s1 = s1  s2 = s2
  h1 = h1  h2 = h2  h3 = h3
  None = None
  Quotes = {q1}
  Conversions = {c1}
  Events = {e1}
  Wallets = {w1, w2}
  Terms <- MCTerms
  Initial <- MCInitial
  Workers = {h1, h2}
  Prunable = {}
  CreatedAt <- MCCreatedAt
  Processes = {p1}
  Slots = {s1}
  Host <- OneSlot
  BatchSize = 1
  MaxRetries = 1
  MaxFaults = 1
CHECK_DEADLOCK FALSE
PROPERTIES AcceptedConversionEnds
