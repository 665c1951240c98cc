SPECIFICATION MsgSpec
CONSTANTS
  e1 = e1  e2 = e2
  p1 = p1  p2 = p2
  s1 = s1  s2 = s2
  None = None
  Events = {e1, e2}
  CreatedAt <- Tied
  Processes = {p1, p2}
  Slots = {s1, s2}
  Host <- TwoHosts
  BatchSize = 1
  MaxRetries = 1
  MaxFaults = 0
CHECK_DEADLOCK FALSE
INVARIANTS PublishedOncePerProcess
