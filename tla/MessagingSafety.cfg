SPECIFICATION MsgSpec
CONSTANTS
  e1 = e1  e2 = e2
  p1 = p1  p2 = p2
  s1 = s1  s2 = s2
  None = None
  Events = {e1, e2}
  CreatedAt <- Ordered
  Processes = {p1}
  Slots = {s1, s2}
  Host <- OneHost
  BatchSize = 2
  MaxRetries = 1
  MaxFaults = 1
CHECK_DEADLOCK FALSE
SYMMETRY TwoSlots
INVARIANTS MsgTypeOK NothingLost RetriesEarned
