SPECIFICATION ConnFairSpec
CONSTANTS
  q1 = q1  q2 = q2
  None = None
  Queues = {q1, q2}
  Links <- NumberedLinks
  Attempts <- TwoAttempts
  MaxAttempts = 2
INVARIANTS ConnTypeOK NothingLeaks ConsumersRestored ReconnectOwed
PROPERTIES Recovers RetriesEndAtShutdown
