CONSTANTS
  Entries = {e1, e2, e3}
  MaxQueueSize = 1
  BatchSize = 1
  BlockWhenFull = TRUE
  MaxStarts = 1
SPECIFICATION FairSpec
PROPERTY StopReturns
CHECK_DEADLOCK FALSE
