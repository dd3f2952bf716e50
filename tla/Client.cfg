CONSTANTS
  MaxDials = 2
  MaxSends = 2
  MaxData = 1
  MaxBuffer = 3
  HighWater = 2
  BatchOps = 1
  SyscallsMayFail = TRUE
SPECIFICATION FairSpec
INVARIANTS StreamInOrder NothingLeftOpen WaitsForSpace
PROPERTY SendSyncReturns
CHECK_DEADLOCK FALSE
