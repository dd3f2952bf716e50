CONSTANTS
  Fds = {1}
  Acceptor = acceptor
  Users = {user}
  SeqValues = 8
  BatchOps = 1
  EventBatch = 3
  HighWater = 2
  LowWater = 1
  MaxBuffer = 3
  SendSizes = {1}
  Budget <- OneConnection
  MayStop = TRUE
  SyscallsMayFail = FALSE
SPECIFICATION Spec
INVARIANT StopClosesEverything
CHECK_DEADLOCK FALSE
