\* One connection, two sends of two units each, one query; a buffer of three
\* units that pauses reading at two and resumes it when it is empty; Stop at any
\* moment.
CONSTANTS
  Fds = {1}
  Acceptor = acceptor
  Users = {user}
  SeqValues = 8
  BatchOps = 2
  EventBatch = 2
  HighWater = 2
  LowWater = 1
  MaxBuffer = 3
  SendSizes = {2}
  Budget <- Asking
  MayStop = TRUE
  SyscallsMayFail = FALSE
SPECIFICATION FairSpec
INVARIANTS StreamInOrder BackpressureConsistent
PROPERTIES QueryReturnsEventually ResetIsNoticed
CHECK_DEADLOCK FALSE
