\* Two connections, one descriptor number that is reused; one send, one removal;
\* Stop at any moment; kevent() and send() may fail.
CONSTANTS
  Fds = {1}
  Acceptor = acceptor
  Users = {user}
  SeqValues = 8
  BatchOps = 2
  EventBatch = 2
  HighWater = 2
  LowWater = 1
  MaxBuffer = 3
  SendSizes = {1}
  Budget <- Reuse
  MayStop = TRUE
  SyscallsMayFail = TRUE
SPECIFICATION Spec
INVARIANTS TypeOK LifecycleOrder TableConsistent OneOwner NoStaleEvent
CHECK_DEADLOCK FALSE
