CONSTANTS
  Callers = {t1, t2}
  Sender = sender
  ReactorCount = 2
  Starts = {"StartIPv4"}
  Fds = {1, 2}
  MaxStarts = 2
  MaxClients = 2
  MaxSends = 1
  SyscallsMayFail = TRUE
SPECIFICATION Spec
INVARIANT SendDataSafe
CHECK_DEADLOCK FALSE
