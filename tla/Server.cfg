CONSTANTS
  Callers = {t1, t2}
  Sender = sender
  ReactorCount = 2
  Starts = {"StartUnixDomain", "StartUniversalIP"}
  Fds = {1, 2}
  MaxStarts = 2
  MaxClients = 2
  MaxSends = 1
  SyscallsMayFail = TRUE
SPECIFICATION FairSpec
INVARIANTS LayersRest ActiveCounts DealtEvenly
PROPERTY CallsReturn
CHECK_DEADLOCK FALSE
