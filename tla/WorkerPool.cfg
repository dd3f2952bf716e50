\* Two workers, connections that share a worker but not a reactor, one slot per
\* queue: two submitters block on one full queue.  Two starts, so that the pool is
\* stopped, restarted and stopped again.
CONSTANTS
  WorkerCount = 2
  MaxQueueSize = 1
  Reactors = {"r0", "r1"}
  Connections = {1, 3}
  HomeOf <- OwnHomes
  Submissions = 3
  MaxStarts = 2
SPECIFICATION FairSpec
INVARIANTS TypeOK CallbacksInOrder StopLosesNothing
PROPERTIES StopReturns StopReleasesSubmitters
CHECK_DEADLOCK FALSE
