CONSTANTS
  Producers = {"p1", "p2"}
  Consumers = {"c1", "c2"}
  RingCells = 2
  RingPushes = 2
  PairCells = 4
  PairPushes = 8
  LockThreads = {"t1", "t2", "t3"}
  LockCalls = 2
  SemaphoreCount = 0
  Workers = {"w1", "w2"}
  TaskNames = {"k1", "k2", "k3"}
  TimerCount = 2
  TimerInterval = 2
  Events = {"e1"}
  Intervals = {0, 2}
  Callers = {"c1", "c2"}
  MaxTime = 4
  MaxSubmits = 1
  LogEntries = {"e1", "e2", "e3"}
  LogQueueSize = 2
  LogBatch = 2
  LogBlocks = TRUE
  LogStarts = 1
  MapKeys = {"k1", "k2"}
  MapThreads = {"t1", "t2"}
  MapShards = {0, 1}
  MapCalls = 2
  BufferValues = {"v1", "v2"}
  BufferCapacity = 3
  CacheKeys = {"k1", "k2", "k3"}
  CacheValues = {"v1", "v2"}
  CacheCapacities = {1, 2}
  CacheUses = 4
  BitWidth = 2
  BitLimit = 5
  FilterElements = {"x", "y"}
  Filters = {"f", "g"}
  FilterBits = 3
  FilterHashes = 2
  HashRange = 4
  FilterAdds = 2
  PoolHandles = {"h1", "h2"}
  PoolLimit = 3
  PoolInitial = 1
  PoolObjects = 4
  BlockAlign = 2
  BlockMax = 4
  BlockChunk = 2
  BlockCount = 4
  BlockLive = 3
  Texts = {"s1", "s2"}
  TextHolders = {"h1", "h2"}
  TextGenerations = 3
  None = None
  ReactorSize = 4
  FdSize = 4
  SeqSize = 4
  LocalDates <- FirstAndLastDays
  ReactorIds = {0, 1, 3, 4}
  FileDescriptors = {0, 1, 3, 5}
SPECIFICATION FoundationSpec
INVARIANTS OrderAndOnce LocksAndMaps ContainersMatch FilesKept ConversionsAgree
PROPERTY TasksEnd
CHECK_DEADLOCK FALSE
