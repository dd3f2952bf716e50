-------------------------- MODULE FoundationParts --------------------------
(***************************************************************************)
(* The parts of darwincore::foundation that theorems are about: those that *)
(* threads share (the ring queues, the locks, the task queue, the timers,  *)
(* the throttle, the asynchronous logger, the concurrent map), the         *)
(* containers and pools, and the generator of connection ids.  They do not *)
(* call one another, so that a behaviour here is a behaviour of one part.  *)
(* The variables s1 to s11 hold the state of that part; the modules of the *)
(* others are instantiated over the same variables and take no step.  The  *)
(* generator has its own variables.                                        *)
(***************************************************************************)
EXTENDS ConnectionId, Integers, Sequences, FiniteSets

CONSTANTS Producers, Consumers,     \* threads of the MPMC ring
          RingCells, RingPushes,    \* its cells, and values per producer
          PairCells, PairPushes,    \* the same for the SPSC ring
          LockThreads, LockCalls, SemaphoreCount,
          Workers, TaskNames,       \* threads and tasks of the task queue
          TimerCount, TimerInterval,
          Events, Intervals, Callers, MaxTime, MaxSubmits,    \* of the throttle
          LogEntries, LogQueueSize, LogBatch, LogBlocks, LogStarts,
          MapKeys, MapThreads, MapShards, MapCalls,
          BufferValues, BufferCapacity,                       \* of the circular buffer
          CacheKeys, CacheValues, CacheCapacities, CacheUses,
          BitWidth, BitLimit,       \* bits of a word and of the largest bit set
          FilterElements, Filters, FilterBits, FilterHashes, HashRange, FilterAdds,
          PoolHandles, PoolLimit, PoolInitial, PoolObjects,
          BlockAlign, BlockMax, BlockChunk, BlockCount, BlockLive,    \* of the memory pool
          Texts, TextHolders, TextGenerations,                \* of the string pool
          None                      \* no value

ASSUME ThreadsAssumption ==
  /\ Producers \cap Consumers = {} /\ RingCells \in Nat \ {0, 1}
  /\ PairCells \in Nat \ {0}
  /\ IsFiniteSet(LockThreads) /\ SemaphoreCount \in Nat
  /\ Workers # {}
  /\ TimerCount \in Nat /\ TimerInterval \in Nat
  /\ Intervals \subseteq Nat
  /\ "none" \notin LogEntries /\ LogQueueSize \in Nat /\ LogBatch \in Nat
  /\ None \notin MapKeys /\ None \notin Nat

\* The constructors of CircularBuffer and LRUCache refuse a capacity of 0; the largest
\* block is a multiple of the alignment (8 and 128 in the code).
ASSUME ContainersAssumption ==
  /\ BufferCapacity \in Nat \ {0}
  /\ CacheCapacities \subseteq Nat \ {0}
  /\ BitWidth \in Nat \ {0} /\ BitLimit \in Nat
  /\ IsFiniteSet(PoolHandles) /\ PoolLimit \in Nat /\ PoolInitial \in Nat
  /\ BlockAlign \in Nat \ {0} /\ BlockMax \in Nat /\ BlockMax % BlockAlign = 0
  /\ BlockChunk \in Nat \ {0}

VARIABLES part, s1, s2, s3, s4, s5, s6, s7, s8, s9, s10, s11

slots == <<s1, s2, s3, s4, s5, s6, s7, s8, s9, s10, s11>>
all == <<part, slots, vars>>

-----------------------------------------------------------------------------
MPMC == INSTANCE MPMCRingQueue WITH
    head <- s1, tail <- s2, sequence <- s3, data <- s4, pc <- s5, pos <- s6,
    pushed <- s7, put <- s8, got <- s9,
    Producers <- Producers, Consumers <- Consumers, Capacity <- RingCells,
    MaxPushes <- RingPushes, NoValue <- None

SPSC == INSTANCE SPSCRingQueue WITH
    head <- s1, tail <- s2, buffer <- s3, producer <- s4, consumer <- s5,
    pushed <- s6, accepted <- s7, popped <- s8,
    Capacity <- PairCells, MaxPushes <- PairPushes

RWLock == INSTANCE ReadWriteLock WITH
    readers <- s1, writers <- s2, waitWriters <- s3, count <- s4, state <- s5,
    calls <- s6,
    Threads <- LockThreads, MaxCalls <- LockCalls, InitialCount <- SemaphoreCount

Tasks == INSTANCE AsyncQueue WITH
    isRunning <- s1, taskQueue <- s2, worker <- s3, task <- s4, submit <- s5,
    destructor <- s6, runs <- s7,
    Workers <- Workers, Tasks <- TaskNames

Timers == INSTANCE Timer WITH
    currentId <- s1, timerMap <- s2, timer <- s3, queued <- s4, running <- s5,
    manager <- s6, fired <- s7, dangling <- s8, cut <- s9,
    MaxTimers <- TimerCount, Interval <- TimerInterval

Throttles == INSTANCE Throttle WITH
    clock <- s1, event <- s2, caller <- s3, submits <- s4, round <- s5,
    visited <- s6, is_run <- s7, has_call <- s8, armedAt <- s9, early <- s10,
    worker <- s11,
    Events <- Events, Intervals <- Intervals, Callers <- Callers,
    MaxTime <- MaxTime, MaxSubmits <- MaxSubmits

Log == INSTANCE AsyncLogger WITH
    running <- s1, queue <- s2, call <- s3, worker <- s4, batch <- s5,
    flushing <- s6, hand <- s7, stopper <- s8, starts <- s9, sink <- s10,
    history <- s11,
    Entries <- LogEntries, MaxQueueSize <- LogQueueSize, BatchSize <- LogBatch,
    BlockWhenFull <- LogBlocks, MaxStarts <- LogStarts

Map == INSTANCE ConcurrentMap WITH
    shard <- s1, hash <- s2, call <- s3, calls <- s4, made <- s5,
    result <- s6, erased <- s7,
    Keys <- MapKeys, Threads <- MapThreads, Shards <- MapShards,
    MaxCalls <- MapCalls, NoValue <- None

Ring == INSTANCE CircularBuffer WITH
    buffer <- s1, head <- s2, tail <- s3, size <- s4, kept <- s5,
    Values <- BufferValues, Capacity <- BufferCapacity

LRU == INSTANCE LRUCache WITH
    capacity <- s1, list <- s2, map <- s3, uses <- s4, lastUse <- s5,
    contents <- s6,
    Keys <- CacheKeys, Values <- CacheValues, Capacities <- CacheCapacities,
    MaxUses <- CacheUses

Bits == INSTANCE BitSet WITH
    size <- s1, bits <- s2, members <- s3,
    Width <- BitWidth, MaxSize <- BitLimit

Bloom == INSTANCE BloomFilter WITH
    h1 <- s1, h2 <- s2, bits <- s3, count <- s4, added <- s5,
    Elements <- FilterElements, Filters <- Filters, BitCount <- FilterBits,
    HashCount <- FilterHashes, HashRange <- HashRange, MaxAdds <- FilterAdds

Objects == INSTANCE ObjectPool WITH
    pool <- s1, createdCount <- s2, object <- s3, bound <- s4, dirty <- s5,
    made <- s6, escaped <- s7,
    Handles <- PoolHandles, MaxSize <- PoolLimit, InitialSize <- PoolInitial,
    MaxObjects <- PoolObjects

Memory == INSTANCE MemoryPool WITH
    free_lists <- s1, made <- s2, live <- s3, sharing <- s4,
    ALIGN <- BlockAlign, MAX_BLOCK <- BlockMax, ChunkBlocks <- BlockChunk,
    MaxBlocks <- BlockCount, MaxLive <- BlockLive

Interned == INSTANCE StringPool WITH
    pool <- s1, view <- s2, generation <- s3,
    Strings <- Texts, Holders <- TextHolders, MaxGenerations <- TextGenerations

-----------------------------------------------------------------------------
\* The slots after the nth are empty; the parts other than ids make no ids.
Empty10 == s11 = None
Empty9 == s10 = None /\ Empty10
Empty8 == s9 = None /\ Empty9
Empty7 == s8 = None /\ Empty8
Empty6 == s7 = None /\ Empty7
Empty5 == s6 = None /\ Empty6
Empty4 == s5 = None /\ Empty5
Empty3 == s4 = None /\ Empty4
Empty2 == s3 = None /\ Empty3
Empty1 == s2 = None /\ Empty2
Empty0 == s1 = None /\ Empty1
NoId == day = None /\ reactorId = None /\ fd = None /\ seq = None /\ connId = None

\* What a part with n variables leaves alone.
Rest11 == <<part, vars>>
Rest10 == <<part, vars, s11>>
Rest9 == <<part, vars, s10, s11>>
Rest8 == <<part, vars, s9, s10, s11>>
Rest7 == <<part, vars, s8, s9, s10, s11>>
Rest6 == <<part, vars, s7, s8, s9, s10, s11>>
Rest5 == <<part, vars, s6, s7, s8, s9, s10, s11>>
Rest4 == <<part, vars, s5, s6, s7, s8, s9, s10, s11>>
Rest3 == <<part, vars, s4, s5, s6, s7, s8, s9, s10, s11>>
Rest2 == <<part, vars, s3, s4, s5, s6, s7, s8, s9, s10, s11>>
Rest1 == <<part, vars, s2, s3, s4, s5, s6, s7, s8, s9, s10, s11>>

ThreadsStart ==
    \/ part = "mpmc" /\ MPMC!Init /\ Empty9 /\ NoId
    \/ part = "spsc" /\ SPSC!Init /\ Empty8 /\ NoId
    \/ part = "lock" /\ RWLock!Init /\ Empty6 /\ NoId
    \/ part = "tasks" /\ Tasks!Init /\ Empty7 /\ NoId
    \/ part = "timer" /\ Timers!Init /\ Empty9 /\ NoId
    \/ part = "throttle" /\ Throttles!Init /\ NoId
    \/ part = "log" /\ Log!Init /\ NoId
    \/ part = "map" /\ Map!Init /\ Empty7 /\ NoId
    \/ part = "ids" /\ Init /\ Empty0

ThreadsStep ==
    \/ part = "mpmc" /\ MPMC!Next /\ UNCHANGED Rest9
    \/ part = "spsc" /\ SPSC!Next /\ UNCHANGED Rest8
    \/ part = "lock" /\ RWLock!Next /\ UNCHANGED Rest6
    \/ part = "tasks" /\ Tasks!Next /\ UNCHANGED Rest7
    \/ part = "timer" /\ Timers!Next /\ UNCHANGED Rest9
    \/ part = "throttle" /\ Throttles!Next /\ UNCHANGED Rest11
    \/ part = "log" /\ Log!Next /\ UNCHANGED Rest11
    \/ part = "map" /\ Map!Next /\ UNCHANGED Rest7
    \/ part = "ids" /\ Next /\ UNCHANGED <<part, slots>>

ThreadsSpec == ThreadsStart /\ [][ThreadsStep]_all

ContainersStart ==
    \/ part = "ring" /\ Ring!Init /\ Empty5 /\ NoId
    \/ part = "lru" /\ LRU!Init /\ Empty6 /\ NoId
    \/ part = "bitset" /\ Bits!Init /\ Empty3 /\ NoId
    \/ part = "bloom" /\ Bloom!Init /\ Empty5 /\ NoId
    \/ part = "objects" /\ Objects!Init /\ Empty7 /\ NoId
    \/ part = "memory" /\ Memory!Init /\ Empty4 /\ NoId
    \/ part = "strings" /\ Interned!Init /\ Empty3 /\ NoId

ContainersStep ==
    \/ part = "ring" /\ Ring!Next /\ UNCHANGED Rest5
    \/ part = "lru" /\ LRU!Next /\ UNCHANGED Rest6
    \/ part = "bitset" /\ Bits!Next /\ UNCHANGED Rest3
    \/ part = "bloom" /\ Bloom!Next /\ UNCHANGED Rest5
    \/ part = "objects" /\ Objects!Next /\ UNCHANGED Rest7
    \/ part = "memory" /\ Memory!Next /\ UNCHANGED Rest4
    \/ part = "strings" /\ Interned!Next /\ UNCHANGED Rest3

ContainersSpec == ContainersStart /\ [][ContainersStep]_all

-----------------------------------------------------------------------------
(***************************************************************************)
(* What passes through a queue passes once and in order: the ring queues   *)
(* deliver what was pushed, each producer's values in turn; the task queue *)
(* runs every task once; a timer fires in turn and the throttle never      *)
(* early; the logger writes each entry it accepted once, and each of its   *)
(* threads writes in the order of the queue.                               *)
(***************************************************************************)
OrderAndOnce ==
    /\ part = "mpmc" => MPMC!Fifo
    /\ part = "spsc" => SPSC!Fifo
    /\ part = "tasks" => Tasks!RunsOnce
    /\ part = "timer" => Timers!FiresInTurn
    /\ part = "throttle" => Throttles!NeverEarly
    /\ part = "log" => Log!EntriesKept

(***************************************************************************)
(* Locks exclude and wake whom they should, and the sharded map finds or   *)
(* inserts a key in one step: ReadWriteLock, Semaphore, ConcurrentMap,     *)
(* ShardedMap.                                                             *)
(***************************************************************************)
LocksAndMaps ==
    /\ part = "lock" => RWLock!LockSafe
    /\ part = "map" => Map!GetOrInsertAtomic

(***************************************************************************)
(* Containers and pools hold what their clients put there: each is compared*)
(* with the set, sequence or map it stands for (CircularBuffer, LRUCache,  *)
(* BitSet, BloomFilter, ObjectPool, MemoryPool, StringPool).               *)
(***************************************************************************)
ContainersMatch ==
    /\ part = "ring" => Ring!ShowsKept
    /\ part = "lru" => LRU!LeastRecentLeaves
    /\ part = "bitset" => Bits!IsASet
    /\ part = "bloom" => Bloom!NoFalseNegative
    /\ part = "objects" => Objects!PoolConserves
    /\ part = "memory" => Memory!BlocksDisjoint
    /\ part = "strings" => Interned!AddressIsIdentity

(***************************************************************************)
(* A destructor of the task queue that has begun returns, and an event the *)
(* throttle holds past its time is called while its thread is in the loop  *)
(* (~AsyncQueue, Throttle::run).  The thread is not there for sure: it     *)
(* starts before is_run is set, and one that read FALSE has left, and then *)
(* no event is ever called.                                                *)
(***************************************************************************)
TasksEnd ==
    /\ (part = "tasks" /\ Tasks!Stopping) ~> (part = "tasks" /\ Tasks!Stopped)
    /\ \A e \in Events :
         (part = "throttle" /\ Throttles!Overdue(e)) ~> (part = "throttle" /\ Throttles!Settled(e))
=============================================================================
