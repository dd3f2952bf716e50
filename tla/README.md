# A TLA+ verification of darwincore

darwincore is a C++ library for macOS. Its core is a network library (a kqueue
based multi-reactor server and a client); beside it is `foundation`, a
collection of containers, locks, loggers and wrappers of system calls. This
directory holds TLA+ models of the network library and of those parts of
`foundation` that keep state or compute something, TLC configurations that check
them on small instances, and TLAPS proofs for every value of the constants.

Paths below are relative to the repository; the network library is
`src/darwincore/network/` with its public headers in `include/darwincore/network/`,
the other library `src/darwincore/foundation/` and `include/darwincore/foundation/`.

## 1. The system

```
             accept()                 events                 callbacks
 Acceptor ------------> Reactor 1..n --------> WorkerPool ------------> user
  (thread)  AddConnection (threads)  SubmitEvent (threads)                |
                 ^                                                        |
                 +---- SendData / RemoveConnection / GetSendBufferSize ---+
                        (operation queue + EVFILT_USER wake-up)
```

| component | state | operations | what makes it correct |
|---|---|---|---|
| `ConcurrentQueue` | a queue, a stop flag, two condition variables | Enqueue, TryEnqueue, TryDequeue, WaitDequeue, NotifyStop, Reset | bound respected, no lost wake-up on either side, nothing accepted after a stop, a stop releases everyone |
| `SendBuffer` | a byte vector and two positions | Write (with compaction and growth), SendToSocket, Compact, Clear | a bounded FIFO of bytes; no access outside the storage |
| `Reactor` + `IOMonitor` | operation queue, connection table, descriptor index, filters of the kqueue, per-connection buffer and flags | AddConnection, RemoveConnection, SendData, GetSendBufferSize, Start, Stop; on its own thread the event loop | a descriptor has one owner and is closed once; the two tables agree; events of a batch never hit a recycled descriptor; Connect - Data - Disconnect; bytes in order; backpressure never gets stuck; every call returns |
| `WorkerPool` | one bounded queue and one thread per worker | SubmitEvent, TrySubmitEvent, Start, Stop | per-connection order, no event lost by Stop, Stop returns |
| `ConnectionIdGenerator` | none | Generate, Parse, Get* | parsing undoes packing; different parts give different ids |
| `Acceptor` | listening socket, its thread, the list of reactors | Listen*, Stop, AcceptLoop | each accepted descriptor goes to one reactor or is closed |
| `Server` | state, pool, reactors, acceptor, counters | Start*, Stop, SendData, OnNetworkEvent, GetStatistics | start and stop order; calls racing Stop; counts that agree with the events |
| `ClientReactor`, `Client` | one connection, its buffer, operation queue, connection state | SetConnection, RemoveConnection, SendAsync, SendSync, Connect, Disconnect, GracefulShutdown | state follows the connection; time-outs and late answers; nothing inherited by the next connection |
| protocol codec | receive buffer, partial messages, open streams | MakeFrame, EncodeMessage, Feed, TryDecode, CleanupTimeoutMessages | decoding undoes encoding for every split and interleaving of frames |
| `foundation`: threads | read-write lock, semaphore, task queue, ring queues, timers, throttle | lock and unlock, submit, push and pop, count down, submit and run | exclusion without a lost wake-up; each task, value and event once and in order; destructors return |
| `foundation`: containers | bit set, circular buffer, LRU cache, object pool, sharded map, memory pool, string pool, Bloom filter, process tree | their mutators | each shows what the set, sequence or map it stands for would show |
| `foundation`: logging and files | log entries, queue, chain of rotated files; descriptors; the file tree | log, flush, stop, rotate, roll over; open, move, close; copy, move, shred | accepted entries in order, also across a crash; one owner per descriptor; nothing lost by a failing step |
| `foundation`: conversions | none | sorting, searching, dates, encodings, paths, strings | agree with their reference or undo each other |

What is hard to test here: threads that meet between two steps of a call (the
test of `is_running_`, the enqueue, the wake-up), notifications sent outside the
mutex, kqueue batches that are snapshots, descriptor numbers that are reused,
partial sends, the order of stopping, counters that wrap. `PROJECT.json` lists
each of these hazards at its line with the properties that would notice it.

## 2. The modules

| module | models | how |
|---|---|---|
| `ConcurrentQueue` | `concurrent_queue.h` | One step per critical section. Enqueue's `notify_one` after the unlock and the three parts of NotifyStop are steps of their own. A condition variable is the set of its sleepers; a woken thread re-tests its predicate in a later step. Deadlines and spurious wake-ups may come at any time. |
| `ByteStream` | what a send buffer promises | A bounded FIFO of bytes. |
| `SendBuffer` | `send_buffer.{h,cpp}` | The storage byte by byte, both positions, the four ways a Write can go. Refines `ByteStream`. |
| `Reactor` | `reactor.{h,cpp}`, `io_monitor.cpp`, the hand-over in `acceptor.cpp` | A call of another thread is split into test, enqueue, trigger (and the wait of a query). The event loop runs one operation or one kqueue event per step, because nothing else touches the state it uses. Sockets and kqueue are external: level-triggered filters, a batch that is a snapshot, EV_EOF and EV_ERROR on a reset, EV_CLEAR on the wake-up event, descriptor numbers that the next `accept()` may reuse. |
| `WorkerPool` | `worker_pool.{h,cpp}` | Calls on a queue are atomic here (what `ConcurrentQueue` shows of them is used). An owner that keeps the order of `Server::Stop` and one that does not are both in the model (`server_order`). |
| `ConnectionId` | `connection_id_generator.cpp` | Shifts and masks as products, quotients and remainders; the widths are constants. |
| `Protocol` | `protocol.{h,cpp}` | The encoder as functions from messages to frames, the decoder as the state between calls of Feed. Bytes on the wire carry which byte of which frame they are, so a frame may be cut anywhere. Any one byte may be damaged: a wrong magic number throws, a wrong type, flag or length of the frame header and, in a frame without a CRC, a wrong number in the payload's own header are believed, and data or a CRC that is wrong is found if the frame has a CRC. `uncovered` remembers that a byte no CRC covers was hit. |
| `Client` | `client.cpp`, `client_reactor.{h,cpp}` | Four threads: the owner's calls, a sender, the event loop and the worker that runs OnNetworkEvent. One descriptor number, so that a second connection gets the number of the first. A registration of either filter may fail; `unwatched` remembers a write filter that is missing because its registration failed or because `write_pending` came from the connection before. |
| `Server` | `server.cpp`, `acceptor.cpp` | The layers of a server and the threads that start and stop it. A reactor is a queue of additions and a table, the pool a queue of events: what `Reactor` and `WorkerPool` show of them. A registration with a reactor may fail and the thread of an acceptor may throw through Start, after which `state_` stays at starting. `unseen` counts the connections a Stop closed without an event. |
| `Listener` | `acceptor.cpp`, `socket_helper.cpp`, `io_monitor.cpp` | One system call per step from `socket()` to the accept thread and back through Stop; each may fail. Socket files and foreign files lie on the disk. |
| `MPMCRingQueue`, `SPSCRingQueue` | `container/RingQueue.h` | One atomic access per step, sequentially consistent. |
| `ReadWriteLock`, `AsyncQueue`, `Timer`, `Throttle` | `thread/Lock`, `thread/AsyncQueue`, `timer/Timer`, `throttle/Throttle` | One critical section per step; sleeping, notifying and reading the clock are steps of their own where the code does them outside the mutex. `Throttle` starts its thread before `is_run` is set, as the order of its members does: the thread may read either value until the constructor has gone on. |
| `AsyncLogger`, `Logger`, `LogRotate` | `logger/` | Producers, worker, flush and stop; the logger's thread on the task queue; rotation under `FileSink`. Both chains of files are moved one remove or rename at a time; each may fail, the process may end between any two, a gzip may fail or be cut short, an open may fail. An entry is its number. |
| `CircularBuffer`, `LRUCache`, `BitSet`, `BloomFilter`, `ObjectPool`, `ConcurrentMap`, `MemoryPool`, `StringPool`, `ProcessTree` | `container/`, `memory/`, `string/StringPool`, `algorithm/BloomFilter`, `process/ProcessTree` | The representation the code keeps beside the abstract value it stands for. |
| `FileManager`, `FileResources`, `SecureDelete` | `file/`, `sqlite3/SQLite3DB.cpp` | A tree of paths with partial failures and its listings (`DirectoryIterator`); a copy whose streams fail leaves short or missing files and still reports success, as the code does; descriptors that POSIX hands out lowest first; overwriting, renaming and removing step by step. |
| `Algorithms`, `Calendar`, `Encoding`, `Paths`, `Strings` | `algorithm/`, `date/`, `string/`, `uuid/`, `file/FilePath.cpp` | Functions, recursive where the code loops or recurses. Spans and time points count milliseconds. |
| `FoundationParts` | one instance of every part of `foundation` that has threads, and of every container and pool | A behaviour is a behaviour of one part; the parts share the variables `s1` to `s11`. A module of its own, because the other parts reach RECURSIVE operators, which a module with theorems may not. |
| `MCFoundation` | `FoundationParts`, the other parts of `foundation`, `Listener` and `ConnectionId` | The instance TLC runs: its behaviours are those of `FoundationParts` and those of the other parts. |
| `SendBufferProofs`, `ConcurrentQueueProofs`, `WorkerPoolProofs`, `ServerProofs`, `ClientProofs`, `ReactorProofs`, `ProtocolProofs` | theorems about the module they are named after | Section 5. |
| `FoundationProofs` | theorems about `FoundationParts` (the threads, the containers and pools) and `ConnectionId` | Section 5. |

Values of constants that a .cfg cannot write (`OwnHomes` of `WorkerPool`, `Reuse`,
`Asking` and `OneConnection` of `Reactor`) stand at the end of the module they are
for. Operators named in a comment as mutants are plausible faults of the code; they
are not part of any specification and serve to show that a property notices the
fault.

What the models abstract from: payload bytes are unit numbers in `Reactor`
(what was sent when), statistics counters and logging are left out, the clock
is replaced by time-outs that may or may not be due. `Reactor` starts after a
successful Start.

## 3. The runs

| run | checks | bounds |
|---|---|---|
| `queue` | `TypeOK`, `CapacityRespected`, `NoLostConsumerWakeup`, `NoLostProducerWakeup`, `StoppedTakesNothing`, `StopReleasesEveryone` | 3 producers, 2 consumers, 2 slots: a producer can be overtaken between its wake-up and its re-test, two producers can be blocked while a third enters, a notification can meet an expiring consumer |
| `send_buffer` | `TypeOK`, `PositionsInside`, `ImplementsByteStream` | capacities 1 to 5, writes of up to 3 bytes, so that one and two doublings, the clip at the maximum, compaction in Write and in SendToSocket and a rejected write all happen |
| `reactor` | `TypeOK`, `LifecycleOrder`, `TableConsistent`, `OneOwner`, `NoStaleEvent` | one descriptor number and two connections, so that it is reused; a send, a removal, Stop at any moment, failing `kevent` and interrupted `send`; batches of two events and two operations |
| `reactor_live` | `StreamInOrder`, `BackpressureConsistent`, `QueryReturnsEventually`, `ResetIsNoticed` | one connection, two sends of two units into a buffer of three, pausing at two, resuming when empty; one query; Stop at any moment |
| `worker_pool` | `TypeOK`, `CallbacksInOrder`, `StopLosesNothing`, `StopReturns`, `StopReleasesSubmitters` | two workers, two submitters that share a worker, one slot, three events each, two starts, a thread creation that may fail |
| `protocol` | `CheckedMessagesIntact`, `NothingLost`, `FailureIsFinal` | two messages and a stream; a slice holds one or two bytes, so a message has one, two or (wrapped to 0 and refused) four slices; one damaged byte anywhere in a frame, clean-up or Reset |
| `client` | `StreamInOrder`, `NothingLeftOpen`, `WaitsForSpace`, `SendSyncReturns` | two connections on one descriptor number, two sends, one arrival, a buffer of three units; every system call and every registration may fail |
| `server` | `LayersRest`, `ActiveCounts`, `DealtEvenly`, `CallsReturn` | two threads that start and stop, two starts of one or two acceptors that may fail at any layer, two reactors, two clients |
| `foundation` | `OrderAndOnce`, `LocksAndMaps`, `ContainersMatch`, `FilesKept`, `ConversionsAgree`, `TasksEnd` | one small instance of each part, given in `Foundation.cfg` and, for the parts outside `FoundationParts`, in `MCFoundation`: two producers and two consumers on a ring of two cells, three threads on the lock, a cache of one or two of three keys, bit sets of up to five bits in words of two, two handles on a pool of at most three objects, three files and two crashes in the rotation, vectors of up to five elements, the days of years around each rule of the calendar, code points at the edge of each length |

The largest is `reactor` with 2.9 million states; `protocol` has 1.8 million,
`reactor_live` and `foundation` some 700 000 each. In `foundation`
each property is the conjunction of one named property per part
(`MPMC!Fifo`, `RWLock!LockSafe`, `Rotate!HistoryInOrder`, ...), stated and
explained in the module of that part.

Three runs show that the code does something other than what a document or
comment of the repository says; `findings` in `PROJECT.json` quotes the lines.

| run | property that fails | what happens |
|---|---|---|
| `reactor_stop_leak` | `StopClosesEverything` | an addition still queued when Stop runs is never closed (`reactor.cpp:335` returns without `close`, and the rest of the queue is dropped) |
| `server_send_data` | `SendDataSafe` | `Server::SendData` has compared the reactor's number with the size of `reactors_` when Stop of another thread clears the list it then indexes (`server.cpp:469`) |
| `logger_stop` | `StopReturns` | `AsyncLogger::stop` clears its flag and notifies without the mutex, between the test and the sleep of the worker, and waits for ever to join it (`AsyncLogger.cpp:26`) |

Other disagreements seen while modelling, which no run is spent on:

* a `GetSendBufferSize` still queued when the reactor stops waits for ever on its
  future (`reactor.cpp:253`); `QueryReturnsEventually` names this case (`Stranded`)
  and shows that every other query returns;
* connections that Stop closes are never counted off: the count of active
  connections is too high by them after the next Start (`server.cpp:557`), although
  `docs/network_reactor_worker_redesign.md:85` calls it the sum of the reactors.
  `ActiveCounts` says by exactly how much;
* an exception of `std::thread` in the acceptor goes through Start and leaves
  `state_` at starting for good (`acceptor.cpp:239`);
* the CRC covers the payload and not the frame header: a damaged flags byte
  switches the check off, a damaged length or type is believed
  (`protocol.cpp:303-322`). `CheckedMessagesIntact` is about the other bytes;
* the client ignores a failing registration of its write filter, and a new
  connection inherits `write_pending`: its bytes then wait although nothing watches
  for space (`client_reactor.cpp:465`). `WaitsForSpace` excepts these two and no other;
* the thread of `Throttle` starts before `is_run` is initialised
  (`Throttle.h:68-70`) and may leave at once; no event is then ever called;
* a timer stopped between the hand-over of its task and the end of the task is
  erased under it (`Timer.cpp:57`); `FiresInTurn` shows that no other timer is;
* `AsyncLogger::flush` may overtake the batch of the worker (`AsyncLogger.cpp:59`,
  92): entries are written once, each thread's in order, but the sink as a whole
  need not be in order, and `EntriesKept` does not say so;
* `FileManager::copyItem` never looks at its streams and returns true for a copy
  that failed (`FileManager.cpp:195`), and `Logger` ignores a failing move or write
  (`Logger.cpp:170`, 129). `SourceSurvives` and `LogInOrder` hold of what is on the
  disk then: the source of a copy is untouched, the target holds nothing that is
  not of the source;
* a Unix socket path that is too long is cut by `strncpy` (`socket_helper.cpp:133`)
  and the file that bind made under the short name is never unlinked, although
  `server.h:203-204` says that long paths are handled; `ListenersClean` says that an
  old socket file stands in the way of bind() for such a path and for no other;
* `MemoryPool::allocate(0)` computes the index of a class before the first
  (`MemoryAllocator.cpp:17`), whose blocks have 0 bytes and are all one block: in the
  model every caller that asks for 0 bytes shares it (taking the word in front of
  the array to be null), and `BlocksDisjoint` is about the other blocks;
* `Duration::toISO8601` drops the sign of a negative span (`Duration.cpp:50`), unlike
  `toString` and `toHHMMSS`;
* `interpolationSearch` divides by the difference of the ends, and for equal ends
  converts a NaN to an index (`Search.h:125`); the model calls the result
  `Undefined`, and the search is claimed only where it does not come up;
* operations beyond two batches wait for the 5-second time-out, because their
  wake-ups were merged into one (`reactor.cpp:279`, comment at 551);
* ids are not unique: the 16-bit sequence number wraps (`reactor.cpp:342`,
  `docs/network_architecture.md:137`);
* EV_EOF closes a connection before its last data is read (`reactor.cpp:605`);
* the worker is chosen by connection id, which the order of events needs, and not
  round robin as `worker_pool.h:40` says;
* `EncodeMessage` casts the number of slices to 16 bits before comparing it with
  the limit, so a message that is too large is cut short instead of refused
  (`protocol.cpp:141`, comment at 130);
* a client whose registration fails closes its descriptor twice
  (`client_reactor.cpp:150`, `client.cpp:160`), the second time a number that may
  by then be another part's; a `GracefulShutdown` that times
  out leaves the state at closing (`client.cpp:232`); a second Connect on a
  connected client leaves it at connecting (`client.cpp:121`);
* `FileLock` keeps the descriptor of a lock it did not get (`FileLock.cpp:37`) and
  `SQLite3DB::open` loses the handle of an open database (`SQLite3DB.cpp:66`);
  `OneOwnerEach` counts both as known leaks;
* the copy of a part of a file reports success after a failed write and leaves the
  source open when the target cannot be opened (`FileManager.cpp:261`);
* `Calendar::weekOfYear` counts a Sunday with the days after it; ISO 8601, which
  `Calendar.h:56` names, counts it with the days before (`Calendar.cpp:84`).
  `DatesAgree` compares with the week of ISO 8601 from Monday to Saturday, and
  says nothing of Sundays;
* `byte2utf8string` encodes the first byte of a character again and drops the
  others, and the character after a four-byte one with them
  (`StringUtils.cpp:197`);
* `DirectoryIterator::maxDepth` measures the distance between iterators of two
  different paths, which is undefined (`DirectoryIterator.cpp:84`);
* `FileWatcher::stop` before its thread has made the stream waits for ever to
  join it (`FileWatcher.cpp:103`).

Deadlock is checked for `queue` and `send_buffer`, whose systems can always go
on. The others end when the calls of the instance are used up and everything is
stopped, so it is switched off there.

Each property of a passing run has at least one mutant, a plausible fault of the
code under which it fails; the properties of `foundation` have several, each in
another part.

## 4. Fairness

Fairness is weak and only for threads that are inside the library and able to
run: a woken waiter gets the mutex and re-tests, a deadline passes, the event
loop goes on, a thread inside a call finishes it, user callbacks return. That
is what the scheduler and a mutex that is held only for short sections give.
Nothing is assumed of callers (nobody has to call), of peers (a peer may stay
silent for ever) or of time-outs of idle connections.

* `reactor_live`: system calls do not fail; a `kevent()` that fails for good ends
  the loop and leaves calls unanswered. Stop may come at any moment.
* `client`: the owner inside a call, the loop and the worker. A loop that died of
  a failing `kevent()` is excepted in `SendSyncReturns`.
* `server`: a thread inside Start or Stop, the accept threads, and the worker that
  handles events, which the drain of the pool waits for. The accept thread leaves
  its loops once `is_running_` is cleared, also while `accept()` keeps failing: the
  inner loop tests it too. A Start that an exception has left is not inside the
  library any more.
* `foundation`: the workers of the task queue, its destructor once begun, and the
  thread of the throttle.
* `logger_stop`: every thread of the logger; the counterexample is not one of a
  thread that refuses to run.

## 5. The proofs

`SendBufferProofs` proves, for every initial and maximal capacity and every
write size:

* `StorageTyped`, `PositionsStayInside`: from an inductive invariant of the
  types, the order of the positions and the bound on the wasted front. The bound
  (`read_pos <= capacity / 2`) is needed because a compaction decides what a
  write may use.
* `RefinesByteStream`: every step maps to a write, a transmission, a discard or
  a stutter of `ByteStream`. The lemmas say what memmove, memcpy and resize do
  to the slice of pending bytes.

`ConcurrentQueueProofs` proves, for any finite sets of producers and consumers
and every `max_size_` (0 for unlimited):

* `QueueTyped`, `CapacityHolds`, `ConsumersAreWoken`, `ProducersAreWoken`: from
  `Inv`, which adds `Sleeping` to them: a sleeper is inside the call it sleeps in,
  nobody sleeps behind the notify_all that was meant for it, the flag agrees with
  the progress of NotifyStop. The two wake-up properties count: each push adds one
  element and one due notification, each notification turns a sleeper into a
  woken consumer, each pop removes an element and at most one woken consumer;
  symmetrically for free slots and producers. That is why one `notify_one` per
  push and per pop is enough.
* `StoppedOnlyDrains`: the action property, from the guards alone.

`WorkerPoolProofs` proves, for every number of workers, connections, events and
restarts and every size of the queues, `PoolTypes`, `CallbackOrder` and
`StopDrains` (each the property of the same run that its statement names). The
two last speak of callbacks that have happened, so the inductive invariant has to
follow an event from its acceptance on:

* `InLine`, `InCallback`: the events of a connection in its worker's queue are
  increasing, lie between those done and those accepted, and the one in the
  callback comes before them. Both queues and counters change in one step of
  acceptance, so this holds for a `SubmitEvent` and a `TrySubmitEvent` alike.
* `NoneLost`: each accepted event that is not done is in the queue or in the
  callback.
* `Phase`: which worker threads there are at each point of Start and Stop; and
  `Quiet`: if the owner keeps the order of `Server::Stop`, nobody submits outside
  the time between Start and Stop, hence the queue of a worker that is gone is
  empty. `StopDrains` is `NoneLost` with no place left to wait in.

`ServerProofs` proves, for any number of callers, reactors, clients and
restarts:

* `LayersAlwaysRest`: `Turns` (the exchange of `state_` lets one caller at a time
  into Start or Stop), `Layers` (what stands at each point of both, and what a
  failed Start leaves behind) and `Pending` (the acceptors still to be started)
  are inductive together.
* `ActiveAlwaysCounts`: the count that will be reached once the waiting events are
  handled is the number of connections in the tables and `unseen`, what the Stops
  so far closed without an event. `Owned` (a table holds its reactor's own
  identifiers, with numbers already handed out) is needed to see that an addition
  is new.
* `AlwaysDealtEvenly`: until the first Stop and with one acceptor, the first
  `next % n` reactors have had exactly one connection more than the others, for any
  number n of reactors. Of two acceptors, each with an index of its own, and of a
  later start nothing of the kind is true.

`ClientProofs` proves, for any number of connections and sends, every size of the
buffer and of the batches:

* `StreamKeepsOrder`: what was given to the kernel and what is in the buffer is
  what was accepted, in this order; inductive by itself, given the types.
* `AlwaysClosed`: from `Held` (somebody has the descriptor that is open, also after
  a connect(), a start of the reactor or a registration that failed) and
  `OneAtATime`: the worker is told once of a lost connection, and the state allows
  a new Connect only afterwards. Without the latter a second descriptor could
  overwrite the first. It also shows that SetConnection never finds a connection to
  close first: its branch for that (`client_reactor.cpp:140-144`) is dead code in a
  client, and the model leaves it out.
* `AlwaysWatched`: from `Watched`. A write filter may fail to be registered, and
  `write_pending` outlives its connection; `unwatched` is set by exactly these two
  steps, and the theorem is that no other leaves bytes without a filter.

`ReactorProofs` proves, for every finite set of descriptor numbers, every number
of threads, connections and operations, every size of the batches and every
setting of the water marks, all seven invariants of the two reactor runs:
`ReactorTypes`, `TablesAlwaysConsistent`, `EventsNeverStale`, `StreamsKeepOrder`,
`BackpressureNeverStuck`, `AlwaysOneOwner` and `LifecyclesInOrder`. The parts of
the inductive invariant:

* `TableInv`, the part the event loop's handlers work on: the two tables are
  inverse to each other, a connection in the table has been reported and not yet
  as closed (`Order`), its bytes are in order and its flags agree with the
  registered filters. Each handler is one lemma about this part
  (`HandleReadEventInv`, `DoSendDataInv`, `AfterSendInv`, ...), so that the
  threads do not appear in it.
* `Roles`, `Hands`: a descriptor is held by the acceptor, queued once for
  addition, or in the table, never two of these, and while the reactor runs an
  open one is one of them. That is `OneOwner` without counting; `AlwaysOneOwner`
  then counts.
* `Fresh`: connections are numbered, and nothing is known of a number before
  `DoAddConnection`; this makes the events of a new connection start with
  Connect although its descriptor number was used before.
* `Batched`: a batch is left only inside the loop over it, and every event of it
  whose descriptor is in the table belongs to the connection that is there. It
  holds because additions run in another phase of the loop than events.

`ProtocolProofs` proves, for any sizes of headers, frames and slices, any number of
messages and streams and any pieces in which the bytes arrive:

* `CheckedMessagesStayIntact`: as long as no byte outside every CRC was damaged
  (`uncovered`), from `Inv`. A byte in the decoder's buffer or on the
  wire is byte k of a frame the encoder made; a slot of an assembly is empty or
  holds the slice of that number, as it was sent if the message has a CRC;
  `received` counts the slots that are not empty. So an assembly that is complete
  flattens to the message, byte by byte: a slice before the last is full, which
  gives each byte its place.
* `NothingIsLost`: from `FlowInv` as well. Without a fault the buffer and the wire
  hold whole frames, one behind the other, but for the front of the first;
  each frame of a message is still to be sent, on its way, stored or delivered with
  its message, and exactly one of these; the events of a stream are a prefix of its
  three. Hence TryDecode never throws and stops only in front of an incomplete
  frame.
* `FailuresAreFinal`: the action property, from an invariant of its own
  (`ThrowInv`), which holds whatever was damaged. A Feed that threw leaves the bytes it
  could not read in front of the buffer, and more bytes behind them change nothing
  of what the first round of the loop finds.

One call of Feed runs the loop over the whole buffer. `Rounds` is the sequence of
the decoder's states, one for each round; the lemmas about it take the first round
that would break the invariant (a least element of a set of naturals), so that no
induction principle has to be instantiated. The two first theorems assume
`LengthsFit`: every length needs at most `SliceLimit` slices, the last of which is
refused. That is exactly the range in which the cast to `uint16_t` in
`protocol.cpp:141` is right or its 0 is noticed; beyond it the encoder cuts the
message short. The hazard at that line says so, and the lengths of the run `protocol`
reach the refused one.

`FoundationProofs` proves, for any number of threads, cells, tasks, timers, events,
keys and entries:

* `QueuesKeepOrder` (`OrderAndOnce`). `MPMCRingQueue`: the sequence number of a cell
  says whose turn it is (free for position p, written for p, released for p plus
  the capacity); a thread that has claimed a position and not yet published it is
  the only one to hold it (`InvApart`), and two positions of one cell lie at least
  the capacity apart. `SPSCRingQueue`: what is between `head_` and `tail_` is what was
  pushed and not popped; each side's stale copy of the other's index errs on the
  safe side. `AsyncQueue`: a task is queued, taken or done, once. `Timer`: a timer that
  is queued or in its callback stands at -1, so that the next tick does not hand it
  over again; one that a task touches after its erasure was removed in between. `Throttle`: no event is called before its time, although submit and
  the loop read the clock outside the mutex. `AsyncLogger`: an entry accepted is in
  the queue, in a batch in somebody's hands, or written, once; places in the queue
  are numbered, each thread writes ascending ones, and what is written is before
  what waits.
* `LocksExclude` (`LocksAndMaps`): the counts of `ReadWriteLock` are the numbers of
  the threads that hold it or wait for it, and a wake-up is pending for whoever may
  enter; a shard of `ConcurrentMap` changes only under its lock.
* `ContainersHold` (`ContainersMatch`). `CircularBuffer`: cell (head + k) mod capacity
  holds the k-th value kept, also after an overwriting push. `LRUCache`: the list is
  in the order of last use, and no key was used after now; so the keys of the list
  are distinct, which makes the size of the map the length of the list, and what an
  eviction cuts off is what was used longest ago. `BitSet`: a bit is one exactly if
  the position it stands for is a member, the unused bits of the last word
  included; the positions and the pairs of word and bit are one to one, which gives
  the count, and the first word that is not empty has the least member.
  `BloomFilter`: every bit of every element added is set. `ObjectPool`: an object
  is idle, in one handle, or has left by release(), one of these, and `createdCount`
  counts all three. `MemoryPool`: a block that was made is in the free list of its
  class or in use, once, and the size it is given back with finds that list.
  `StringPool`: a string keeps its address until clear, and no other has it.
* `IdsAreInverted`: for any widths of the fields, `Parse` gives back the parts that
  `Generate` packed, each cut to its field.

Each inductive invariant is the `Inv` of the part's own module. The proof of a part
is about its instance; `FoundationParts` takes a step of one part at a time, so
the invariants stand side by side. Two hypotheses of `ThreadsAssumption` came out
of the proofs and are limits of the code: a ring of one cell does not work (section
6), and a task queue without a worker runs nothing (`AsyncQueue` takes
`hardware_concurrency()`, which may be 0).

The assumptions are those of the modules, which TLC evaluates on every run:
`ThreadsAssumption`, `ContainersAssumption` (capacities and sizes that the constructors
accept; the largest block is a multiple of the alignment), `SizeAssumption`, `CapacityAssumption`, `SizesAssumption` (a frame
has room for both headers, a CRC and a byte; messages and streams have identifiers
of their own), `FieldAssumption`, `PoolAssumption` (at
least one worker), `ServerAssumption` (at least one reactor, as the code makes
sure; descriptor numbers are positive), `ClientAssumption`,
`ReactorAssumption` (low water mark at most high water mark at most the buffer's
maximum; a finite set of descriptors, as there is in a process).

Only model-checked:

* liveness (`StopReleasesEveryone`, `StopReturns`, `QueryReturnsEventually`,
  `SendSyncReturns`, `CallsReturn`, `TasksEnd` and the others under fairness), which
  is out of the prover's reach;
* `Algorithms`, `Encoding`, `Paths`, `Strings`, `Calendar` (`ConversionsAgree`, but for
  the part of it that is `ConnectionId`): RECURSIVE operators;
* `FilesKept`: it compares the files with a history or a tree that is built by
  folding over it (the chain of files of `LogRotate`, the tree of `FileManager`),
  which needs an induction over data; so does the tree of `ProcessTree`, a part of
  `ConversionsAgree`.

## 6. What is not modelled

* `Reactor`: Start and a restart, a change of an existing registration that
  fails (the code ignores the result), a `DispatchEvent` that blocks because a
  worker's queue is full, statistics. Reactor and worker pool in one state space
  are beyond an exhaustive run; each is checked with the other always answering.
* `Server`: what a caller does with an exception of Start; accept() errors one by
  one.
* `WorkerPool`: a Stop called from a callback (the thread would join itself).
* `Server`, `Client`: getters, setters, statistics other than the count of active
  connections.
* The codec: the arithmetic of the CRC, which is a check that finds damage to what
  it covers; an identifier used for two messages at once; a damaged length too small
  for the payload's own header, which the decoder reads from beyond the payload; an
  index beyond an assembly, which only damage gives, is taken for an occupied slot.
* `MPMCRingQueue` of one cell: the sequence number of a full cell is the one the
  next producer expects, so the constructor's capacity 1 does not work; the model
  takes a power of two above it. Weak memory orders are not modelled.
* `ThreadSafeObjectPool`, whose operations are those of `ObjectPool` under a mutex,
  except that a handle gives its object back without it (`ObjectPool.h:331`).
* Text: `LogFormatter`, `Format`, `Regex`, the console and system log sinks,
  network `logger.h`, `event.h` and `configuration.h` (data and constants).
* `Hash`: 64-bit arithmetic with no property but its test vectors; `BloomFilter`
  takes the values of fnv1a64 and murmur3_32 as arbitrary numbers.
* Wrappers that only pass on: `Dispatch`, `RunLoop`, `Singleton`, `ProcessUtil`,
  `ShellExecutor`, `PathUtils`, `FileWatcher` (FSEvents), the
  queries of `SQLite3DB`.
* `SharedMemory`: its Semaphore initialises `_path` with itself and two of its
  functions that return bool return nothing, so that nearly every call is undefined
  behaviour.
* `sqlite3.h` is a vendored third-party header; its 13 374 lines are two fifths of
  the lines of the repository's headers and sources. Of the rest about half is
  mapped; what is left is mostly declarations and comments of the public headers
  and the parts named above.

## 7. Plan

1. `Reactor` and `WorkerPool` in one module, with a `DispatchEvent` that blocks.
2. Start and a restart of `Reactor`; a failing change of a registration.
