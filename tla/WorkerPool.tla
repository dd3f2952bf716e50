------------------------------ MODULE WorkerPool ------------------------------
(***************************************************************************)
(* darwincore::network::WorkerPool: one thread and one bounded queue per   *)
(* worker.  Reactors submit the events of their connections, a worker runs *)
(* the user's callback on each.  A call on a queue is one step here: that  *)
(* a ConcurrentQueue neither loses a wake-up nor keeps a stopped caller is *)
(* what the module ConcurrentQueue shows.                                  *)
(*                                                                         *)
(* An event is <<c, n>>: the n-th accepted event of connection c.          *)
(***************************************************************************)
EXTENDS Naturals, Sequences, FiniteSets, FiniteSetsExt

CONSTANTS
  WorkerCount,   \* worker_count_
  MaxQueueSize,  \* max_queue_size_, 0 for unlimited
  Reactors,      \* the threads that submit
  Connections,   \* connection ids, numbers
  HomeOf,        \* the reactor each connection belongs to
  Submissions,   \* bound of the model: events per connection
  MaxStarts      \* bound of the model: calls of Start

ASSUME PoolAssumption ==
  /\ WorkerCount \in Nat \ {0}
  /\ MaxQueueSize \in Nat
  /\ Connections \subseteq Nat
  /\ HomeOf \in [Connections -> Reactors]
  /\ Submissions \in Nat /\ MaxStarts \in Nat

Workers == 0..(WorkerCount - 1)

VARIABLES
  is_running,  \* is_running_
  queues,      \* event_queues_
  stopped,     \* is_stopped_ of each queue
  worker,      \* where each worker thread is, and the event in its callback
  submit,      \* the SubmitEvent each reactor is in, and its connection
  owner,       \* progress of the thread that calls Start and Stop
  accepted,    \* per connection: events a queue has taken
  done,        \* per connection: callbacks that have returned
  tried,       \* per connection: submissions begun
  starts,      \* calls of Start so far
  server_order \* whether this owner starts the pool before its submitters and
               \* stops it after them, as Server and Client do; never changes

vars == <<is_running, queues, stopped, worker, submit, owner, accepted, done, tried, starts,
          server_order>>
counters == <<accepted, done, tried, starts>>

NoEvent == <<>>
At(pc) == [pc |-> pc, event |-> NoEvent]

\* As the constructor leaves it; "none": there is no thread.
Init ==
  /\ is_running = FALSE
  /\ queues = [w \in Workers |-> <<>>]
  /\ stopped = [w \in Workers |-> FALSE]
  /\ worker = [w \in Workers |-> At("none")]
  /\ submit = [r \in Reactors |-> [pc |-> "idle", conn |-> 0]]
  /\ owner = [pc |-> "idle", next |-> 0]
  /\ accepted = [c \in Connections |-> 0]
  /\ done = [c \in Connections |-> 0]
  /\ tried = [c \in Connections |-> 0]
  /\ starts = 0
  /\ server_order \in BOOLEAN

-----------------------------------------------------------------------------
(* Submitting.                                                             *)

\* Mutant: round robin over the workers.
WorkerInTurn(c) == accepted[c] % WorkerCount

WorkerOf(c) == c % WorkerCount

\* Mutant: off by one at the limit.
HasSpaceForOneMore(w) == MaxQueueSize = 0 \/ Len(queues[w]) <= MaxQueueSize

HasSpace(w) == MaxQueueSize = 0 \/ Len(queues[w]) < MaxQueueSize

Accept(c) == LET w == WorkerOf(c)
             IN /\ queues' = [queues EXCEPT ![w] = Append(@, <<c, accepted[c] + 1>>)]
                /\ accepted' = [accepted EXCEPT ![c] = @ + 1]

\* In the order of Server and Client nobody submits before Start has returned.
MaySubmit(c) == /\ submit[HomeOf[c]].pc = "idle"
                /\ tried[c] < Submissions
                /\ server_order => owner.pc = "started"

\* SubmitEvent, the test of is_running_: return false, or go on.
SubmitEvent(c) ==
  /\ MaySubmit(c)
  /\ tried' = [tried EXCEPT ![c] = @ + 1]
  /\ submit' = [submit EXCEPT ![HomeOf[c]] =
                  IF is_running THEN [pc |-> "enqueue", conn |-> c] ELSE @]
  /\ UNCHANGED <<is_running, queues, stopped, worker, owner, accepted, done, starts>>

\* SubmitEvent, the blocking Enqueue: a full queue makes the reactor wait.
SubmitEnqueue(r) ==
  LET c == submit[r].conn
      w == WorkerOf(c)
  IN /\ submit[r].pc = "enqueue"
     /\ \/ stopped[w] /\ UNCHANGED <<queues, accepted>>
        \/ ~stopped[w] /\ HasSpace(w) /\ Accept(c)
     /\ submit' = [submit EXCEPT ![r] = [pc |-> "idle", conn |-> 0]]
     /\ UNCHANGED <<is_running, stopped, worker, owner, done, tried, starts>>

\* TrySubmitEvent has no test of is_running_ and does not wait.
TrySubmitEvent(c) ==
  LET w == WorkerOf(c)
  IN /\ MaySubmit(c)
     /\ tried' = [tried EXCEPT ![c] = @ + 1]
     /\ \/ ~stopped[w] /\ HasSpace(w) /\ Accept(c)
        \/ (stopped[w] \/ ~HasSpace(w)) /\ UNCHANGED <<queues, accepted>>
     /\ UNCHANGED <<is_running, stopped, worker, submit, owner, done, starts>>

-----------------------------------------------------------------------------
(* WorkerLoop.                                                             *)

Move(w, to) == worker' = [worker EXCEPT ![w] = to]

\* Mutant: the loop does not look at is_running_ again.
TestNothing(w) ==
  /\ worker[w].pc = "test"
  /\ Move(w, At("wait"))
  /\ UNCHANGED <<is_running, queues, stopped, submit, owner, counters>>

\* while (is_running_)
WorkerTest(w) ==
  /\ worker[w].pc = "test"
  /\ Move(w, At(IF is_running THEN "wait" ELSE "drain"))
  /\ UNCHANGED <<is_running, queues, stopped, submit, owner, counters>>

\* An event leaves the queue and its callback begins: WaitDequeue refuses once
\* the queue is stopped, the TryDequeue of the final loop does not.
Take(w, from, to) ==
  /\ worker[w].pc = from
  /\ queues[w] # <<>>
  /\ queues' = [queues EXCEPT ![w] = Tail(@)]
  /\ Move(w, [pc |-> to, event |-> Head(queues[w])])
  /\ UNCHANGED <<is_running, stopped, submit, owner, counters>>

WorkerTakes(w) == ~stopped[w] /\ Take(w, "wait", "callback")

\* WaitDequeue returns false: stopped, or empty for 100 ms.
WorkerGetsNothing(w) ==
  /\ worker[w].pc = "wait"
  /\ stopped[w] \/ queues[w] = <<>>
  /\ Move(w, At("test"))
  /\ UNCHANGED <<is_running, queues, stopped, submit, owner, counters>>

DrainTakes(w) == Take(w, "drain", "last_callback")

\* Mutant: the worker leaves without handling the remaining events.
LeaveAtOnce(w) ==
  /\ worker[w].pc = "drain"
  /\ Move(w, At("exited"))
  /\ UNCHANGED <<is_running, queues, stopped, submit, owner, counters>>

DrainEnds(w) ==
  /\ worker[w].pc = "drain" /\ queues[w] = <<>>
  /\ Move(w, At("exited"))
  /\ UNCHANGED <<is_running, queues, stopped, submit, owner, counters>>

CallbackReturns(w) ==
  /\ worker[w].pc \in {"callback", "last_callback"}
  /\ done' = [done EXCEPT ![worker[w].event[1]] = @ + 1]
  /\ Move(w, At(IF worker[w].pc = "callback" THEN "test" ELSE "drain"))
  /\ UNCHANGED <<is_running, queues, stopped, submit, owner, accepted, tried, starts>>

WorkerStep(w) == \/ WorkerTest(w) \/ WorkerTakes(w) \/ WorkerGetsNothing(w)
                 \/ DrainTakes(w) \/ DrainEnds(w) \/ CallbackReturns(w)

-----------------------------------------------------------------------------
(* Start and Stop, called by the owner.                                    *)

Owner(pc, next) == owner' = [pc |-> pc, next |-> next]

\* Start: the CAS succeeds, the threads are created one after the other.
Start ==
  /\ owner.pc = "idle" /\ starts < MaxStarts
  /\ is_running' = TRUE
  /\ starts' = starts + 1
  /\ Owner("starting", 0)
  /\ UNCHANGED <<queues, stopped, worker, submit, accepted, done, tried>>

SpawnWorker ==
  /\ owner.pc = "starting" /\ owner.next < WorkerCount
  /\ Move(owner.next, At("test"))
  /\ Owner("starting", owner.next + 1)
  /\ UNCHANGED <<is_running, queues, stopped, submit, counters>>

\* std::thread throws: the threads created so far are joined, no queue is stopped.
SpawnFails ==
  /\ owner.pc = "starting" /\ owner.next < WorkerCount
  /\ is_running' = FALSE
  /\ Owner("joining", 0)
  /\ UNCHANGED <<queues, stopped, worker, submit, counters>>

StartReturns ==
  /\ owner.pc = "starting" /\ owner.next = WorkerCount
  /\ Owner("started", 0)
  /\ UNCHANGED <<is_running, queues, stopped, worker, submit, counters>>

\* Stop: the CAS; in the order of Server and Client the reactors are gone.
Stop ==
  /\ owner.pc = "started"
  /\ server_order => \A r \in Reactors : submit[r].pc = "idle"
  /\ is_running' = FALSE
  /\ Owner("notifying", 0)
  /\ UNCHANGED <<queues, stopped, worker, submit, counters>>

\* Mutant: the last queue is not told.
NotifyAllButLast ==
  /\ owner.pc = "notifying"
  /\ stopped' = IF owner.next + 1 < WorkerCount THEN [stopped EXCEPT ![owner.next] = TRUE] ELSE stopped
  /\ IF owner.next + 1 < WorkerCount THEN Owner("notifying", owner.next + 1) ELSE Owner("joining", 0)
  /\ UNCHANGED <<is_running, queues, worker, submit, counters>>

NotifyQueue ==
  /\ owner.pc = "notifying"
  /\ stopped' = [stopped EXCEPT ![owner.next] = TRUE]
  /\ IF owner.next + 1 < WorkerCount THEN Owner("notifying", owner.next + 1) ELSE Owner("joining", 0)
  /\ UNCHANGED <<is_running, queues, worker, submit, counters>>

\* join() of every thread there is, then worker_threads_.clear().
JoinAll ==
  /\ owner.pc = "joining"
  /\ \A w \in Workers : worker[w].pc \in {"none", "exited"}
  /\ worker' = [w \in Workers |-> At("none")]
  /\ Owner("idle", 0)
  /\ UNCHANGED <<is_running, queues, stopped, submit, counters>>

OwnerStep == SpawnWorker \/ SpawnFails \/ StartReturns \/ NotifyQueue \/ JoinAll

Next ==
  /\ \/ \E c \in Connections : SubmitEvent(c) \/ TrySubmitEvent(c)
     \/ \E r \in Reactors : SubmitEnqueue(r)
     \/ \E w \in Workers : WorkerStep(w)
     \/ Start \/ Stop \/ OwnerStep
  /\ UNCHANGED server_order

Spec == Init /\ [][Next]_vars

\* Worker threads run and user callbacks return; the owner finishes the Start
\* or Stop it is in; a submitter that can go on does.
Fairness ==
  /\ \A w \in Workers : WF_vars(WorkerStep(w) /\ UNCHANGED server_order)
  /\ WF_vars(OwnerStep /\ UNCHANGED server_order)
  /\ \A r \in Reactors : WF_vars(SubmitEnqueue(r) /\ UNCHANGED server_order)

FairSpec == Spec /\ Fairness

-----------------------------------------------------------------------------
(* Properties.                                                             *)

Busy(w) == worker[w].pc \in {"callback", "last_callback"}

TypeOK ==
  /\ is_running \in BOOLEAN /\ server_order \in BOOLEAN
  /\ queues \in [Workers -> Seq(Connections \X (1..Submissions))]
  /\ \A w \in Workers : MaxQueueSize > 0 => Len(queues[w]) <= MaxQueueSize
  /\ stopped \in [Workers -> BOOLEAN]
  /\ \A w \in Workers :
       /\ worker[w].pc \in {"none", "test", "wait", "callback", "drain", "last_callback", "exited"}
       /\ Busy(w) <=> worker[w].event # NoEvent
  /\ \A r \in Reactors : submit[r].pc \in {"idle", "enqueue"}
  /\ owner.pc \in {"idle", "starting", "started", "notifying", "joining"}
  /\ owner.next \in 0..WorkerCount

\* The events of one connection reach the user in the order they were accepted,
\* none skipped or repeated, and never two callbacks at a time: when the callback
\* for event n runs, those for 1..n-1 have returned.  That holds while the pool
\* drains and across a restart.
CallbacksInOrder ==
  \A w \in Workers : Busy(w) => done[worker[w].event[1]] = worker[w].event[2] - 1

\* Stop waits for all work: when it has returned, every event a queue accepted
\* has been through its callback.  (Of an owner that keeps to the order of Server.)
StopLosesNothing ==
  (server_order /\ owner.pc = "idle") => \A c \in Connections : done[c] = accepted[c]

\* Stop returns, whatever the workers and the submitters are doing.
StopReturns == (owner.pc \in {"notifying", "joining"}) ~> (owner.pc = "idle")

\* No submitter stays blocked on a full queue of a pool that is being stopped.
StopReleasesSubmitters ==
  \A r \in Reactors :
    (owner.pc = "notifying" /\ submit[r].pc = "enqueue") ~> (submit[r].pc = "idle")

-----------------------------------------------------------------------------
(* A value of HomeOf for TLC, which a .cfg cannot write.                   *)

\* Connections 1 and 3 share a worker and have reactors of their own.
OwnHomes == [c \in Connections |-> IF c < 2 THEN "r0" ELSE "r1"]
=============================================================================
