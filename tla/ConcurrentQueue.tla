-------------------------- MODULE ConcurrentQueue --------------------------
(***************************************************************************)
(* darwincore::network::ConcurrentQueue<T>: the mutex-protected queue that *)
(* carries operations into a reactor and events into a worker.             *)
(*                                                                         *)
(* Everything the code does between taking mutex_ and releasing it (or     *)
(* going to sleep on a condition variable) is one step.  What happens      *)
(* outside the mutex is a step of its own: Enqueue notifies not_empty_     *)
(* after it has unlocked, and NotifyStop sets the flag, then notifies      *)
(* not_empty_, then not_full_.  A condition variable is the set of the     *)
(* threads asleep on it; a notified thread leaves that set at once and     *)
(* evaluates its predicate later, when it has the mutex again.             *)
(***************************************************************************)
EXTENDS Naturals, Sequences, FiniteSets

CONSTANTS Producers,   \* threads that call Enqueue and TryEnqueue
          Consumers,   \* threads that call WaitDequeue and TryDequeue
          Values,      \* the elements
          MaxSize      \* max_size_, 0 for an unlimited queue

ASSUME ThreadsAssumption == /\ IsFiniteSet(Producers)
                            /\ IsFiniteSet(Consumers)
                            /\ Producers \cap Consumers = {}
ASSUME SizeAssumption == MaxSize \in Nat

VARIABLES queue,       \* queue_
          is_stopped,  \* is_stopped_
          not_full,    \* producers asleep in not_full_.wait
          not_empty,   \* consumers asleep in not_empty_.wait_for
          pc,          \* where each thread is
          owner        \* progress of the thread that calls NotifyStop, Reset

vars == <<queue, is_stopped, not_full, not_empty, pc, owner>>

Threads == Producers \cup Consumers

\* A producer is in "enqueue" from the moment it first waits until its
\* predicate lets it go on, and in "notify" between the unlock and
\* not_empty_.notify_one().  A consumer is in "dequeue" while it waits or has
\* been notified, in "expired" when its wait_for has reached the deadline.
PCs == {"idle", "enqueue", "notify", "dequeue", "expired"}

TypeOK == /\ queue \in Seq(Values)
          /\ is_stopped \in BOOLEAN
          /\ not_full \in SUBSET Producers
          /\ not_empty \in SUBSET Consumers
          /\ pc \in [Threads -> PCs]
          /\ owner \in {"running", "flagged", "notified", "stopped"}

Init == /\ queue = <<>>
        /\ is_stopped = FALSE
        /\ not_full = {}
        /\ not_empty = {}
        /\ pc = [t \in Threads |-> "idle"]
        /\ owner = "running"

-----------------------------------------------------------------------------
HasSpace == MaxSize = 0 \/ Len(queue) < MaxSize

Goto(t, l) == pc' = [pc EXCEPT ![t] = l]

\* notify_one: some sleeper is woken, if there is one.
NotifyOne(sleepers, rest) == IF sleepers = {} THEN rest = {}
                             ELSE \E t \in sleepers : rest = sleepers \ {t}

\* Mutant: is_stopped_ is tested before the wait and not after it.
EnqueueIgnoresStop(p) ==
  \/ /\ ~HasSpace /\ ~is_stopped
     /\ not_full' = not_full \cup {p}
     /\ Goto(p, "enqueue")
     /\ UNCHANGED queue
  \/ /\ is_stopped /\ pc[p] = "idle"
     /\ Goto(p, "idle")
     /\ UNCHANGED <<queue, not_full>>
  \/ /\ HasSpace
     /\ is_stopped => pc[p] = "enqueue"
     /\ \E v \in Values : queue' = Append(queue, v)
     /\ Goto(p, "notify")
     /\ UNCHANGED not_full

\* The body of Enqueue once the mutex is held: on entry and after each wake-up.
EnqueueLocked(p) ==
  \/ /\ ~HasSpace /\ ~is_stopped             \* not_full_.wait
     /\ not_full' = not_full \cup {p}
     /\ Goto(p, "enqueue")
     /\ UNCHANGED queue
  \/ /\ is_stopped                           \* return false
     /\ Goto(p, "idle")
     /\ UNCHANGED <<queue, not_full>>
  \/ /\ HasSpace /\ ~is_stopped
     /\ \E v \in Values : queue' = Append(queue, v)
     /\ Goto(p, "notify")
     /\ UNCHANGED not_full

Enqueue(p) == /\ pc[p] = "idle"
              /\ EnqueueLocked(p)
              /\ UNCHANGED <<is_stopped, not_empty, owner>>

\* Mutant: wait() without a predicate, the woken producer pushes at once.
EnqueueWithoutRetest(p) ==
  /\ pc[p] = "enqueue" /\ p \notin not_full
  /\ \E v \in Values : queue' = Append(queue, v)
  /\ Goto(p, "notify")
  /\ UNCHANGED <<is_stopped, not_full, not_empty, owner>>

\* A producer that left not_full_ has the mutex again and re-tests.
EnqueueResume(p) == /\ pc[p] = "enqueue" /\ p \notin not_full
                    /\ EnqueueLocked(p)
                    /\ UNCHANGED <<is_stopped, not_empty, owner>>

\* TryEnqueue gives up (return false) instead of waiting.
TryEnqueue(p) ==
  /\ pc[p] = "idle"
  /\ HasSpace /\ ~is_stopped
  /\ \E v \in Values : queue' = Append(queue, v)
  /\ Goto(p, "notify")
  /\ UNCHANGED <<is_stopped, not_full, not_empty, owner>>

\* Mutant: notify only when the queue has just stopped being empty.
NotifyOnFirstOnly(p) ==
  /\ pc[p] = "notify"
  /\ IF Len(queue) = 1 THEN NotifyOne(not_empty, not_empty') ELSE UNCHANGED not_empty
  /\ Goto(p, "idle")
  /\ UNCHANGED <<queue, is_stopped, not_full, owner>>

\* not_empty_.notify_one(), after the unlock; the call then returns true.
NotifyNotEmpty(p) ==
  /\ pc[p] = "notify"
  /\ NotifyOne(not_empty, not_empty')
  /\ Goto(p, "idle")
  /\ UNCHANGED <<queue, is_stopped, not_full, owner>>

-----------------------------------------------------------------------------
\* Mutant: notify only when the queue has just stopped being full.
PopNotifiesIfFull ==
  /\ queue # <<>>
  /\ queue' = Tail(queue)
  /\ IF Len(queue) = MaxSize THEN NotifyOne(not_full, not_full') ELSE UNCHANGED not_full

\* front + pop, and not_full_.notify_one() while the mutex is still held.
PopFront ==
  /\ queue # <<>>
  /\ queue' = Tail(queue)
  /\ IF MaxSize > 0 THEN NotifyOne(not_full, not_full')
                    ELSE UNCHANGED not_full

\* TryDequeue takes no notice of is_stopped_.
TryDequeue(c) == /\ pc[c] = "idle"
                 /\ PopFront
                 /\ UNCHANGED <<is_stopped, not_empty, pc, owner>>

\* Mutant: the consumer goes to sleep on the wrong condition variable.
WaitsOnNotFull(c, expired) ==
  \/ /\ queue = <<>> /\ ~is_stopped /\ ~expired
     /\ not_full' = not_full \cup {c}
     /\ Goto(c, "dequeue")
     /\ UNCHANGED <<queue, not_empty>>
  \/ /\ is_stopped \/ (queue = <<>> /\ expired)
     /\ Goto(c, "idle")
     /\ UNCHANGED <<queue, not_full, not_empty>>

\* The body of WaitDequeue with the mutex held.  expired: wait_for is past its
\* deadline and returns what the predicate says.
WaitDequeueLocked(c, expired) ==
  \/ /\ queue = <<>> /\ ~is_stopped /\ ~expired     \* not_empty_.wait_for
     /\ not_empty' = not_empty \cup {c}
     /\ Goto(c, "dequeue")
     /\ UNCHANGED <<queue, not_full>>
  \/ /\ is_stopped \/ (queue = <<>> /\ expired)     \* return false
     /\ Goto(c, "idle")
     /\ UNCHANGED <<queue, not_full, not_empty>>
  \/ /\ ~is_stopped
     /\ PopFront
     /\ Goto(c, "idle")
     /\ UNCHANGED not_empty

WaitDequeue(c) == /\ pc[c] = "idle"
                  /\ WaitDequeueLocked(c, FALSE)
                  /\ UNCHANGED <<is_stopped, owner>>

WaitDequeueResume(c) == /\ pc[c] \in {"dequeue", "expired"} /\ c \notin not_empty
                        /\ WaitDequeueLocked(c, pc[c] = "expired")
                        /\ UNCHANGED <<is_stopped, owner>>

\* The deadline of wait_for passes.
Expire(c) == /\ pc[c] = "dequeue" /\ c \in not_empty
             /\ not_empty' = not_empty \ {c}
             /\ Goto(c, "expired")
             /\ UNCHANGED <<queue, is_stopped, not_full, owner>>

\* Condition variables may wake a sleeper for no reason.
SpuriousWakeup(t) ==
  /\ t \in not_full \cup not_empty
  /\ not_full' = not_full \ {t}
  /\ not_empty' = not_empty \ {t}
  /\ UNCHANGED <<queue, is_stopped, pc, owner>>

-----------------------------------------------------------------------------
\* NotifyStop: the flag under the mutex, then the two notify_all without it.
NotifyStop == /\ owner = "running"
              /\ is_stopped' = TRUE
              /\ owner' = "flagged"
              /\ UNCHANGED <<queue, not_full, not_empty, pc>>

NotifyStopNotEmpty == /\ owner = "flagged"
                      /\ not_empty' = {}
                      /\ owner' = "notified"
                      /\ UNCHANGED <<queue, is_stopped, not_full, pc>>

\* Mutant: notify_one where all have to be woken.
StopWakesOneProducer == /\ owner = "notified"
                        /\ NotifyOne(not_full, not_full')
                        /\ owner' = "stopped"
                        /\ UNCHANGED <<queue, is_stopped, not_empty, pc>>

NotifyStopNotFull == /\ owner = "notified"
                     /\ not_full' = {}
                     /\ owner' = "stopped"
                     /\ UNCHANGED <<queue, is_stopped, not_empty, pc>>

\* Reset, by the thread that stopped the queue.
Reset == /\ owner = "stopped"
         /\ is_stopped' = FALSE
         /\ owner' = "running"
         /\ UNCHANGED <<queue, not_full, not_empty, pc>>

ProducerStep(p) == \/ Enqueue(p) \/ EnqueueResume(p) \/ TryEnqueue(p)
                   \/ NotifyNotEmpty(p)
ConsumerStep(c) == \/ TryDequeue(c) \/ WaitDequeue(c) \/ WaitDequeueResume(c)
                   \/ Expire(c)
OwnerStep == NotifyStop \/ NotifyStopNotEmpty \/ NotifyStopNotFull \/ Reset

Next == \/ \E p \in Producers : ProducerStep(p)
        \/ \E c \in Consumers : ConsumerStep(c)
        \/ \E t \in Threads : SpuriousWakeup(t)
        \/ OwnerStep

Spec == Init /\ [][Next]_vars

\* A thread that is inside a call and not asleep keeps running; a deadline
\* passes; the calls themselves are up to the callers and are not fair.
Fairness ==
  /\ \A p \in Producers : WF_vars(EnqueueResume(p)) /\ WF_vars(NotifyNotEmpty(p))
  /\ \A c \in Consumers : WF_vars(WaitDequeueResume(c)) /\ WF_vars(Expire(c))
  /\ WF_vars(NotifyStopNotEmpty) /\ WF_vars(NotifyStopNotFull)

FairSpec == Spec /\ Fairness

-----------------------------------------------------------------------------
Notifying == {p \in Producers : pc[p] = "notify"}
WokenConsumers == {c \in Consumers : pc[c] \in {"dequeue", "expired"} /\ c \notin not_empty}
WokenProducers == {p \in Producers : pc[p] = "enqueue" /\ p \notin not_full}

\* Backpressure: a limited queue never holds more than max_size_ elements,
\* whatever the order in which blocked producers are woken and overtaken.
CapacityRespected == MaxSize > 0 => Len(queue) <= MaxSize

\* No lost wake-up on not_empty_: while a consumer sleeps, every element is
\* matched by a notification that is still due or by a consumer that has been
\* woken and will look again.  A pending notify_all of NotifyStop counts too.
NoLostConsumerWakeup ==
  (not_empty # {} /\ owner # "flagged") =>
     Len(queue) <= Cardinality(Notifying) + Cardinality(WokenConsumers)

\* No lost wake-up on not_full_: while a producer sleeps, every free slot is
\* matched by a producer that has been woken, unless NotifyStop is about to
\* wake them all.
NoLostProducerWakeup ==
  (not_full # {} /\ owner \notin {"flagged", "notified"}) =>
     MaxSize - Len(queue) <= Cardinality(WokenProducers)

\* Once stopped, a queue takes in nothing more, even from a producer that was
\* already waiting for space; it may still be drained.
StoppedTakesNothing ==
  [][is_stopped => (queue' = queue \/ queue' = Tail(queue))]_vars

\* NotifyStop releases every thread blocked in the queue: after it no call is
\* left waiting for ever.
StopReleasesEveryone ==
  \A t \in Threads :
    (is_stopped /\ pc[t] \in {"enqueue", "dequeue", "expired"})
      ~> (pc[t] = "idle" \/ ~is_stopped)

=============================================================================
