--------------------------- MODULE ReadWriteLock ---------------------------
(***************************************************************************)
(* ReadWriteLock and Semaphore (foundation/thread/Lock.h and Lock.cpp).    *)
(* The body of a call runs under its mutex and is one step up to the wait; *)
(* a waiting thread sleeps until it is notified (or wakes by itself), then *)
(* tests its condition again.                                              *)
(***************************************************************************)
EXTENDS Integers, FiniteSets

CONSTANTS Threads,
          MaxCalls,       \* bound: locks taken by each thread
          InitialCount    \* the semaphore's count at the start

VARIABLES readers, writers, waitWriters,    \* the fields of the lock
          count,                            \* _count of the semaphore
          state,                            \* what each thread does
          calls

vars == <<readers, writers, waitWriters, count, state, calls>>

\* A thread that waits is in the set of its condition variable until it is
\* notified; then it waits for the mutex to test again.
States == {"idle", "reading", "writing",
           "asleep_reader", "asleep_writer", "asleep_semaphore",
           "woken_reader", "woken_writer", "woken_semaphore"}

Init ==
    /\ readers = 0 /\ writers = 0 /\ waitWriters = 0
    /\ count = InitialCount
    /\ state = [t \in Threads |-> "idle"]
    /\ calls = [t \in Threads |-> 0]

In(s) == {t \in Threads : state[t] = s}

Becomes(t, s) == [state EXCEPT ![t] = s]

\* notify_one wakes any one sleeper of the condition variable.
NotifyOne(st, from, to) ==
    LET sleepers == {t \in Threads : st[t] = from}
    IN  IF sleepers = {} THEN {st} ELSE {[st EXCEPT ![s] = to] : s \in sleepers}

NotifyAll(st, from, to) ==
    [t \in Threads |-> IF st[t] = from THEN to ELSE st[t]]

Called(t) == calls' = [calls EXCEPT ![t] = @ + 1]
MayCall(t) == state[t] = "idle" /\ calls[t] < MaxCalls

WriteBlocked == readers > 0 \/ writers > 0
ReadBlocked == waitWriters > 0 \/ writers > 0

\* lockWrite: counted as waiting from the start, and until it has the lock.
LockWrite(t) ==
    /\ MayCall(t) /\ Called(t)
    /\ IF WriteBlocked
       THEN /\ waitWriters' = waitWriters + 1
            /\ state' = Becomes(t, "asleep_writer")
            /\ UNCHANGED writers
       ELSE /\ writers' = writers + 1
            /\ state' = Becomes(t, "writing")
            /\ UNCHANGED waitWriters
    /\ UNCHANGED <<readers, count>>

LockWriteWakes(t) ==
    /\ state[t] = "woken_writer"
    /\ IF WriteBlocked
       THEN state' = Becomes(t, "asleep_writer") /\ UNCHANGED <<writers, waitWriters>>
       ELSE /\ writers' = writers + 1
            /\ waitWriters' = waitWriters - 1
            /\ state' = Becomes(t, "writing")
    /\ UNCHANGED <<readers, count, calls>>

\* Mutant: an unlock that always prefers the readers wakes nobody when only writers wait.
WakesReadersOnly(st) == {NotifyAll(st, "asleep_reader", "woken_reader")}

\* Whom unlockWrite wakes: all readers, or one writer if one waits.
WakesNext(st) ==
    IF waitWriters = 0
    THEN {NotifyAll(st, "asleep_reader", "woken_reader")}
    ELSE NotifyOne(st, "asleep_writer", "woken_writer")

UnlockWrite(t) ==
    /\ state[t] = "writing"
    /\ writers' = writers - 1
    /\ state' \in WakesNext(Becomes(t, "idle"))
    /\ UNCHANGED <<readers, waitWriters, count, calls>>

LockRead(t) ==
    /\ \/ MayCall(t) /\ Called(t)
       \/ state[t] = "woken_reader" /\ UNCHANGED calls
    /\ IF ReadBlocked
       THEN state' = Becomes(t, "asleep_reader") /\ UNCHANGED readers
       ELSE state' = Becomes(t, "reading") /\ readers' = readers + 1
    /\ UNCHANGED <<writers, waitWriters, count>>

UnlockRead(t) ==
    /\ state[t] = "reading"
    /\ readers' = readers - 1
    /\ state' \in IF readers = 1
                  THEN NotifyOne(Becomes(t, "idle"), "asleep_writer", "woken_writer")
                  ELSE {Becomes(t, "idle")}
    /\ UNCHANGED <<writers, waitWriters, count, calls>>

Post(t) ==
    /\ MayCall(t) /\ Called(t)
    /\ count' = count + 1
    /\ state' \in NotifyOne(state, "asleep_semaphore", "woken_semaphore")
    /\ UNCHANGED <<readers, writers, waitWriters>>

\* wait: without a time-out, or the first test of one with a time-out.
Wait(t) ==
    /\ \/ MayCall(t) /\ Called(t)
       \/ state[t] = "woken_semaphore" /\ UNCHANGED calls
    /\ IF count > 0
       THEN count' = count - 1 /\ state' = Becomes(t, "idle")
       ELSE state' = Becomes(t, "asleep_semaphore") /\ UNCHANGED count
    /\ UNCHANGED <<readers, writers, waitWriters>>

\* wait_for returns at its deadline with the value of the condition.
WaitTimesOut(t) ==
    /\ state[t] \in {"asleep_semaphore", "woken_semaphore"}
    /\ count' = IF count > 0 THEN count - 1 ELSE count
    /\ state' = Becomes(t, "idle")
    /\ UNCHANGED <<readers, writers, waitWriters, calls>>

SpuriousWakeup(t) ==
    /\ \/ state[t] = "asleep_reader" /\ state' = Becomes(t, "woken_reader")
       \/ state[t] = "asleep_writer" /\ state' = Becomes(t, "woken_writer")
    /\ UNCHANGED <<readers, writers, waitWriters, count, calls>>

Next == \E t \in Threads :
    \/ LockWrite(t) \/ LockWriteWakes(t) \/ UnlockWrite(t)
    \/ LockRead(t) \/ UnlockRead(t)
    \/ Post(t) \/ Wait(t) \/ WaitTimesOut(t) \/ SpuriousWakeup(t)

Spec == Init /\ [][Next]_vars

(***************************************************************************)
(* A writer is alone, and nobody sleeps before an open lock: when the lock *)
(* is free and no notified thread is about to run, no writer sleeps, and   *)
(* no reader sleeps unless a writer is counted as waiting; when the        *)
(* semaphore has a count, a sleeper has been notified for it               *)
(* (ReadWriteLock, Semaphore).                                             *)
(***************************************************************************)
LockSafe ==
    /\ Cardinality(In("writing")) = writers
    /\ Cardinality(In("reading")) = readers
    /\ writers + (IF readers > 0 THEN 1 ELSE 0) <= 1
    /\ readers = 0 /\ writers = 0 /\ In("woken_writer") = {}
         => In("asleep_writer") = {}
    /\ writers = 0 /\ waitWriters = 0 => In("asleep_reader") = {}
    /\ In("asleep_semaphore") # {} => count <= Cardinality(In("woken_semaphore"))

\* With the types, and waitWriters the number of the writers that wait.
Inv ==
    /\ readers \in Nat /\ writers \in Nat /\ waitWriters \in Nat /\ count \in Nat
    /\ state \in [Threads -> States]
    /\ Cardinality(In("asleep_writer")) + Cardinality(In("woken_writer")) = waitWriters
    /\ LockSafe
=============================================================================
