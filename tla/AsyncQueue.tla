----------------------------- MODULE AsyncQueue -----------------------------
(***************************************************************************)
(* AsyncQueue (foundation/thread/AsyncQueue.h and .cpp): a pool of threads *)
(* that takes tasks from one queue, with a destructor that joins them.     *)
(* What runs under mQueueMutex is one step; the notification of submit     *)
(* comes after the unlock.                                                 *)
(***************************************************************************)
EXTENDS Integers, Sequences, FiniteSets

CONSTANTS Workers, Tasks    \* the threads, and the calls of submit

VARIABLES isRunning, taskQueue,
          worker,        \* where each thread stands
          task,          \* the task it runs
          submit,        \* where each submit call stands
          destructor,    \* where the destructor stands
          runs           \* how often each task was run

vars == <<isRunning, taskQueue, worker, task, submit, destructor, runs>>

NoTask == "none"

Init ==
    /\ isRunning = TRUE /\ taskQueue = <<>>
    /\ worker = [w \in Workers |-> "test"]
    /\ task = [w \in Workers |-> NoTask]
    /\ submit = [k \in Tasks |-> "new"]
    /\ destructor = "new"
    /\ runs = [k \in Tasks |-> 0]

Sleepers == {w \in Workers : worker[w] = "asleep"}

NotifyOne ==
    IF Sleepers = {} THEN {worker}
    ELSE {[worker EXCEPT ![w] = "test"] : w \in Sleepers}

NotifyAll == [w \in Workers |-> IF worker[w] = "asleep" THEN "test" ELSE worker[w]]

\* submit: refused without a word once the destructor has begun.
Submit(k) ==
    /\ submit[k] = "new" /\ destructor # "done"
    /\ IF isRunning
       THEN taskQueue' = Append(taskQueue, k) /\ submit' = [submit EXCEPT ![k] = "notify"]
       ELSE submit' = [submit EXCEPT ![k] = "refused"] /\ UNCHANGED taskQueue
    /\ UNCHANGED <<isRunning, worker, task, destructor, runs>>

SubmitNotifies(k) ==
    /\ submit[k] = "notify"
    /\ submit' = [submit EXCEPT ![k] = "accepted"]
    /\ worker' \in NotifyOne
    /\ UNCHANGED <<isRunning, taskQueue, task, destructor, runs>>

\* Mutant: a wait that looks only at the queue, not at the flag.
SleepThroughStop(w) ==
    /\ worker[w] = "test" /\ taskQueue = <<>>
    /\ worker' = [worker EXCEPT ![w] = "asleep"]
    /\ UNCHANGED <<isRunning, taskQueue, task, submit, destructor, runs>>

\* A thread tests the condition of its wait and sleeps while it is false.
Sleep(w) ==
    /\ worker[w] = "test" /\ isRunning /\ taskQueue = <<>>
    /\ worker' = [worker EXCEPT ![w] = "asleep"]
    /\ UNCHANGED <<isRunning, taskQueue, task, submit, destructor, runs>>

\* Mutant: leaving as soon as the queue stops, with tasks still in it.
LeaveWhenStopped(w) ==
    /\ worker[w] = "test" /\ ~isRunning
    /\ worker' = [worker EXCEPT ![w] = "ended"]
    /\ UNCHANGED <<isRunning, taskQueue, task, submit, destructor, runs>>

\* The queue is stopped and empty: the task stays null and the loop ends.
Leave(w) ==
    /\ worker[w] = "test" /\ ~isRunning /\ taskQueue = <<>>
    /\ worker' = [worker EXCEPT ![w] = "ended"]
    /\ UNCHANGED <<isRunning, taskQueue, task, submit, destructor, runs>>

Take(w) ==
    /\ worker[w] = "test" /\ taskQueue # <<>>
    /\ task' = [task EXCEPT ![w] = Head(taskQueue)]
    /\ taskQueue' = Tail(taskQueue)
    /\ worker' = [worker EXCEPT ![w] = "run"]
    /\ UNCHANGED <<isRunning, submit, destructor, runs>>

Run(w) ==
    /\ worker[w] = "run"
    /\ runs' = [runs EXCEPT ![task[w]] = @ + 1]
    /\ task' = [task EXCEPT ![w] = NoTask]
    /\ worker' = [worker EXCEPT ![w] = "test"]
    /\ UNCHANGED <<isRunning, taskQueue, submit, destructor>>

SpuriousWakeup(w) ==
    /\ worker[w] = "asleep"
    /\ worker' = [worker EXCEPT ![w] = "test"]
    /\ UNCHANGED <<isRunning, taskQueue, task, submit, destructor, runs>>

\* ~AsyncQueue: under the lock, then notify_all, then the joins.
DestructorStops ==
    /\ destructor = "new"
    /\ isRunning' = FALSE
    /\ destructor' = "notify"
    /\ worker' \in NotifyOne
    /\ UNCHANGED <<taskQueue, task, submit, runs>>

DestructorNotifies ==
    /\ destructor = "notify"
    /\ destructor' = "join"
    /\ worker' = NotifyAll
    /\ UNCHANGED <<isRunning, taskQueue, task, submit, runs>>

DestructorReturns ==
    /\ destructor = "join"
    /\ \A w \in Workers : worker[w] = "ended"
    /\ \A k \in Tasks : submit[k] # "notify"
    /\ destructor' = "done"
    /\ UNCHANGED <<isRunning, taskQueue, worker, task, submit, runs>>

Work(w) == Sleep(w) \/ Leave(w) \/ Take(w) \/ Run(w)

Next ==
    \/ \E k \in Tasks : Submit(k) \/ SubmitNotifies(k)
    \/ \E w \in Workers : Work(w) \/ SpuriousWakeup(w)
    \/ DestructorStops \/ DestructorNotifies \/ DestructorReturns

\* Threads that can run do run; nobody has to call submit or the destructor.
Progress ==
    \/ \E k \in Tasks : SubmitNotifies(k)
    \/ DestructorNotifies \/ DestructorReturns

Spec == Init /\ [][Next]_vars

(***************************************************************************)
(* Every accepted task is run exactly once: never twice, and when the      *)
(* destructor has returned none is left, whatever was queued when it began *)
(* (AsyncQueue::initial, ~AsyncQueue).                                     *)
(***************************************************************************)
RunsOnce ==
    /\ \A k \in Tasks : runs[k] <= 1
    /\ destructor = "done" =>
         \A k \in Tasks : submit[k] = "accepted" => runs[k] = 1

\* Why: a task that was submitted is queued once, or in the hands of one thread,
\* or has been run once; and a thread ends only when the queue is stopped and empty.
Queued == {taskQueue[i] : i \in 1..Len(taskQueue)}
Held == {task[w] : w \in {v \in Workers : worker[v] = "run"}}
Submitted(k) == submit[k] \in {"notify", "accepted"}

Inv ==
    /\ isRunning \in BOOLEAN /\ taskQueue \in Seq(Tasks)
    /\ worker \in [Workers -> {"test", "asleep", "run", "ended"}]
    /\ task \in [Workers -> Tasks \cup {NoTask}]
    /\ submit \in [Tasks -> {"new", "notify", "accepted", "refused"}]
    /\ runs \in [Tasks -> Nat]
    /\ \A i, j \in 1..Len(taskQueue) : taskQueue[i] = taskQueue[j] => i = j
    /\ \A v, w \in Workers :
         worker[v] = "run" /\ worker[w] = "run" /\ task[v] = task[w] => v = w
    /\ Held \subseteq Tasks /\ Queued \cap Held = {}
    /\ \A k \in Tasks : runs[k] = IF Submitted(k) /\ k \notin Queued \cup Held THEN 1 ELSE 0
    /\ \A k \in Queued \cup Held : Submitted(k)
    /\ \A w \in Workers : worker[w] = "ended" => ~isRunning /\ taskQueue = <<>>
    /\ destructor = "new" => isRunning
    /\ destructor = "done" => \A w \in Workers : worker[w] = "ended"

\* A destructor that has begun, and one that has returned.
Stopping == destructor = "notify"
Stopped == destructor = "done"
=============================================================================
