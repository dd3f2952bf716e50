------------------------------- MODULE Timer -------------------------------
(***************************************************************************)
(* Timer and TimerManager (foundation/timer/Timer.h and .cpp).  The timing *)
(* thread counts every timer of the map down, once a millisecond, and      *)
(* hands a timer that reaches zero to AsyncQueue as a task; the task calls *)
(* the callback and then touches the timer it was made from, which may no  *)
(* longer be in the map.                                                   *)
(***************************************************************************)
EXTENDS Integers, Sequences, FiniteSets

CONSTANTS MaxTimers,  \* bound: timers a client starts
          Interval    \* interval * 1000: ticks until a timer is due

VARIABLES currentId,   \* the last id given out
          timerMap,    \* the timers of the map
          timer,       \* what each of them holds
          queued,      \* tasks in AsyncQueue, by the timer they refer to
          running,     \* the tasks being run
          manager,     \* _running of the manager, and the end of its thread
          fired,       \* callbacks of each timer (at most 2 are counted)
          dangling,    \* timers that a task touched after their removal
          cut          \* timers removed while their task was queued or running

vars == <<currentId, timerMap, timer, queued, running, manager, fired, dangling, cut>>

Timers == [remainTime : -1..Interval, repeat : BOOLEAN, callback : BOOLEAN]

Ids == 1..MaxTimers
Idle == [remainTime |-> Interval, repeat |-> FALSE, callback |-> FALSE]

Init ==
    /\ currentId = 0 /\ timerMap = {} /\ timer = [i \in Ids |-> Idle]
    /\ queued = <<>> /\ running = {}
    /\ manager = "running"
    /\ fired = [i \in Ids |-> 0]
    /\ dangling = {} /\ cut = {}

\* A new timer; ids are never used again.
Start ==
    /\ currentId < MaxTimers
    /\ currentId' = currentId + 1
    /\ timerMap' = timerMap \cup {currentId'}
    /\ \E r \in BOOLEAN :
         timer' = [timer EXCEPT ![currentId'] = [Idle EXCEPT !.repeat = r, !.callback = TRUE]]
    /\ UNCHANGED <<queued, running, manager, fired, dangling, cut>>

\* The task of timer i waits in AsyncQueue, or runs.
Queued(i) == \E k \in DOMAIN queued : queued[k] = i
HasTask(i) == Queued(i) \/ i \in running

\* stop and clean: the callback is dropped and the timer erased.
Stop(i) ==
    /\ i \in timerMap
    /\ timer' = [timer EXCEPT ![i].callback = FALSE]
    /\ timerMap' = timerMap \ {i}
    /\ cut' = IF HasTask(i) THEN cut \cup {i} ELSE cut
    /\ UNCHANGED <<currentId, queued, running, manager, fired, dangling>>

Due(i) == timer[i].remainTime = 0

\* Mutant: handing the timer over without marking it as handed over.
LeaveAtZero(i) ==
    [timer[i] EXCEPT !.remainTime = IF @ > 0 THEN @ - 1 ELSE @]

\* What a millisecond does to a timer; doTask leaves it at -1.
Ticked(i) ==
    [timer[i] EXCEPT !.remainTime = IF @ > 0 THEN @ - 1 ELSE -1]

\* The timers that doTask hands to AsyncQueue.
HandedOver == {i \in timerMap : Due(i) /\ timer[i].callback}

\* A set of ids in the order of the map.
InOrderOfIds(S) ==
    {s \in [1..Cardinality(S) -> S] : \A j, k \in DOMAIN s : j < k => s[j] < s[k]}

\* One round of run under the mutex, over the map in the order of the ids.
Tick ==
    /\ manager = "running" /\ timerMap # {}
    /\ timer' = [i \in Ids |-> IF i \in timerMap THEN Ticked(i) ELSE timer[i]]
    /\ \E s \in InOrderOfIds(HandedOver) : queued' = queued \o s
    /\ UNCHANGED <<currentId, timerMap, running, manager, fired, dangling, cut>>

\* A worker of AsyncQueue takes the oldest task and calls the callback.  A
\* task whose timer is gone reads freed memory instead.
TaskBegins ==
    /\ queued # <<>>
    /\ LET i == Head(queued) IN
       /\ running' = running \cup {i}
       /\ IF i \in timerMap
          THEN fired' = [fired EXCEPT ![i] = IF @ < 2 THEN @ + 1 ELSE @] /\ UNCHANGED dangling
          ELSE dangling' = dangling \cup {i} /\ UNCHANGED fired
    /\ queued' = Tail(queued)
    /\ UNCHANGED <<currentId, timerMap, timer, manager, cut>>

\* After the callback a single timer drops it; a repeating one starts anew.
AfterCallback(i) ==
    IF timer[i].repeat THEN [timer EXCEPT ![i].remainTime = Interval]
                       ELSE [timer EXCEPT ![i].callback = FALSE]

TaskEnds(i) ==
    /\ i \in running
    /\ running' = running \ {i}
    /\ IF i \in timerMap
       THEN timer' = AfterCallback(i) /\ UNCHANGED dangling
       ELSE dangling' = dangling \cup {i} /\ UNCHANGED timer
    /\ UNCHANGED <<currentId, timerMap, queued, manager, fired, cut>>

\* ~TimerManager: the thread leaves its loop and cleans the map while it
\* iterates over it.  Each erasure frees the node the iterator stands on, so
\* that the iteration may end anywhere after the first.
ManagerStops ==
    /\ manager = "running"
    /\ manager' = "ended"
    /\ \E gone \in SUBSET timerMap :
         /\ timerMap # {} => gone # {}
         /\ timer' = [i \in Ids |-> [timer[i] EXCEPT !.callback = @ /\ i \notin gone]]
         /\ timerMap' = timerMap \ gone
         /\ cut' = cut \cup {i \in gone : HasTask(i)}
    /\ UNCHANGED <<currentId, queued, running, fired, dangling>>

Next ==
    \/ \E i \in Ids : Stop(i) \/ TaskEnds(i)
    \/ Start \/ Tick \/ TaskBegins \/ ManagerStops

Spec == Init /\ [][Next]_vars

Occurrences(i) == Cardinality({k \in DOMAIN queued : queued[k] = i})

(***************************************************************************)
(* A timer is in at most one place: counting down, queued or in its        *)
(* callback, never two of them, so that two calls of one callback never    *)
(* overlap; and a timer that does not repeat calls back at most once       *)
(* (Timer::doTask and its -1, TimerManager::run).  A task holds on to its  *)
(* timer by reference and touches it after it is erased in one case only:  *)
(* when the timer was removed between doTask and the end of its task.      *)
(***************************************************************************)
FiresInTurn ==
    /\ \A i \in timerMap :
         /\ Occurrences(i) + Cardinality(running \cap {i}) <= 1
         /\ Occurrences(i) = 1 \/ i \in running => timer[i].remainTime = -1
         /\ ~timer[i].repeat => fired[i] <= 1
    /\ dangling \subseteq cut

\* Why: ids are not used again, a timer that counts down is in no other place, and one
\* that does not repeat has not fired as long as it counts down or is queued.
InTurn(i) ==
    /\ \A j, k \in DOMAIN queued : queued[j] = i /\ queued[k] = i => j = k
    /\ i \in running => ~Queued(i)
    /\ HasTask(i) => timer[i].remainTime = -1
    /\ ~timer[i].repeat => fired[i] <= 1
    /\ ~timer[i].repeat /\ fired[i] = 1 => timer[i].remainTime = -1 /\ ~Queued(i)

InvCut ==
    /\ dangling \subseteq cut
    /\ \A i \in Ids : HasTask(i) => i \in timerMap \/ i \in cut

Inv ==
    /\ InvCut
    /\ currentId \in 0..MaxTimers /\ timerMap \subseteq 1..currentId
    /\ timer \in [Ids -> Timers] /\ fired \in [Ids -> Nat]
    /\ queued \in Seq(1..currentId) /\ running \subseteq 1..currentId
    /\ \A i \in Ids : i > currentId => fired[i] = 0
    /\ \A i \in timerMap : InTurn(i)
=============================================================================
