------------------------------ MODULE Throttle ------------------------------
(***************************************************************************)
(* Throttle (foundation/throttle/Throttle.h and .cpp).  submit arms an     *)
(* event for the present second plus its interval; the worker thread looks *)
(* once a second for events that are due.  Both read the clock before they *)
(* take the mutex.  The thread is a member declared before is_run, so that *)
(* it starts before the constructor sets is_run and may read anything.     *)
(***************************************************************************)
EXTENDS Integers

CONSTANTS Events, Intervals,    \* event ids and the intervals they may have
          Callers,              \* threads that call submit
          MaxTime,              \* bound: seconds on the clock
          MaxSubmits            \* bound: calls of submit by each caller

VARIABLES clock,
          event,         \* event_map: interval and next_call_time, 0 if not armed
          caller,        \* the second a submit has read, or 0
          submits,
          round,         \* the second the worker has read, or 0
          visited,       \* events this round has looked at
          is_run,        \* the values that a read of is_run may give
          has_call,      \* a callback is registered
          armedAt,       \* the second read by the submit that armed the event
          early,         \* events that were called before their time
          worker         \* the worker thread is "running" or has "left" run

vars == <<clock, event, caller, submits, round, visited, is_run, has_call, armedAt, early, worker>>

NoEvent == [interval |-> -1, next_call_time |-> 0]
EventItems == [interval : Intervals, next_call_time : 0..(2 * MaxTime)] \cup {NoEvent}

Init ==
    /\ clock = 1
    /\ event = [e \in Events |-> NoEvent]
    /\ caller = [c \in Callers |-> 0] /\ submits = [c \in Callers |-> 0]
    /\ round = 0 /\ visited = {} /\ is_run = BOOLEAN /\ has_call = FALSE
    /\ armedAt = [e \in Events |-> 0]
    /\ early = {} /\ worker = "running"

\* The constructor goes on while the thread runs: is_run is set after the thread began.
Constructor ==
    /\ is_run = BOOLEAN
    /\ is_run' = {TRUE}
    /\ UNCHANGED <<clock, event, caller, submits, round, visited, has_call, armedAt, early, worker>>

\* Others call the throttle once it is constructed.
Constructed == is_run # BOOLEAN

Registered(e) == event[e] # NoEvent
\* The mutex is held by the worker from the reading of a due event to the end of its round.
Unlocked == visited = {}

\* registerEvent: also forgets that the event was armed.
RegisterEvent(e) ==
    /\ Constructed /\ Unlocked
    /\ \E n \in Intervals :
         event' = [event EXCEPT ![e] = [interval |-> n, next_call_time |-> 0]]
    /\ UNCHANGED <<clock, caller, submits, round, visited, is_run, has_call, armedAt, early, worker>>

RegisterEventCall ==
    /\ Constructed /\ ~has_call
    /\ has_call' = TRUE
    /\ UNCHANGED <<clock, event, caller, submits, round, visited, is_run, armedAt, early, worker>>

SubmitReadsClock(c) ==
    /\ Constructed /\ caller[c] = 0 /\ submits[c] < MaxSubmits
    /\ caller' = [caller EXCEPT ![c] = clock]
    /\ submits' = [submits EXCEPT ![c] = @ + 1]
    /\ UNCHANGED <<clock, event, round, visited, is_run, has_call, armedAt, early, worker>>

\* An armed event keeps its time: submissions until then are one call.
Arm(e, now) ==
    IF Registered(e) /\ event[e].next_call_time = 0
    THEN [event EXCEPT ![e].next_call_time = now + event[e].interval]
    ELSE event

Submit(c, e) ==
    /\ caller[c] # 0 /\ Unlocked
    /\ event' = Arm(e, caller[c])
    /\ armedAt' = IF event' # event THEN [armedAt EXCEPT ![e] = caller[c]] ELSE armedAt
    /\ caller' = [caller EXCEPT ![c] = 0]
    /\ UNCHANGED <<clock, submits, round, visited, is_run, has_call, early, worker>>

RunReadsClock ==
    /\ worker = "running" /\ round = 0 /\ TRUE \in is_run
    /\ round' = clock
    /\ UNCHANGED <<clock, event, caller, submits, visited, is_run, has_call, armedAt, early, worker>>

\* Mutant: a thread that leaves at an event that is due.
LeavesWhenDue ==
    /\ worker = "running" /\ round = 0
    /\ FALSE \in is_run \/ \E e \in Events : event[e].next_call_time \in 1..clock
    /\ worker' = "left"
    /\ UNCHANGED <<clock, event, caller, submits, round, visited, is_run, has_call, armedAt, early>>

\* The loop ends where it reads FALSE: in the destructor, or before the constructor's end.
RunLeaves ==
    /\ worker = "running" /\ round = 0 /\ FALSE \in is_run
    /\ worker' = "left"
    /\ UNCHANGED <<clock, event, caller, submits, round, visited, is_run, has_call, armedAt, early>>

\* Mutant: a test that rounds the wrong way.
DueSoon(e) == has_call /\ event[e].next_call_time > 0 /\ round + 1 >= event[e].next_call_time

Due(e) == has_call /\ event[e].next_call_time > 0 /\ round >= event[e].next_call_time

\* The round under the mutex, event by event; event_call runs inside it.
RunVisits(e) ==
    /\ round # 0 /\ e \notin visited
    /\ visited' = visited \cup {e}
    /\ event' = IF Due(e) THEN [event EXCEPT ![e].next_call_time = 0] ELSE event
    /\ early' = IF Due(e) /\ clock < armedAt[e] + event[e].interval
                THEN early \cup {e} ELSE early
    /\ UNCHANGED <<clock, caller, submits, round, is_run, has_call, armedAt, worker>>

RunSleeps ==
    /\ round # 0 /\ visited = Events
    /\ round' = 0 /\ visited' = {}
    /\ UNCHANGED <<clock, event, caller, submits, is_run, has_call, armedAt, early, worker>>

\* ~Throttle.
StopRunning ==
    /\ is_run = {TRUE}
    /\ is_run' = {FALSE}
    /\ UNCHANGED <<clock, event, caller, submits, round, visited, has_call, armedAt, early, worker>>

Second ==
    /\ clock < MaxTime
    /\ clock' = clock + 1
    /\ UNCHANGED <<event, caller, submits, round, visited, is_run, has_call, armedAt, early, worker>>

Run == RunReadsClock \/ RunLeaves \/ (\E e \in Events : RunVisits(e)) \/ RunSleeps

Next ==
    \/ \E e \in Events : RegisterEvent(e)
    \/ \E c \in Callers : SubmitReadsClock(c) \/ (\E e \in Events : Submit(c, e))
    \/ Constructor \/ RegisterEventCall \/ Run \/ StopRunning \/ Second

Spec == Init /\ [][Next]_vars

(***************************************************************************)
(* An event is never called before its interval has passed since the       *)
(* submission that armed it, however old the clock readings of submit and  *)
(* of the worker are when they get the mutex (Throttle::submit, run).      *)
(***************************************************************************)
NeverEarly == early = {}

\* Why: an armed event's time is that of the submission plus the interval, and the
\* worker's reading of the clock is not ahead of the clock.
Items == [interval : Intervals, next_call_time : Nat] \cup {NoEvent}

Inv ==
    /\ clock \in Nat /\ round \in Nat /\ round <= clock
    /\ caller \in [Callers -> Nat] /\ armedAt \in [Events -> Nat]
    /\ event \in [Events -> Items]
    /\ \A e \in Events : event[e].next_call_time > 0 =>
         event[e].next_call_time = armedAt[e] + event[e].interval
    /\ NeverEarly

\* An armed event whose time has come, and one that was called or is waited for in vain:
\* the destructor has begun, or the thread left before is_run was set.
Overdue(e) == has_call /\ event[e].next_call_time \in 1..clock /\ worker = "running"
GivenUp == is_run = {FALSE}
Settled(e) == event[e].next_call_time = 0 \/ GivenUp
=============================================================================
