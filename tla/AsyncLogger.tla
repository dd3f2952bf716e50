---------------------------- MODULE AsyncLogger ----------------------------
(***************************************************************************)
(* AsyncLogger (foundation/logger/AsyncLogger.h and .cpp): threads that    *)
(* log, a bounded queue, a worker thread that writes batches to the sink,  *)
(* flush and stop.  running_ is an atomic that is read and written without *)
(* the mutex; what runs under the mutex is one step, except that the       *)
(* worker's test of its condition and its falling asleep are two, since    *)
(* stop changes the condition without the mutex.                           *)
(***************************************************************************)
EXTENDS Integers, Sequences, FiniteSets, Functions

CONSTANTS Entries,         \* the log entries: each is logged by one call
          MaxQueueSize, BatchSize,    \* maxQueueSize_ and the 100 of workerLoop
          BlockWhenFull,   \* blockWhenFull_
          MaxStarts        \* bound: calls of start

VARIABLES running, queue,
          call,       \* where the log call of each entry stands
          worker,     \* where the worker thread stands
          batch,      \* the entries the worker still has to write
          flushing,   \* the calls of flush under way: a thread's, and stop's
          hand,       \* the entry each of them is writing
          stopper,    \* where stop stands
          starts,
          sink,       \* what was written, in order
          history     \* the entries pushed so far, the place of each, and who wrote it

vars == <<running, queue, call, worker, batch, flushing, hand, stopper, starts, sink, history>>

NoEntry == "none"
Flushers == {"caller", "stop"}

Init ==
    /\ running = FALSE /\ queue = <<>>
    /\ call = [e \in Entries |-> "new"]
    /\ worker = "none" /\ batch = <<>>
    /\ flushing = {} /\ hand = [f \in Flushers |-> NoEntry]
    /\ stopper = "idle" /\ starts = 0
    /\ sink = <<>>
    /\ history = [pushes |-> 0, place |-> [e \in Entries |-> 0],
                  writer |-> [e \in Entries |-> "none"]]

\* The worker holds the mutex between its test and its sleep.
Unlocked == worker # "tested"

Start ==
    /\ stopper = "idle" /\ ~running /\ starts < MaxStarts
    /\ worker \in {"none", "joined"}
    /\ running' = TRUE /\ starts' = starts + 1
    /\ worker' = "loop"
    /\ UNCHANGED <<queue, call, batch, flushing, hand, stopper, sink, history>>

\* An entry gets its place in the queue; an entry is written by w.
Placed(e) ==
    [history EXCEPT !.pushes = @ + 1, !.place[e] = history.pushes + 1]
WrittenBy(w, e) == [history EXCEPT !.writer[e] = w]

\* log: a logger that is not running writes at once.
LogTest(e) ==
    /\ call[e] = "new"
    /\ IF running
       THEN call' = [call EXCEPT ![e] = "lock"] /\ UNCHANGED <<sink, history>>
       ELSE /\ call' = [call EXCEPT ![e] = "written"]
            /\ sink' = Append(sink, e) /\ history' = WrittenBy("log", e)
    /\ UNCHANGED <<running, queue, worker, batch, flushing, hand, stopper, starts>>

Full == Len(queue) >= MaxQueueSize

\* Mutant: a producer that does not test again after it has been woken.
PushAtOnce(e) == call[e] \in {"lock", "woken"}

MayPush(e) == call[e] \in {"lock", "woken"} /\ ~Full

LogPush(e) ==
    /\ Unlocked /\ MayPush(e)
    /\ queue' = Append(queue, e) /\ history' = Placed(e)
    /\ call' = [call EXCEPT ![e] = "notify"]
    /\ UNCHANGED <<running, worker, batch, flushing, hand, stopper, starts, sink>>

\* A full queue: wait, or drop the entry and count it.
LogFull(e) ==
    /\ Unlocked /\ call[e] \in {"lock", "woken"} /\ Full
    /\ call' = [call EXCEPT ![e] = IF BlockWhenFull THEN "blocked" ELSE "dropped"]
    /\ UNCHANGED <<running, queue, worker, batch, flushing, hand, stopper, starts, sink, history>>

WakeWorker == IF worker = "asleep" THEN "wait" ELSE worker

LogNotify(e) ==
    /\ call[e] = "notify"
    /\ call' = [call EXCEPT ![e] = "queued"]
    /\ worker' = WakeWorker
    /\ UNCHANGED <<running, queue, batch, flushing, hand, stopper, starts, sink, history>>

\* workerLoop: the test of the loop reads running_ and the queue unlocked.
LoopTest ==
    /\ worker = "loop"
    /\ worker' = IF running \/ queue # <<>> THEN "wait" ELSE "ended"
    /\ UNCHANGED <<running, queue, call, batch, flushing, hand, stopper, starts, sink, history>>

\* The condition is false: the worker will sleep, holding the mutex until then.
WaitTest ==
    /\ worker = "wait" /\ queue = <<>> /\ running
    /\ worker' = "tested"
    /\ UNCHANGED <<running, queue, call, batch, flushing, hand, stopper, starts, sink, history>>

WaitSleeps ==
    /\ worker = "tested"
    /\ worker' = "asleep"
    /\ UNCHANGED <<running, queue, call, batch, flushing, hand, stopper, starts, sink, history>>

SpuriousWakeup ==
    /\ worker = "asleep"
    /\ worker' = "wait"
    /\ UNCHANGED <<running, queue, call, batch, flushing, hand, stopper, starts, sink, history>>

\* The queue was full when the batch was taken from it.
WasFull(n) == Len(queue) - n >= MaxQueueSize - n

Blocked == {e \in Entries : call[e] = "blocked"}

TakeBatch ==
    /\ worker = "wait" /\ (queue # <<>> \/ ~running)
    /\ LET n == IF Len(queue) < BatchSize THEN Len(queue) ELSE BatchSize IN
       /\ batch' = SubSeq(queue, 1, n)
       /\ queue' = SubSeq(queue, n + 1, Len(queue))
       /\ worker' = IF WasFull(n) THEN "notify" ELSE "write"
    /\ UNCHANGED <<running, call, flushing, hand, stopper, starts, sink, history>>

NotifyFull ==
    /\ worker = "notify"
    /\ worker' = "write"
    /\ call' = [e \in Entries |-> IF e \in Blocked THEN "woken" ELSE call[e]]
    /\ UNCHANGED <<running, queue, batch, flushing, hand, stopper, starts, sink, history>>

\* Writing the batch entry by entry; then the loop again.
WriteBatch ==
    /\ worker = "write" /\ batch # <<>>
    /\ sink' = Append(sink, Head(batch)) /\ history' = WrittenBy("worker", Head(batch))
    /\ batch' = Tail(batch)
    /\ UNCHANGED <<running, queue, call, worker, flushing, hand, stopper, starts>>

BatchWritten ==
    /\ worker = "write" /\ batch = <<>>
    /\ worker' = "loop"
    /\ UNCHANGED <<running, queue, call, batch, flushing, hand, stopper, starts, sink, history>>

\* flush: takes one entry at a time and writes it without the mutex.
FlushBegins ==
    /\ "caller" \notin flushing
    /\ flushing' = flushing \cup {"caller"}
    /\ UNCHANGED <<running, queue, call, worker, batch, hand, stopper, starts, sink, history>>

FlushTakes(f) ==
    /\ f \in flushing /\ hand[f] = NoEntry /\ Unlocked /\ queue # <<>>
    /\ hand' = [hand EXCEPT ![f] = Head(queue)]
    /\ queue' = Tail(queue)
    /\ UNCHANGED <<running, call, worker, batch, flushing, stopper, starts, sink, history>>

FlushWrites(f) ==
    /\ hand[f] # NoEntry
    /\ sink' = Append(sink, hand[f]) /\ history' = WrittenBy(f, hand[f])
    /\ hand' = [hand EXCEPT ![f] = NoEntry]
    /\ UNCHANGED <<running, queue, call, worker, batch, flushing, stopper, starts>>

FlushReturns(f) ==
    /\ f \in flushing /\ hand[f] = NoEntry /\ Unlocked /\ queue = <<>>
    /\ stopper' = IF f = "stop" THEN "idle" ELSE stopper
    /\ flushing' = flushing \ {f}
    /\ UNCHANGED <<running, queue, call, worker, batch, hand, starts, sink, history>>

\* stop: clear running_, notify, join, flush.
StopBegins ==
    /\ stopper = "idle" /\ running
    /\ running' = FALSE
    /\ stopper' = "notify"
    /\ UNCHANGED <<queue, call, worker, batch, flushing, hand, starts, sink, history>>

StopNotifies ==
    /\ stopper = "notify"
    /\ stopper' = "join"
    /\ worker' = WakeWorker
    /\ UNCHANGED <<running, queue, call, batch, flushing, hand, starts, sink, history>>

StopJoins ==
    /\ stopper = "join" /\ worker = "ended"
    /\ worker' = "joined"
    /\ stopper' = "flush" /\ flushing' = flushing \cup {"stop"}
    /\ UNCHANGED <<running, queue, call, batch, hand, starts, sink, history>>

Work == LoopTest \/ WaitTest \/ WaitSleeps \/ TakeBatch \/ NotifyFull
        \/ WriteBatch \/ BatchWritten

Flush(f) == FlushTakes(f) \/ FlushWrites(f) \/ FlushReturns(f)
Log(e) == LogTest(e) \/ LogPush(e) \/ LogFull(e) \/ LogNotify(e)
StopContinues == StopNotifies \/ StopJoins

Next ==
    \/ \E e \in Entries : Log(e)
    \/ \E f \in Flushers : Flush(f)
    \/ Work \/ SpuriousWakeup \/ FlushBegins \/ Start \/ StopBegins \/ StopContinues

Spec == Init /\ [][Next]_vars

\* Every thread that can run does: callers of log and flush, worker, stop.
FairSpec ==
    /\ Spec
    /\ \A e \in Entries : WF_vars(LogPush(e) \/ LogFull(e) \/ LogNotify(e))
    /\ \A f \in Flushers : WF_vars(Flush(f))
    /\ WF_vars(Work) /\ WF_vars(StopContinues)

InHand(f) == IF hand[f] = NoEntry THEN <<>> ELSE <<hand[f]>>
Handed == {e \in Entries : call[e] \in {"notify", "queued", "written"}}

Place(e) == history.place[e]
Writer(e) == history.writer[e]
\* What a thread wrote that took it from the queue.
FromQueue(e) == Writer(e) \in Flushers \cup {"worker"}

(***************************************************************************)
(* Between any number of loggers, the worker, flush and stop, every entry  *)
(* that log accepted is in exactly one place: the queue, the batch, the    *)
(* hand of a flush, or once in the sink; and the queue keeps its bound     *)
(* though a wake-up of producers wakes all of them (AsyncLogger::log,      *)
(* workerLoop, flush).  As to the order: what one thread writes, it writes *)
(* in the order of the pushes, and nothing that came through the queue is  *)
(* written before what still waits in it.  The sink as a whole need not be *)
(* in order: a flush overtakes the batch of the worker and the other way   *)
(* round, and an entry logged after running_ is cleared overtakes the      *)
(* queue.                                                                  *)
(***************************************************************************)
EntriesKept ==
    /\ Len(queue) <= MaxQueueSize
    /\ LET all == queue \o batch \o sink \o InHand("caller") \o InHand("stop")
       IN  IsInjective(all) /\ Range(all) = Handed
    /\ \A i, j \in DOMAIN sink :
         i < j /\ FromQueue(sink[i]) /\ Writer(sink[i]) = Writer(sink[j])
           => Place(sink[i]) < Place(sink[j])
    /\ \A i \in DOMAIN sink, j \in DOMAIN queue :
         FromQueue(sink[i]) => Place(sink[i]) < Place(queue[j])

\* Why: each place holds an entry once, no two hold the same, and only the worker that
\* has taken a batch has one.
InHands == {hand[f] : f \in Flushers} \ {NoEntry}

\* Each thread's entries are before those it has yet to write, which are before the queue.
Ascending(q) == \A i, j \in DOMAIN q : i < j => Place(q[i]) < Place(q[j])
Before(S, T) == \A e \in S, f \in T : Place(e) < Place(f)
By(w) == {e \in Range(sink) : Writer(e) = w}
Held(f) == {hand[f]} \ {NoEntry}

Writers == Flushers \cup {"worker", "log", "none"}

InvOrder ==
    /\ history \in [pushes : Nat, place : [Entries -> Nat], writer : [Entries -> Writers]]
    /\ \A e \in Entries : Place(e) <= history.pushes
    /\ Ascending(queue) /\ Ascending(batch)
    /\ Before(Range(batch), Range(queue)) /\ Before(By("worker"), Range(batch) \cup Range(queue))
    /\ \A f \in Flushers : /\ Before(Held(f), Range(queue))
                            /\ Before(By(f), Held(f) \cup Range(queue))
    /\ \A i, j \in DOMAIN sink :
         i < j /\ FromQueue(sink[i]) /\ Writer(sink[i]) = Writer(sink[j])
           => Place(sink[i]) < Place(sink[j])

InvPlaces ==
    /\ queue \in Seq(Entries) /\ batch \in Seq(Entries) /\ sink \in Seq(Entries)
    /\ hand \in [Flushers -> Entries \cup {NoEntry}] /\ DOMAIN call = Entries
    /\ Len(queue) <= MaxQueueSize
    /\ worker \notin {"notify", "write"} => batch = <<>>
    /\ IsInjective(queue) /\ IsInjective(batch) /\ IsInjective(sink)
    /\ hand["caller"] = hand["stop"] => hand["caller"] = NoEntry
    /\ Range(queue) \cap Range(batch) = {}
    /\ (Range(queue) \cup Range(batch)) \cap Range(sink) = {}
    /\ (Range(queue) \cup Range(batch) \cup Range(sink)) \cap InHands = {}
    /\ Range(queue) \cup Range(batch) \cup Range(sink) \cup InHands = Handed

Inv == InvPlaces /\ InvOrder

(***************************************************************************)
(* stop stops the logger and flushes it: a call of stop returns            *)
(* (AsyncLogger.h: stop).                                                  *)
(***************************************************************************)
StopReturns == stopper = "notify" ~> stopper = "idle"
=============================================================================
