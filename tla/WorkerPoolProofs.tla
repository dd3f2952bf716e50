-------------------------- MODULE WorkerPoolProofs --------------------------
(***************************************************************************)
(* WorkerPool runs the callbacks of a connection one at a time and in the  *)
(* order the queues took its events, and a Stop in the order of Server     *)
(* leaves none behind, for any number of workers, reactors, connections,   *)
(* events and restarts and every max_queue_size_.                          *)
(***************************************************************************)
EXTENDS WorkerPool, SequenceTheorems, TLAPS

Event == Connections \X (1..Submissions)

\* The state with the types of its parts; TypeOK leaves out what its bounds imply.
Typed ==
  /\ is_running \in BOOLEAN /\ server_order \in BOOLEAN
  /\ queues \in [Workers -> Seq(Event)]
  /\ stopped \in [Workers -> BOOLEAN]
  /\ worker \in [Workers ->
                   [pc : {"none", "test", "wait", "callback", "drain", "last_callback", "exited"},
                    event : Event \cup {NoEvent}]]
  /\ \A w \in Workers : Busy(w) <=> worker[w].event # NoEvent
  /\ submit \in [Reactors -> [pc : {"idle", "enqueue"}, conn : Nat]]
  /\ owner \in [pc : {"idle", "starting", "started", "notifying", "joining"},
                next : 0..WorkerCount]
  /\ accepted \in [Connections -> Nat]
  /\ done \in [Connections -> Nat]
  /\ tried \in [Connections -> Nat]

\* HasSpace is tested before every Append.
Bounded == \A w \in Workers : MaxQueueSize > 0 => Len(queues[w]) <= MaxQueueSize

\* A reactor submits for its own connections only, and the event it is about to
\* enqueue has been counted as tried: the numbers of events stay in 1..Submissions.
Quota ==
  /\ \A c \in Connections : accepted[c] <= tried[c] /\ tried[c] <= Submissions
  /\ \A c \in Connections : done[c] <= accepted[c]
  /\ \A r \in Reactors :
       submit[r].pc = "enqueue" =>
         /\ submit[r].conn \in Connections /\ HomeOf[submit[r].conn] = r
         /\ accepted[submit[r].conn] < tried[submit[r].conn]

\* The events in a queue belong to its worker and are still to be handled; those
\* of one connection are in the order of their numbers.
InLine ==
  \A w \in Workers : \A i \in 1..Len(queues[w]) :
    /\ WorkerOf(queues[w][i][1]) = w
    /\ done[queues[w][i][1]] < queues[w][i][2]
    /\ queues[w][i][2] <= accepted[queues[w][i][1]]
    /\ \A j \in 1..Len(queues[w]) :
         (i < j /\ queues[w][i][1] = queues[w][j][1]) => queues[w][i][2] < queues[w][j][2]

\* The event in a callback is the next of its connection and ahead of the line.
InCallback ==
  \A w \in Workers : Busy(w) =>
    /\ WorkerOf(worker[w].event[1]) = w
    /\ worker[w].event[2] = done[worker[w].event[1]] + 1
    /\ worker[w].event[2] <= accepted[worker[w].event[1]]
    /\ \A i \in 1..Len(queues[w]) :
         queues[w][i][1] = worker[w].event[1] => worker[w].event[2] < queues[w][i][2]

\* An event that was accepted and is not done is somewhere.
Waiting(c, n) ==
  \/ Busy(WorkerOf(c)) /\ worker[WorkerOf(c)].event = <<c, n>>
  \/ \E i \in 1..Len(queues[WorkerOf(c)]) : queues[WorkerOf(c)][i] = <<c, n>>

NoneLost ==
  \A c \in Connections : \A n \in 1..Submissions :
    (done[c] < n /\ n <= accepted[c]) => Waiting(c, n)

\* Which threads there are in each phase of the owner.
Phase ==
  /\ is_running <=> owner.pc \in {"starting", "started"}
  /\ owner.pc = "notifying" => owner.next < WorkerCount
  /\ \A w \in Workers :
       /\ owner.pc = "idle" => worker[w].pc = "none"
       /\ owner.pc = "starting" => (worker[w].pc = "none" <=> w >= owner.next)
       /\ owner.pc \in {"started", "notifying"} => worker[w].pc # "none"
       /\ worker[w].pc \in {"drain", "last_callback", "exited"} =>
            owner.pc \in {"notifying", "joining"}

\* What keeping to the order of Server and Client gives: nobody is submitting
\* outside the time between the end of Start and Stop, so that a queue whose
\* worker is gone, or not there yet, is empty.
Quiet ==
  server_order =>
    /\ owner.pc # "started" => \A r \in Reactors : submit[r].pc = "idle"
    /\ \A w \in Workers : worker[w].pc \in {"none", "exited"} => queues[w] = <<>>

\* The inductive invariant.
Inv == /\ Typed
       /\ Bounded
       /\ Quota
       /\ InLine
       /\ InCallback
       /\ NoneLost
       /\ Phase
       /\ Quiet
-----------------------------------------------------------------------------
(* The constants and the state, in the forms the provers use.              *)

\* The worker of a connection exists; an event is a pair and never NoEvent.
LEMMA Facts ==
  /\ WorkerCount \in Nat \ {0} /\ MaxQueueSize \in Nat /\ Submissions \in Nat
  /\ \A c \in Connections : WorkerOf(c) \in Workers /\ HomeOf[c] \in Reactors
  /\ \A e \in Event : e[1] \in Connections /\ e[2] \in 1..Submissions /\ e # NoEvent
  /\ \A c \in Connections, n \in 1..Submissions : <<c, n>> \in Event
  /\ Workers \subseteq Nat
<1>1. /\ WorkerCount \in Nat \ {0} /\ MaxQueueSize \in Nat /\ Submissions \in Nat
      /\ \A c \in Connections : c \in Nat /\ HomeOf[c] \in Reactors
  BY PoolAssumption
<1>2. \A c \in Connections : WorkerOf(c) \in Workers
  BY <1>1 DEF WorkerOf, Workers
<1>3. \A e \in Event : e[1] \in Connections /\ e[2] \in 1..Submissions /\ e # NoEvent
  <2>1. \A c, n : <<c, n>> # NoEvent
    BY DEF NoEvent
  <2> SUFFICES ASSUME NEW e \in Event
               PROVE  e[1] \in Connections /\ e[2] \in 1..Submissions /\ e # NoEvent
    OBVIOUS
  <2>2. PICK c \in Connections, n \in 1..Submissions : e = <<c, n>>
    BY DEF Event
  <2> QED
    BY <2>1, <2>2
<1>4. \A c \in Connections, n \in 1..Submissions : <<c, n>> \in Event
  BY DEF Event
<1>5. Workers \subseteq Nat
  BY <1>1 DEF Workers
<1> QED
  BY <1>1, <1>2, <1>3, <1>4, <1>5

\* What a queue holds, by index.
LEMMA QueueFacts ==
  ASSUME Typed, NEW w \in Workers
  PROVE  /\ queues[w] \in Seq(Event) /\ Len(queues[w]) \in Nat
         /\ \A i \in 1..Len(queues[w]) :
              /\ queues[w][i] \in Event
              /\ queues[w][i][1] \in Connections /\ queues[w][i][2] \in 1..Submissions
<1>1. queues[w] \in Seq(Event)
  BY DEF Typed
<1>2. \A i \in 1..Len(queues[w]) : queues[w][i] \in Event
  BY <1>1, ElementOfSeq
<1> QED
  BY <1>1, <1>2, LenProperties, Facts

\* A busy worker holds an event.
LEMMA BusyFacts ==
  ASSUME Typed, NEW w \in Workers, Busy(w)
  PROVE  /\ worker[w].event \in Event
         /\ worker[w].event[1] \in Connections /\ worker[w].event[2] \in 1..Submissions
<1>1. worker[w].event \in Event
  BY DEF Typed
<1> QED
  BY <1>1, Facts

-----------------------------------------------------------------------------
(* What the steps do to the line of events.                                *)

Line == Bounded /\ InLine /\ InCallback /\ NoneLost

\* Steps that touch no queue, start or end no callback and count nothing.
LEMMA LineKept ==
  ASSUME Inv, UNCHANGED <<queues, accepted, done>>,
         \A w \in Workers : Busy(w)' <=> Busy(w),
         \A w \in Workers : Busy(w) => worker'[w].event = worker[w].event
  PROVE  Line'
<1>1. Bounded'
  BY DEF Bounded, Inv
<1>2. InLine'
  BY DEF InLine, Inv, WorkerOf
<1>3. InCallback'
  BY DEF InCallback, Inv, WorkerOf
<1>4. NoneLost'
  BY Facts DEF NoneLost, Waiting, Inv, WorkerOf
<1> QED
  BY <1>1, <1>2, <1>3, <1>4 DEF Line

\* The next event of a connection joins the end of its worker's line.
LEMMA AcceptStep ==
  ASSUME Inv, NEW c \in Connections, Accept(c), HasSpace(WorkerOf(c)),
         accepted[c] < Submissions,
         UNCHANGED <<worker, done>>
  PROVE  /\ Line'
         /\ queues' \in [Workers -> Seq(Event)]
         /\ accepted' \in [Connections -> Nat]
         /\ \A d \in Connections : accepted'[d] = IF d = c THEN accepted[c] + 1 ELSE accepted[d]
         /\ \A w \in Workers : w # WorkerOf(c) => queues'[w] = queues[w]
<1> DEFINE v == WorkerOf(c)
           e == <<c, accepted[c] + 1>>
<1>1. /\ v \in Workers /\ queues \in [Workers -> Seq(Event)]
      /\ accepted \in [Connections -> Nat] /\ done \in [Connections -> Nat]
      /\ accepted[c] \in Nat
  BY Facts DEF Inv, Typed
<1>2. e \in Event /\ e[1] = c /\ e[2] = accepted[c] + 1
  BY <1>1, Facts
<1>3. /\ queues' = [queues EXCEPT ![v] = Append(@, e)]
      /\ accepted' = [accepted EXCEPT ![c] = @ + 1]
  BY DEF Accept
<1> HIDE DEF v, e
<1>4. /\ queues[v] \in Seq(Event) /\ Len(queues[v]) \in Nat
  BY <1>1, QueueFacts DEF Inv
<1>5. /\ queues'[v] \in Seq(Event)
      /\ Len(queues'[v]) = Len(queues[v]) + 1
      /\ \A i \in 1..Len(queues[v]) : queues'[v][i] = queues[v][i]
      /\ queues'[v][Len(queues[v]) + 1] = e
  <2>1. queues'[v] = Append(queues[v], e)
    BY <1>1, <1>3
  <2> QED
    BY <2>1, <1>2, <1>4, AppendProperties
<1>6. \A w \in Workers : w # v => queues'[w] = queues[w]
  BY <1>1, <1>3
<1>7. queues' \in [Workers -> Seq(Event)]
  BY <1>1, <1>2, <1>3, <1>4, AppendProperties
<1>8. /\ accepted' \in [Connections -> Nat]
      /\ \A d \in Connections : accepted'[d] = IF d = c THEN accepted[c] + 1 ELSE accepted[d]
      /\ \A d \in Connections : \A n \in Nat : n <= accepted[d] => n <= accepted'[d]
  BY <1>1, <1>3
<1>9. \A w \in Workers : \A i \in 1..Len(queues'[w]) :
        \/ i \in 1..Len(queues[w]) /\ queues'[w][i] = queues[w][i]
        \/ w = v /\ i = Len(queues[v]) + 1 /\ queues'[w][i] = e
  BY <1>4, <1>5, <1>6
<1>10. \A w \in Workers : Len(queues[w]) \in Nat /\ Len(queues'[w]) \in Nat
  <2> TAKE w \in Workers
  <2> QED BY <1>4, <1>5, <1>6, QueueFacts DEF Inv
<1>11. Bounded'
  <2>1. MaxQueueSize > 0 => Len(queues[v]) < MaxQueueSize
    BY Facts DEF HasSpace, v
  <2> QED
    BY <1>4, <1>5, <1>6, <2>1, Facts DEF Bounded, Inv
<1>12. InLine'
  <2> SUFFICES ASSUME NEW w \in Workers, NEW i \in 1..Len(queues'[w])
               PROVE  /\ WorkerOf(queues'[w][i][1]) = w
                      /\ done[queues'[w][i][1]] < queues'[w][i][2]
                      /\ queues'[w][i][2] <= accepted'[queues'[w][i][1]]
                      /\ \A j \in 1..Len(queues'[w]) :
                           (i < j /\ queues'[w][i][1] = queues'[w][j][1])
                              => queues'[w][i][2] < queues'[w][j][2]
    BY DEF InLine, WorkerOf
  <2>1. \A k \in 1..Len(queues[w]) :
          /\ WorkerOf(queues[w][k][1]) = w /\ queues[w][k][1] \in Connections
          /\ done[queues[w][k][1]] < queues[w][k][2]
          /\ queues[w][k][2] \in Nat
          /\ queues[w][k][2] <= accepted[queues[w][k][1]]
    BY QueueFacts, Facts DEF Inv, InLine
  <2>2. done[c] <= accepted[c]
    BY DEF Inv, Quota
  <2>3. CASE i \in 1..Len(queues[w]) /\ queues'[w][i] = queues[w][i]
    <3>1. ASSUME NEW j \in 1..Len(queues'[w]), i < j, queues'[w][i][1] = queues'[w][j][1]
          PROVE  queues'[w][i][2] < queues'[w][j][2]
      <4>1. CASE j \in 1..Len(queues[w]) /\ queues'[w][j] = queues[w][j]
        BY <2>3, <3>1, <4>1 DEF Inv, InLine
      <4>2. CASE queues'[w][j] = e
        BY <1>1, <1>2, <2>1, <2>3, <3>1, <4>2
      <4> QED
        BY <1>9, <4>1, <4>2
    <3> QED
      BY <1>8, <2>1, <2>3, <3>1
  <2>4. CASE w = v /\ i = Len(queues[v]) + 1 /\ queues'[w][i] = e
    BY <1>1, <1>2, <1>4, <1>5, <1>8, <2>2, <2>4 DEF v
  <2> QED
    BY <1>9, <2>3, <2>4
<1>13. InCallback'
  <2> SUFFICES ASSUME NEW w \in Workers, Busy(w)
               PROVE  /\ WorkerOf(worker[w].event[1]) = w
                      /\ worker[w].event[2] = done[worker[w].event[1]] + 1
                      /\ worker[w].event[2] <= accepted'[worker[w].event[1]]
                      /\ \A i \in 1..Len(queues'[w]) :
                           queues'[w][i][1] = worker[w].event[1]
                             => worker[w].event[2] < queues'[w][i][2]
    BY DEF InCallback, WorkerOf, Busy
  <2>1. /\ WorkerOf(worker[w].event[1]) = w
        /\ worker[w].event[1] \in Connections /\ worker[w].event[2] \in Nat
        /\ worker[w].event[2] = done[worker[w].event[1]] + 1
        /\ worker[w].event[2] <= accepted[worker[w].event[1]]
    BY BusyFacts, Facts DEF Inv, InCallback
  <2>2. ASSUME NEW i \in 1..Len(queues'[w]), queues'[w][i][1] = worker[w].event[1]
        PROVE  worker[w].event[2] < queues'[w][i][2]
    <3>1. CASE i \in 1..Len(queues[w]) /\ queues'[w][i] = queues[w][i]
      BY <2>2, <3>1 DEF Inv, InCallback
    <3>2. CASE queues'[w][i] = e
      <4>1. worker[w].event[1] = c /\ queues'[w][i][2] = accepted[c] + 1
        BY <1>2, <2>2, <3>2
      <4> QED
        BY ONLY <1>1, <2>1, <4>1
    <3> QED
      BY <1>9, <3>1, <3>2
  <2> QED
    BY <1>8, <2>1, <2>2
<1>14. NoneLost'
  <2> SUFFICES ASSUME NEW d \in Connections, NEW n \in 1..Submissions,
                      done[d] < n, n <= accepted'[d]
               PROVE  Waiting(d, n)'
    BY DEF NoneLost
  <2>1. CASE n <= accepted[d]
    <3>1. Waiting(d, n)
      BY <2>1 DEF Inv, NoneLost
    <3>2. WorkerOf(d) \in Workers
      BY Facts
    <3>3. \A i \in 1..Len(queues[WorkerOf(d)]) :
            /\ i \in 1..Len(queues'[WorkerOf(d)])
            /\ queues'[WorkerOf(d)][i] = queues[WorkerOf(d)][i]
      BY <1>4, <1>5, <1>6, <3>2
    <3> QED
      BY <3>1, <3>3 DEF Waiting, WorkerOf, Busy
  <2>2. CASE d = c /\ n = accepted[c] + 1
    <3>1. Len(queues[v]) + 1 \in 1..Len(queues'[v]) /\ queues'[v][Len(queues[v]) + 1] = <<d, n>>
      BY <1>4, <1>5, <2>2 DEF e
    <3> QED
      BY <2>2, <3>1 DEF Waiting, WorkerOf, v
  <2> QED
    BY <1>1, <1>8, <2>1, <2>2, Facts
<1> QED
  BY <1>6, <1>7, <1>8, <1>11, <1>12, <1>13, <1>14 DEF Line, v

\* A worker takes the head of its line: it is the next event of its connection.
LEMMA TakeStep ==
  ASSUME Inv, NEW w \in Workers, queues[w] # <<>>, ~Busy(w),
         NEW to \in {"callback", "last_callback"},
         queues' = [queues EXCEPT ![w] = Tail(@)],
         worker' = [worker EXCEPT ![w] = [pc |-> to, event |-> Head(queues[w])]],
         UNCHANGED <<accepted, done>>
  PROVE  /\ Line'
         /\ queues' \in [Workers -> Seq(Event)]
         /\ Head(queues[w]) \in Event
<1>1. /\ queues \in [Workers -> Seq(Event)] /\ accepted \in [Connections -> Nat]
      /\ done \in [Connections -> Nat] /\ queues[w] \in Seq(Event) /\ Len(queues[w]) \in Nat
      /\ worker'[w] = [pc |-> to, event |-> Head(queues[w])]
      /\ \A x \in Workers \ {w} : worker'[x] = worker[x] /\ queues'[x] = queues[x]
      /\ queues'[w] = Tail(queues[w])
  BY QueueFacts DEF Inv, Typed
<1>2. /\ Head(queues[w]) = queues[w][1] /\ 1 \in 1..Len(queues[w])
      /\ Head(queues[w]) \in Event /\ Tail(queues[w]) \in Seq(Event)
      /\ Len(queues'[w]) = Len(queues[w]) - 1
      /\ \A i \in 1..Len(queues'[w]) : queues'[w][i] = queues[w][i + 1]
  BY <1>1, HeadTailProperties, EmptySeq
<1>3. \A i \in 1..Len(queues'[w]) : i + 1 \in 2..Len(queues[w])
  BY <1>1, <1>2
<1>4. queues' \in [Workers -> Seq(Event)]
  BY <1>1, <1>2
<1> DEFINE c == queues[w][1][1]
           n == queues[w][1][2]
<1>5. /\ c \in Connections /\ n \in 1..Submissions /\ n \in Nat
      /\ queues[w][1] = <<c, n>>
      /\ WorkerOf(c) = w /\ done[c] < n /\ n <= accepted[c]
      /\ done[c] \in Nat /\ accepted[c] \in Nat
  <2>1. c \in Connections /\ n \in 1..Submissions /\ queues[w][1] = <<c, n>>
    BY <1>2 DEF Event
  <2>2. WorkerOf(c) = w /\ done[c] < n /\ n <= accepted[c]
    BY <1>2 DEF Inv, InLine
  <2>3. done[c] \in Nat /\ accepted[c] \in Nat
    BY <1>1, <2>1
  <2> HIDE DEF c, n
  <2> QED
    BY <2>1, <2>2, <2>3, Facts
<1>6. n = done[c] + 1
  <2>1. done[c] + 1 \in 1..Submissions /\ done[c] + 1 <= accepted[c]
    BY <1>5, Facts
  <2>2. Waiting(c, done[c] + 1)
    BY <1>5, <2>1 DEF Inv, NoneLost
  <2>3. PICK i \in 1..Len(queues[w]) : queues[w][i] = <<c, done[c] + 1>>
    BY <1>5, <2>2 DEF Waiting
  <2>4. CASE i = 1
    BY <1>5, <2>3, <2>4
  <2>5. CASE i > 1
    BY <1>2, <1>5, <2>3, <2>5 DEF Inv, InLine
  <2> QED
    BY <1>1, <2>4, <2>5
<1>7. /\ worker'[w].event = queues[w][1] /\ worker'[w].pc = to
  BY <1>1, <1>2
<1>8. Bounded'
  BY <1>1, <1>2, Facts DEF Inv, Bounded
<1>9. InLine'
  <2> SUFFICES ASSUME NEW x \in Workers, NEW i \in 1..Len(queues'[x])
               PROVE  /\ WorkerOf(queues'[x][i][1]) = x
                      /\ done[queues'[x][i][1]] < queues'[x][i][2]
                      /\ queues'[x][i][2] <= accepted[queues'[x][i][1]]
                      /\ \A j \in 1..Len(queues'[x]) :
                           (i < j /\ queues'[x][i][1] = queues'[x][j][1])
                              => queues'[x][i][2] < queues'[x][j][2]
    BY DEF InLine, WorkerOf
  <2>1. CASE x = w
    <3>1. i + 1 \in 1..Len(queues[w]) /\ queues'[w][i] = queues[w][i + 1]
      BY <1>1, <1>2, <1>3, <2>1
    <3>2. \A j \in 1..Len(queues'[w]) :
             j + 1 \in 1..Len(queues[w]) /\ queues'[w][j] = queues[w][j + 1] /\ (i < j => i + 1 < j + 1)
      BY <1>1, <1>2, <1>3
    <3> QED
      BY <2>1, <3>1, <3>2 DEF Inv, InLine
  <2>2. CASE x # w
    BY <1>1, <2>2 DEF Inv, InLine
  <2> QED
    BY <2>1, <2>2
<1>10. InCallback'
  <2> SUFFICES ASSUME NEW x \in Workers, Busy(x)'
               PROVE  /\ WorkerOf(worker'[x].event[1]) = x
                      /\ worker'[x].event[2] = done[worker'[x].event[1]] + 1
                      /\ worker'[x].event[2] <= accepted[worker'[x].event[1]]
                      /\ \A i \in 1..Len(queues'[x]) :
                           queues'[x][i][1] = worker'[x].event[1]
                             => worker'[x].event[2] < queues'[x][i][2]
    BY DEF InCallback, WorkerOf
  <2>1. CASE x = w
    <3>1. ASSUME NEW i \in 1..Len(queues'[w]), queues'[w][i][1] = c
          PROVE  n < queues'[w][i][2]
      <4>1. i + 1 \in 1..Len(queues[w]) /\ 1 < i + 1 /\ queues'[w][i] = queues[w][i + 1]
        BY <1>1, <1>2, <1>3
      <4> QED
        BY <1>2, <3>1, <4>1 DEF Inv, InLine
    <3> QED
      BY <1>5, <1>6, <1>7, <2>1, <3>1
  <2>2. CASE x # w
    BY <1>1, <2>2 DEF Inv, InCallback, Busy
  <2> QED
    BY <2>1, <2>2
<1>11. NoneLost'
  <2> SUFFICES ASSUME NEW d \in Connections, NEW m \in 1..Submissions,
                      done[d] < m, m <= accepted[d]
               PROVE  Waiting(d, m)'
    BY DEF NoneLost
  <2>1. Waiting(d, m) /\ WorkerOf(d) \in Workers
    BY Facts DEF Inv, NoneLost
  <2>2. CASE WorkerOf(d) # w
    BY <1>1, <2>1, <2>2 DEF Waiting, WorkerOf, Busy
  <2>3. CASE WorkerOf(d) = w
    <3>1. PICK i \in 1..Len(queues[w]) : queues[w][i] = <<d, m>>
      BY <2>1, <2>3 DEF Waiting
    <3>2. CASE i = 1
      BY <1>7, <2>3, <3>1, <3>2 DEF Waiting, WorkerOf, Busy
    <3>3. CASE i # 1
      <4>1. i - 1 \in 1..Len(queues'[w]) /\ queues'[w][i - 1] = <<d, m>>
        BY <1>1, <1>2, <3>1, <3>3
      <4> QED
        BY <2>3, <4>1 DEF Waiting, WorkerOf
    <3> QED
      BY <3>2, <3>3
  <2> QED
    BY <2>2, <2>3
<1> QED
  BY <1>2, <1>4, <1>8, <1>9, <1>10, <1>11 DEF Line

\* A callback returns: its event is done, and the rest of the line still is not.
LEMMA ReturnStep ==
  ASSUME Inv, NEW w \in Workers, Busy(w),
         NEW to \in {"test", "drain"},
         worker' = [worker EXCEPT ![w] = At(to)],
         done' = [done EXCEPT ![worker[w].event[1]] = @ + 1],
         UNCHANGED <<queues, accepted>>
  PROVE  Line' /\ done' \in [Connections -> Nat]
<1> DEFINE c == worker[w].event[1]
<1>1. /\ accepted \in [Connections -> Nat] /\ done \in [Connections -> Nat]
      /\ worker'[w] = At(to)
      /\ \A x \in Workers \ {w} : worker'[x] = worker[x]
  BY DEF Inv, Typed
<1>2. /\ worker[w].event \in Event /\ c \in Connections
      /\ WorkerOf(c) = w /\ worker[w].event[2] = done[c] + 1
      /\ done[c] + 1 <= accepted[c]
      /\ \A i \in 1..Len(queues[w]) : queues[w][i][1] = c => done[c] + 1 < queues[w][i][2]
  BY BusyFacts DEF Inv, InCallback
<1> HIDE DEF c
<1>3. /\ done' \in [Connections -> Nat]
      /\ \A d \in Connections : done'[d] = IF d = c THEN done[c] + 1 ELSE done[d]
  BY <1>1, <1>2 DEF c
<1>4. ~Busy(w)'
  BY <1>1 DEF Busy, At
<1>5. Bounded'
  BY DEF Inv, Bounded
<1>6. InLine'
  <2> SUFFICES ASSUME NEW x \in Workers, NEW i \in 1..Len(queues[x])
               PROVE  done'[queues[x][i][1]] < queues[x][i][2]
    BY DEF InLine, Inv, WorkerOf
  <2>1. queues[x][i][1] \in Connections /\ WorkerOf(queues[x][i][1]) = x
        /\ done[queues[x][i][1]] < queues[x][i][2]
    BY QueueFacts DEF Inv, InLine
  <2> QED
    BY <1>2, <1>3, <2>1
<1>7. InCallback'
  <2> SUFFICES ASSUME NEW x \in Workers \ {w}, Busy(x)
               PROVE  worker[x].event[2] = done'[worker[x].event[1]] + 1
    BY <1>1, <1>4 DEF InCallback, Inv, WorkerOf, Busy
  <2>1. worker[x].event[1] \in Connections /\ WorkerOf(worker[x].event[1]) = x
        /\ worker[x].event[2] = done[worker[x].event[1]] + 1
    BY BusyFacts DEF Inv, InCallback
  <2> QED
    BY <1>2, <1>3, <2>1
<1>8. NoneLost'
  <2> SUFFICES ASSUME NEW d \in Connections, NEW n \in 1..Submissions,
                      done'[d] < n, n <= accepted[d]
               PROVE  Waiting(d, n)'
    BY DEF NoneLost
  <2>1. done[d] < n /\ (d = c => n # done[c] + 1)
    BY <1>1, <1>2, <1>3
  <2>2. Waiting(d, n) /\ WorkerOf(d) \in Workers
    BY <2>1, Facts DEF Inv, NoneLost
  <2>3. CASE WorkerOf(d) # w
    BY <1>1, <2>2, <2>3 DEF Waiting, WorkerOf, Busy
  <2>4. CASE WorkerOf(d) = w
    <3>1. worker[w].event # <<d, n>>
      BY <1>2, <2>1 DEF c
    <3> QED
      BY <2>2, <2>4, <3>1 DEF Waiting, WorkerOf
  <2> QED
    BY <2>3, <2>4
<1> QED
  BY <1>3, <1>5, <1>6, <1>7, <1>8 DEF Line

-----------------------------------------------------------------------------
(* Each operation preserves the invariant.                                 *)

\* The types that every step needs.
LEMMA InvTypes ==
  ASSUME Inv
  PROVE  /\ queues \in [Workers -> Seq(Event)] /\ stopped \in [Workers -> BOOLEAN]
         /\ accepted \in [Connections -> Nat] /\ done \in [Connections -> Nat]
         /\ tried \in [Connections -> Nat]
         /\ submit \in [Reactors -> [pc : {"idle", "enqueue"}, conn : Nat]]
BY DEF Inv, Typed

\* SubmitEvent counts the attempt and, in a running pool, goes on to Enqueue.
LEMMA SubmitEventStep ==
  ASSUME Inv, UNCHANGED server_order, NEW c \in Connections, SubmitEvent(c)
  PROVE  Inv'
<1>1. /\ tried' = [tried EXCEPT ![c] = @ + 1] /\ tried[c] < Submissions
      /\ submit[HomeOf[c]].pc = "idle"
      /\ submit' = [submit EXCEPT ![HomeOf[c]] =
                      IF is_running THEN [pc |-> "enqueue", conn |-> c] ELSE @]
      /\ server_order => owner.pc = "started"
      /\ UNCHANGED <<is_running, queues, stopped, worker, owner, accepted, done>>
  BY DEF SubmitEvent, MaySubmit
<1>2. HomeOf[c] \in Reactors /\ c \in Nat /\ Submissions \in Nat
  BY PoolAssumption
<1>3. Typed'
  <2>1. [pc |-> "enqueue", conn |-> c] \in [pc : {"idle", "enqueue"}, conn : Nat]
    BY <1>2
  <2>2. submit' \in [Reactors -> [pc : {"idle", "enqueue"}, conn : Nat]]
    BY <1>1, <1>2, <2>1, InvTypes
  <2>3. tried' \in [Connections -> Nat]
    BY <1>1, InvTypes
  <2>4. \A w \in Workers : Busy(w)' <=> Busy(w)
    BY <1>1 DEF Busy
  <2> QED
    BY <1>1, <2>2, <2>3, <2>4 DEF Inv, Typed
<1>4. Line'
  BY <1>1, LineKept DEF Busy
<1>5. Quota'
  <2>1. \A d \in Connections :
          /\ tried'[d] \in Nat /\ tried'[d] <= Submissions /\ tried[d] <= tried'[d]
          /\ d = c => tried'[d] = tried[d] + 1
    <3> TAKE d \in Connections
    <3>1. tried[d] \in Nat /\ tried[d] <= Submissions
      BY InvTypes DEF Inv, Quota
    <3>2. CASE d = c
      <4>1. tried'[d] = tried[d] + 1
        BY <1>1, <3>2, InvTypes
      <4> QED
        BY <1>1, <1>2, <3>1, <3>2, <4>1
    <3>3. CASE d # c
      <4>1. tried'[d] = tried[d]
        BY <1>1, <3>3, InvTypes
      <4> QED
        BY <3>1, <3>3, <4>1
    <3> QED
      BY <3>2, <3>3
  <2>2. \A d \in Connections : accepted'[d] <= tried'[d] /\ done'[d] <= accepted'[d]
    BY <1>1, <2>1, InvTypes DEF Inv, Quota
  <2>3. \A r \in Reactors : submit'[r].pc = "enqueue" =>
          /\ submit'[r].conn \in Connections /\ HomeOf[submit'[r].conn] = r
          /\ accepted[submit'[r].conn] < tried'[submit'[r].conn]
    <3> SUFFICES ASSUME NEW r \in Reactors, submit'[r].pc = "enqueue"
                 PROVE  /\ submit'[r].conn \in Connections /\ HomeOf[submit'[r].conn] = r
                        /\ accepted[submit'[r].conn] < tried'[submit'[r].conn]
      OBVIOUS
    <3>1. CASE r = HomeOf[c]
      <4>1. submit'[r].conn = c
        BY <1>1, <1>2, <3>1, InvTypes
      <4>2. accepted[c] <= tried[c] /\ accepted[c] \in Nat /\ tried[c] \in Nat
        BY InvTypes DEF Inv, Quota
      <4> QED
        BY <2>1, <3>1, <4>1, <4>2
    <3>2. CASE r # HomeOf[c]
      <4>1. submit'[r] = submit[r]
        BY <1>1, <1>2, <3>2, InvTypes
      <4>2. /\ submit[r].conn \in Connections /\ HomeOf[submit[r].conn] = r
            /\ accepted[submit[r].conn] < tried[submit[r].conn]
            /\ accepted[submit[r].conn] \in Nat /\ tried[submit[r].conn] \in Nat
        BY <4>1, InvTypes DEF Inv, Quota
      <4> QED
        BY <2>1, <4>1, <4>2
    <3> QED
      BY <3>1, <3>2
  <2> QED
    BY <1>1, <2>1, <2>2, <2>3 DEF Quota
<1>6. Phase'
  BY <1>1 DEF Inv, Phase
<1>7. Quiet'
  BY <1>1 DEF Inv, Quiet
<1> QED
  BY <1>3, <1>4, <1>5, <1>6, <1>7 DEF Inv, Line

\* The Enqueue of SubmitEvent: the event joins the line, or the queue is stopped.
LEMMA SubmitEnqueueStep ==
  ASSUME Inv, UNCHANGED server_order, NEW r \in Reactors, SubmitEnqueue(r)
  PROVE  Inv'
<1> DEFINE c == submit[r].conn
<1>1. /\ submit[r].pc = "enqueue"
      /\ submit' = [submit EXCEPT ![r] = [pc |-> "idle", conn |-> 0]]
      /\ UNCHANGED <<is_running, stopped, worker, owner, done, tried>>
      /\ \/ UNCHANGED <<queues, accepted>>
         \/ HasSpace(WorkerOf(c)) /\ Accept(c)
  BY DEF SubmitEnqueue
<1>2. /\ c \in Connections /\ HomeOf[c] = r
      /\ accepted[c] < tried[c] /\ tried[c] <= Submissions
      /\ accepted[c] \in Nat /\ tried[c] \in Nat /\ Submissions \in Nat
  BY <1>1, InvTypes, PoolAssumption DEF Inv, Quota
<1> HIDE DEF c
<1>3. submit' \in [Reactors -> [pc : {"idle", "enqueue"}, conn : Nat]]
  BY <1>1, InvTypes
<1>4. \A s \in Reactors : submit'[s].pc = "enqueue" => s # r /\ submit'[s] = submit[s]
  BY <1>1, InvTypes
<1>5. Phase'
  BY <1>1 DEF Inv, Phase
<1>6. CASE UNCHANGED <<queues, accepted>>
  <2>1. Typed'
    BY <1>1, <1>3, <1>6 DEF Inv, Typed, Busy
  <2>2. Line'
    BY <1>1, <1>6, LineKept DEF Busy
  <2>3. Quota'
    BY <1>1, <1>4, <1>6 DEF Inv, Quota
  <2>4. Quiet'
    BY <1>1, <1>4, <1>3, <1>6 DEF Inv, Quiet
  <2> QED
    BY <1>5, <2>1, <2>2, <2>3, <2>4 DEF Inv, Line
<1>7. CASE HasSpace(WorkerOf(c)) /\ Accept(c)
  <2>1. /\ Line' /\ queues' \in [Workers -> Seq(Event)]
        /\ accepted' \in [Connections -> Nat]
        /\ \A d \in Connections : accepted'[d] = IF d = c THEN accepted[c] + 1 ELSE accepted[d]
        /\ \A w \in Workers : w # WorkerOf(c) => queues'[w] = queues[w]
    BY <1>1, <1>2, <1>7, AcceptStep
  <2>2. Typed'
    BY <1>1, <1>3, <2>1 DEF Inv, Typed, Busy
  <2>3. Quota'
    <3>1. ASSUME NEW d \in Connections
          PROVE  accepted'[d] <= tried[d] /\ done[d] <= accepted'[d]
      <4>1. /\ accepted[d] \in Nat /\ tried[d] \in Nat /\ done[d] \in Nat
            /\ accepted[d] <= tried[d] /\ done[d] <= accepted[d]
        BY InvTypes DEF Inv, Quota
      <4> QED
        BY <1>2, <2>1, <4>1
    <3>2. \A s \in Reactors : submit'[s].pc = "enqueue" =>
            /\ submit[s].conn \in Connections /\ HomeOf[submit[s].conn] = s
            /\ submit[s].conn # c /\ submit'[s] = submit[s]
            /\ accepted[submit[s].conn] < tried[submit[s].conn]
      BY <1>2, <1>4 DEF Inv, Quota
    <3> QED
      BY <1>1, <2>1, <3>1, <3>2 DEF Inv, Quota
  <2>4. Quiet'
    <3>1. SUFFICES ASSUME server_order
                   PROVE  /\ owner.pc = "started"
                          /\ \A w \in Workers : worker[w].pc \notin {"none", "exited"}
      BY <1>1 DEF Quiet
    <3>2. owner.pc = "started"
      BY <1>1, <3>1 DEF Inv, Quiet
    <3> QED
      BY <3>2 DEF Inv, Phase
  <2> QED
    BY <1>5, <2>1, <2>2, <2>3, <2>4 DEF Inv, Line
<1> QED
  BY <1>1, <1>6, <1>7

\* TrySubmitEvent: both halves in one step, without the wait.
LEMMA TrySubmitEventStep ==
  ASSUME Inv, UNCHANGED server_order, NEW c \in Connections, TrySubmitEvent(c)
  PROVE  Inv'
<1>1. /\ tried' = [tried EXCEPT ![c] = @ + 1] /\ tried[c] < Submissions
      /\ submit[HomeOf[c]].pc = "idle"
      /\ server_order => owner.pc = "started"
      /\ UNCHANGED <<is_running, stopped, worker, submit, owner, done>>
      /\ \/ UNCHANGED <<queues, accepted>>
         \/ HasSpace(WorkerOf(c)) /\ Accept(c)
  BY DEF TrySubmitEvent, MaySubmit
<1>2. /\ accepted[c] <= tried[c] /\ accepted[c] < Submissions
      /\ accepted[c] \in Nat /\ tried[c] \in Nat /\ Submissions \in Nat
  BY <1>1, InvTypes, PoolAssumption DEF Inv, Quota
<1>3. /\ tried' \in [Connections -> Nat]
      /\ \A d \in Connections : tried'[d] = IF d = c THEN tried[c] + 1 ELSE tried[d]
  BY <1>1, InvTypes
<1>4. Phase'
  BY <1>1 DEF Inv, Phase
<1>5. CASE UNCHANGED <<queues, accepted>>
  <2>1. Typed'
    BY <1>1, <1>3, <1>5 DEF Inv, Typed, Busy
  <2>2. Line'
    BY <1>1, <1>5, LineKept DEF Busy
  <2>3. Quota'
    <3>1. \A d \in Connections :
            /\ accepted[d] \in Nat /\ tried'[d] \in Nat /\ accepted[d] <= tried'[d]
            /\ tried'[d] <= Submissions
            /\ accepted[d] < tried[d] => accepted[d] < tried'[d]
      BY <1>1, <1>2, <1>3, InvTypes DEF Inv, Quota
    <3> QED
      BY <1>1, <1>5, <3>1 DEF Inv, Quota
  <2>4. Quiet'
    BY <1>1, <1>5 DEF Inv, Quiet
  <2> QED
    BY <1>4, <2>1, <2>2, <2>3, <2>4 DEF Inv, Line
<1>6. CASE HasSpace(WorkerOf(c)) /\ Accept(c)
  <2>1. /\ Line' /\ queues' \in [Workers -> Seq(Event)]
        /\ accepted' \in [Connections -> Nat]
        /\ \A d \in Connections : accepted'[d] = IF d = c THEN accepted[c] + 1 ELSE accepted[d]
    BY <1>1, <1>2, <1>6, AcceptStep
  <2>2. Typed'
    BY <1>1, <1>3, <2>1 DEF Inv, Typed, Busy
  <2>3. Quota'
    <3>1. \A d \in Connections :
            /\ accepted'[d] <= tried'[d] /\ tried'[d] <= Submissions /\ done[d] <= accepted'[d]
            /\ accepted[d] < tried[d] => accepted'[d] < tried'[d]
      BY <1>1, <1>2, <1>3, <2>1, InvTypes DEF Inv, Quota
    <3> QED
      BY <1>1, <3>1 DEF Inv, Quota
  <2>4. Quiet'
    BY <1>1 DEF Inv, Quiet, Phase
  <2> QED
    BY <1>4, <2>1, <2>2, <2>3, <2>4 DEF Inv, Line
<1> QED
  BY <1>1, <1>5, <1>6

\* The loop test, the empty wait and the end of the drain move one worker and
\* touch no event.
LEMMA IdleMoveStep ==
  ASSUME Inv, UNCHANGED server_order, NEW w \in Workers,
         worker[w].pc \in {"none", "test", "wait", "drain"},
         NEW to \in {"test", "wait", "drain", "exited"},
         Move(w, At(to)),
         to = "drain" => ~is_running /\ owner.pc # "idle",
         to = "exited" => worker[w].pc = "drain" /\ queues[w] = <<>>,
         \/ worker[w].pc # "none" /\ owner' = owner
         \/ /\ worker[w].pc = "none" /\ to = "test"
            /\ owner.pc = "starting" /\ w = owner.next
            /\ owner' = [pc |-> "starting", next |-> w + 1],
         UNCHANGED <<is_running, queues, stopped, submit, counters>>
  PROVE  Inv'
<1>1. /\ worker'[w] = At(to) /\ \A x \in Workers \ {w} : worker'[x] = worker[x]
      /\ worker' \in [Workers ->
                   [pc : {"none", "test", "wait", "callback", "drain", "last_callback", "exited"},
                    event : Event \cup {NoEvent}]]
      /\ UNCHANGED <<accepted, done, tried, starts>>
  BY DEF Inv, Typed, Move, At, counters
<1>2. ~Busy(w) /\ ~Busy(w)' /\ worker'[w].event = NoEvent /\ worker'[w].pc = to
  BY <1>1 DEF Busy, At
<1>3. \A x \in Workers : /\ Busy(x)' <=> Busy(x)
                         /\ Busy(x) => worker'[x].event = worker[x].event
  BY <1>1, <1>2 DEF Busy
<1>4. w \in Nat /\ w < WorkerCount /\ WorkerCount \in Nat /\ Workers \subseteq Nat
  BY Facts DEF Workers
<1>5. owner' \in [pc : {"idle", "starting", "started", "notifying", "joining"},
                  next : 0..WorkerCount] /\ owner'.pc = owner.pc
  BY <1>4 DEF Inv, Typed
<1>6. Typed'
  <2>1. ASSUME NEW x \in Workers PROVE Busy(x)' <=> worker'[x].event # NoEvent
    <3>1. CASE x = w
      BY <1>2, <3>1
    <3>2. CASE x # w
      BY <1>1, <3>2 DEF Inv, Typed, Busy
    <3> QED
      BY <3>1, <3>2
  <2> QED
    BY <1>1, <1>5, <2>1 DEF Inv, Typed
<1>7. Line'
  BY <1>1, <1>3, LineKept
<1>8. Quota'
  BY <1>1 DEF Inv, Quota
<1>9. Phase'
  <2>1. is_running' <=> owner'.pc \in {"starting", "started"}
    BY <1>5 DEF Inv, Phase
  <2>2. owner'.pc = "notifying" => owner'.next < WorkerCount
    BY <1>5 DEF Inv, Phase
  <2>3. ASSUME NEW x \in Workers
        PROVE  /\ owner'.pc = "idle" => worker'[x].pc = "none"
               /\ owner'.pc \in {"started", "notifying"} => worker'[x].pc # "none"
               /\ worker'[x].pc \in {"drain", "last_callback", "exited"} =>
                    owner'.pc \in {"notifying", "joining"}
    <3>1. CASE x = w
      <4>1. worker'[x].pc = to /\ to \notin {"none", "last_callback"} /\ owner'.pc = owner.pc
        BY <1>2, <1>5, <3>1
      <4>2. owner.pc # "idle"
        BY DEF Inv, Phase
      <4>3. to \in {"drain", "exited"} => owner.pc \in {"notifying", "joining"}
        BY <4>2 DEF Inv, Phase, Typed
      <4> QED
        BY <4>1, <4>2, <4>3
    <3>2. CASE x # w
      BY <1>1, <1>5, <3>2 DEF Inv, Phase
    <3> QED
      BY <3>1, <3>2
  <2>4. ASSUME NEW x \in Workers, owner'.pc = "starting"
        PROVE  worker'[x].pc = "none" <=> x >= owner'.next
    <3>1. /\ worker[x].pc = "none" <=> x >= owner.next
          /\ worker[w].pc = "none" <=> w >= owner.next
          /\ x \in Nat
      BY <1>4, <1>5, <2>4 DEF Inv, Phase
    <3>2. CASE worker[w].pc = "none"
      BY <1>1, <1>2, <1>4, <1>5, <2>4, <3>1, <3>2
    <3>3. CASE worker[w].pc # "none"
      BY <1>1, <1>2, <1>4, <1>5, <2>4, <3>1, <3>3
    <3> QED
      BY <3>2, <3>3
  <2> QED
    BY <2>1, <2>2, <2>3, <2>4 DEF Phase
<1>10. Quiet'
  BY <1>1, <1>2, <1>5 DEF Inv, Quiet
<1> QED
  BY <1>6, <1>7, <1>8, <1>9, <1>10 DEF Inv, Line

\* An event goes from the queue into a callback.
LEMMA TakeKeepsInv ==
  ASSUME Inv, UNCHANGED server_order, NEW w \in Workers,
         Take(w, "wait", "callback") \/ Take(w, "drain", "last_callback")
  PROVE  Inv'
<1>1. PICK from \in {"wait", "drain"} :
        Take(w, from, IF from = "wait" THEN "callback" ELSE "last_callback")
  BY DEF Take
<1> DEFINE to == IF from = "wait" THEN "callback" ELSE "last_callback"
<1>2. /\ worker[w].pc = from /\ queues[w] # <<>>
      /\ queues' = [queues EXCEPT ![w] = Tail(@)]
      /\ worker' = [worker EXCEPT ![w] = [pc |-> to, event |-> Head(queues[w])]]
      /\ UNCHANGED <<is_running, stopped, submit, owner, accepted, done, tried, starts>>
  BY <1>1 DEF Take, Move, counters
<1>3. ~Busy(w) /\ to \in {"callback", "last_callback"}
  BY <1>2 DEF Busy
<1>4. /\ from = "drain" <=> to = "last_callback"
      /\ from = "drain" => worker[w].pc = "drain"
      /\ from \notin {"none", "exited"}
  BY <1>2
<1> HIDE DEF to
<1>5. Line' /\ queues' \in [Workers -> Seq(Event)] /\ Head(queues[w]) \in Event
  BY <1>2, <1>3, TakeStep
<1>6. /\ worker'[w] = [pc |-> to, event |-> Head(queues[w])]
      /\ \A x \in Workers \ {w} : worker'[x] = worker[x] /\ queues'[x] = queues[x]
      /\ worker' \in [Workers ->
                   [pc : {"none", "test", "wait", "callback", "drain", "last_callback", "exited"},
                    event : Event \cup {NoEvent}]]
  BY <1>2, <1>3, <1>5 DEF Inv, Typed
<1>7. Typed'
  <2>1. ASSUME NEW x \in Workers PROVE Busy(x)' <=> worker'[x].event # NoEvent
    <3>1. CASE x = w
      BY <1>3, <1>5, <1>6, <3>1, Facts DEF Busy
    <3>2. CASE x # w
      BY <1>6, <3>2 DEF Inv, Typed, Busy
    <3> QED
      BY <3>1, <3>2
  <2> QED
    BY <1>2, <1>5, <1>6, <2>1 DEF Inv, Typed
<1>8. Quota'
  BY <1>2 DEF Inv, Quota
<1>9. Phase'
  <2>1. worker'[w].pc = to /\ worker[w].pc # "none" /\ to # "none"
    BY <1>2, <1>3, <1>4, <1>6
  <2>2. to = "last_callback" => owner.pc \in {"notifying", "joining"}
    BY <1>4 DEF Inv, Phase
  <2>3. owner.pc # "idle"
    BY <2>1 DEF Inv, Phase
  <2> QED
    BY <1>2, <1>3, <1>6, <2>1, <2>2, <2>3 DEF Inv, Phase
<1>10. Quiet'
  <2>1. worker'[w].pc \notin {"none", "exited"}
    BY <1>3, <1>6
  <2> QED
    BY <1>2, <1>6, <2>1 DEF Inv, Quiet
<1> QED
  BY <1>5, <1>7, <1>8, <1>9, <1>10 DEF Inv, Line

\* A callback returns.
LEMMA CallbackReturnsStep ==
  ASSUME Inv, UNCHANGED server_order, NEW w \in Workers, CallbackReturns(w)
  PROVE  Inv'
<1> DEFINE to == IF worker[w].pc = "callback" THEN "test" ELSE "drain"
           c == worker[w].event[1]
<1>1. /\ Busy(w) /\ to \in {"test", "drain"}
      /\ to = "drain" => worker[w].pc = "last_callback"
      /\ worker' = [worker EXCEPT ![w] = At(to)]
      /\ done' = [done EXCEPT ![c] = @ + 1]
      /\ UNCHANGED <<is_running, queues, stopped, submit, owner, accepted, tried, starts>>
  BY DEF CallbackReturns, Move, Busy
<1> HIDE DEF to
<1>2. Line' /\ done' \in [Connections -> Nat]
  BY <1>1, ReturnStep
<1>3. /\ worker'[w] = At(to) /\ \A x \in Workers \ {w} : worker'[x] = worker[x]
      /\ worker' \in [Workers ->
                   [pc : {"none", "test", "wait", "callback", "drain", "last_callback", "exited"},
                    event : Event \cup {NoEvent}]]
  BY <1>1 DEF Inv, Typed, At
<1>4. worker'[w].pc = to /\ worker'[w].event = NoEvent
  BY <1>3 DEF At
<1>5. Typed'
  <2>1. \A x \in Workers : Busy(x)' <=> worker'[x].event # NoEvent
    BY <1>1, <1>3, <1>4 DEF Inv, Typed, Busy
  <2> QED
    BY <1>1, <1>2, <1>3, <2>1 DEF Inv, Typed
<1>6. Quota'
  <2>1. /\ c \in Connections /\ done[c] + 1 <= accepted[c]
    BY <1>1, BusyFacts DEF Inv, InCallback
  <2>2. \A d \in Connections : done'[d] <= accepted[d]
    BY <1>1, <2>1, InvTypes DEF Inv, Quota
  <2> QED
    BY <1>1, <2>2 DEF Inv, Quota
<1>7. Phase'
  <2>1. /\ worker[w].pc # "none" /\ to # "none"
        /\ worker[w].pc = "last_callback" => owner.pc \in {"notifying", "joining"}
        /\ owner.pc # "idle"
    BY <1>1 DEF Inv, Phase, Busy
  <2> QED
    BY <1>1, <1>3, <1>4, <2>1 DEF Inv, Phase
<1>8. Quiet'
  BY <1>1, <1>3, <1>4 DEF Inv, Quiet
<1> QED
  BY <1>2, <1>5, <1>6, <1>7, <1>8 DEF Inv, Line

\* Whatever a worker does.
LEMMA WorkerStepKeepsInv ==
  ASSUME Inv, UNCHANGED server_order, NEW w \in Workers, WorkerStep(w)
  PROVE  Inv'
<1>1. CASE WorkerTest(w)
  <2>1. /\ worker[w].pc = "test"
        /\ UNCHANGED <<is_running, queues, stopped, submit, owner, counters>>
        /\ is_running => Move(w, At("wait"))
        /\ ~is_running => Move(w, At("drain"))
    BY <1>1 DEF WorkerTest
  <2>2. owner.pc # "idle"
    BY <2>1 DEF Inv, Phase
  <2>3. is_running \in BOOLEAN
    BY DEF Inv, Typed
  <2>4. CASE is_running
    BY <2>1, <2>4, IdleMoveStep
  <2>5. CASE ~is_running
    BY <2>1, <2>2, <2>5, IdleMoveStep
  <2> QED
    BY <2>4, <2>5
<1>2. CASE WorkerTakes(w)
  BY <1>2, TakeKeepsInv DEF WorkerTakes
<1>3. CASE WorkerGetsNothing(w)
  <2>1. /\ worker[w].pc = "wait" /\ Move(w, At("test"))
        /\ UNCHANGED <<is_running, queues, stopped, submit, owner, counters>>
    BY <1>3 DEF WorkerGetsNothing
  <2> QED
    BY <2>1, IdleMoveStep
<1>4. CASE DrainTakes(w)
  BY <1>4, TakeKeepsInv DEF DrainTakes
<1>5. CASE DrainEnds(w)
  <2>1. /\ worker[w].pc = "drain" /\ queues[w] = <<>> /\ Move(w, At("exited"))
        /\ UNCHANGED <<is_running, queues, stopped, submit, owner, counters>>
    BY <1>5 DEF DrainEnds
  <2> QED
    BY <2>1, IdleMoveStep
<1>6. CASE CallbackReturns(w)
  BY <1>6, CallbackReturnsStep
<1> QED
  BY <1>1, <1>2, <1>3, <1>4, <1>5, <1>6 DEF WorkerStep

\* The steps of the owner that change neither the workers nor the events.
LEMMA OwnerMoveStep ==
  ASSUME Inv, UNCHANGED server_order,
         UNCHANGED <<queues, worker, submit, accepted, done, tried>>,
         stopped' \in [Workers -> BOOLEAN], is_running' \in BOOLEAN,
         owner' \in [pc : {"idle", "starting", "started", "notifying", "joining"},
                     next : 0..WorkerCount],
         Phase',
         server_order /\ owner'.pc # "started" => \A r \in Reactors : submit[r].pc = "idle"
  PROVE  Inv'
<1>1. Typed'
  BY DEF Inv, Typed, Busy
<1>2. Line'
  BY LineKept DEF Busy
<1>3. Quota'
  BY DEF Inv, Quota
<1>4. Quiet'
  BY DEF Inv, Quiet
<1> QED
  BY <1>1, <1>2, <1>3, <1>4 DEF Inv, Line

\* Start and Stop, up to the joins.
LEMMA OwnerStepKeepsInv ==
  ASSUME Inv, UNCHANGED server_order,
         Start \/ SpawnFails \/ StartReturns \/ Stop \/ NotifyQueue
  PROVE  Inv'
<1>0. /\ WorkerCount \in Nat \ {0} /\ 0 \in 0..WorkerCount
      /\ Workers \subseteq Nat /\ \A w \in Workers : w < WorkerCount /\ w >= 0
      /\ stopped \in [Workers -> BOOLEAN] /\ is_running \in BOOLEAN
      /\ owner \in [pc : {"idle", "starting", "started", "notifying", "joining"},
                    next : 0..WorkerCount]
  BY Facts DEF Inv, Typed, Workers
<1>1. CASE Start
  <2>1. /\ owner.pc = "idle" /\ owner' = [pc |-> "starting", next |-> 0] /\ is_running' = TRUE
        /\ UNCHANGED <<queues, stopped, worker, submit, accepted, done, tried>>
    BY <1>1 DEF Start, Owner
  <2>2. Phase'
    BY <1>0, <2>1 DEF Inv, Phase
  <2>3. server_order => \A r \in Reactors : submit[r].pc = "idle"
    BY <2>1 DEF Inv, Quiet
  <2> QED
    BY <1>0, <2>1, <2>2, <2>3, OwnerMoveStep
<1>2. CASE SpawnFails
  <2>1. /\ owner.pc = "starting" /\ owner' = [pc |-> "joining", next |-> 0] /\ is_running' = FALSE
        /\ UNCHANGED <<queues, stopped, worker, submit, accepted, done, tried>>
    BY <1>2 DEF SpawnFails, Owner, counters
  <2>2. Phase'
    BY <1>0, <2>1 DEF Inv, Phase
  <2>3. server_order => \A r \in Reactors : submit[r].pc = "idle"
    BY <2>1 DEF Inv, Quiet
  <2> QED
    BY <1>0, <2>1, <2>2, <2>3, OwnerMoveStep
<1>3. CASE StartReturns
  <2>1. /\ owner.pc = "starting" /\ owner.next = WorkerCount
        /\ owner' = [pc |-> "started", next |-> 0]
        /\ UNCHANGED <<is_running, queues, stopped, worker, submit, accepted, done, tried>>
    BY <1>3 DEF StartReturns, Owner, counters
  <2>2. \A w \in Workers : worker[w].pc # "none" /\ ~(w >= owner.next)
    BY <1>0, <2>1 DEF Inv, Phase
  <2>3. Phase'
    BY <2>1, <2>2 DEF Inv, Phase
  <2> QED
    BY <1>0, <2>1, <2>3, OwnerMoveStep
<1>4. CASE Stop
  <2>1. /\ owner.pc = "started" /\ owner' = [pc |-> "notifying", next |-> 0] /\ is_running' = FALSE
        /\ server_order => \A r \in Reactors : submit[r].pc = "idle"
        /\ UNCHANGED <<queues, stopped, worker, submit, accepted, done, tried>>
    BY <1>4 DEF Stop, Owner, counters
  <2>2. Phase'
    BY <1>0, <2>1 DEF Inv, Phase
  <2> QED
    BY <1>0, <2>1, <2>2, OwnerMoveStep
<1>5. CASE NotifyQueue
  <2>1. /\ owner.pc = "notifying" /\ stopped' = [stopped EXCEPT ![owner.next] = TRUE]
        /\ \/ owner.next + 1 < WorkerCount /\ owner' = [pc |-> "notifying", next |-> owner.next + 1]
           \/ owner' = [pc |-> "joining", next |-> 0]
        /\ UNCHANGED <<is_running, queues, worker, submit, accepted, done, tried>>
    BY <1>5 DEF NotifyQueue, Owner, counters
  <2>2. /\ owner' \in [pc : {"idle", "starting", "started", "notifying", "joining"},
                       next : 0..WorkerCount]
        /\ owner'.pc \in {"notifying", "joining"}
        /\ owner'.pc = "notifying" => owner'.next < WorkerCount
        /\ stopped' \in [Workers -> BOOLEAN]
    <3>1. owner.next \in 0..WorkerCount
      BY <1>0
    <3>2. stopped' \in [Workers -> BOOLEAN]
      BY <1>0, <2>1
    <3>3. CASE owner.next + 1 < WorkerCount /\ owner' = [pc |-> "notifying", next |-> owner.next + 1]
      <4>1. owner.next + 1 \in 0..WorkerCount
        BY <1>0, <3>1, <3>3
      <4> QED
        BY <3>2, <3>3, <4>1
    <3>4. CASE owner' = [pc |-> "joining", next |-> 0]
      BY <1>0, <3>2, <3>4
    <3> QED
      BY <2>1, <3>3, <3>4
  <2>3. Phase'
    BY <2>1, <2>2 DEF Inv, Phase
  <2>4. server_order => \A r \in Reactors : submit[r].pc = "idle"
    BY <2>1 DEF Inv, Quiet
  <2> QED
    BY <1>0, <2>1, <2>2, <2>3, <2>4, OwnerMoveStep
<1> QED
  BY <1>1, <1>2, <1>3, <1>4, <1>5

\* Start creates the next thread.
LEMMA SpawnWorkerStep ==
  ASSUME Inv, UNCHANGED server_order, SpawnWorker
  PROVE  Inv'
<1> DEFINE w == owner.next
<1>1. /\ owner.pc = "starting" /\ w < WorkerCount /\ Move(w, At("test"))
      /\ owner' = [pc |-> "starting", next |-> w + 1]
      /\ UNCHANGED <<is_running, queues, stopped, submit, counters>>
  BY DEF SpawnWorker, Owner
<1>2. w \in Nat /\ w \in Workers /\ owner'.next = w + 1
  BY <1>1, Facts DEF Inv, Typed, Workers
<1>3. worker[w].pc = "none"
  BY <1>1, <1>2 DEF Inv, Phase
<1>4. owner' # owner
  BY <1>2
<1> HIDE DEF w
<1>5. w = owner.next
  BY DEF w
<1> QED
  BY <1>1, <1>2, <1>3, <1>4, <1>5, IdleMoveStep

\* The joins return: every worker is gone and its queue is empty.
LEMMA JoinAllStep ==
  ASSUME Inv, UNCHANGED server_order, JoinAll
  PROVE  Inv'
<1>1. /\ owner.pc = "joining" /\ owner' = [pc |-> "idle", next |-> 0]
      /\ \A w \in Workers : worker[w].pc \in {"none", "exited"}
      /\ worker' = [w \in Workers |-> At("none")]
      /\ UNCHANGED <<is_running, queues, stopped, submit, accepted, done, tried>>
  BY DEF JoinAll, Owner, counters
<1>2. \A w \in Workers : /\ ~Busy(w) /\ ~Busy(w)'
                         /\ worker'[w].pc = "none" /\ worker'[w].event = NoEvent
  BY <1>1 DEF Busy, At
<1>3. Typed'
  <2>1. worker' \in [Workers ->
                   [pc : {"none", "test", "wait", "callback", "drain", "last_callback", "exited"},
                    event : Event \cup {NoEvent}]]
    BY <1>1 DEF At
  <2> QED
    BY <1>1, <1>2, <2>1, Facts DEF Inv, Typed
<1>4. Line'
  BY <1>1, <1>2, LineKept
<1>5. Quota'
  BY <1>1 DEF Inv, Quota
<1>6. Phase'
  BY <1>1, <1>2 DEF Inv, Phase
<1>7. Quiet'
  BY <1>1, <1>2 DEF Inv, Quiet
<1> QED
  BY <1>3, <1>4, <1>5, <1>6, <1>7 DEF Inv, Line

-----------------------------------------------------------------------------
(* The theorems.                                                           *)

\* The pool starts in the invariant: no threads, empty queues.
LEMMA InitInv == Init => Inv
<1> SUFFICES ASSUME Init PROVE Inv
  OBVIOUS
<1> USE DEF Init
<1>0. WorkerCount \in Nat \ {0} /\ MaxQueueSize \in Nat /\ Submissions \in Nat
  BY Facts
<1>1. \A w \in Workers : /\ ~Busy(w) /\ worker[w].event = NoEvent /\ worker[w].pc = "none"
                         /\ queues[w] = <<>> /\ Len(queues[w]) = 0
  BY DEF Busy, At
<1>2. Typed
  <2>1. worker \in [Workers ->
                   [pc : {"none", "test", "wait", "callback", "drain", "last_callback", "exited"},
                    event : Event \cup {NoEvent}]]
    BY DEF At
  <2>2. queues \in [Workers -> Seq(Event)]
    BY EmptySeq
  <2>3. \A w \in Workers : Busy(w) <=> worker[w].event # NoEvent
    BY <1>1
  <2>4. /\ owner \in [pc : {"idle", "starting", "started", "notifying", "joining"},
                      next : 0..WorkerCount]
        /\ submit \in [Reactors -> [pc : {"idle", "enqueue"}, conn : Nat]]
    BY <1>0
  <2>5. stopped \in [Workers -> BOOLEAN] /\ is_running \in BOOLEAN /\ server_order \in BOOLEAN
    OBVIOUS
  <2>6. /\ accepted \in [Connections -> Nat] /\ done \in [Connections -> Nat]
        /\ tried \in [Connections -> Nat]
    OBVIOUS
  <2> QED
    BY <2>1, <2>2, <2>3, <2>4, <2>5, <2>6 DEF Typed
<1>3. Bounded /\ InLine /\ InCallback
  BY <1>0, <1>1 DEF Bounded, InLine, InCallback
<1>4. Quota /\ NoneLost
  BY <1>0 DEF Quota, NoneLost
<1>5. Phase /\ Quiet
  BY <1>0, <1>1 DEF Phase, Quiet
<1> QED
  BY <1>2, <1>3, <1>4, <1>5 DEF Inv

\* Every step keeps the invariant.
LEMMA NextInv == Inv /\ [Next]_vars => Inv'
<1>1. ASSUME Inv, UNCHANGED vars PROVE Inv'
  <2>1. UNCHANGED <<is_running, queues, stopped, worker, submit, owner, accepted, done, tried,
                    server_order>>
    BY <1>1 DEF vars
  <2>2. Phase' /\ stopped' \in [Workers -> BOOLEAN] /\ is_running' \in BOOLEAN
        /\ owner' \in [pc : {"idle", "starting", "started", "notifying", "joining"},
                       next : 0..WorkerCount]
    BY <1>1, <2>1 DEF Inv, Phase, Typed
  <2>3. server_order /\ owner'.pc # "started" => \A r \in Reactors : submit[r].pc = "idle"
    BY <1>1, <2>1 DEF Inv, Quiet
  <2> QED
    BY <1>1, <2>1, <2>2, <2>3, OwnerMoveStep
<1>2. ASSUME Inv, Next PROVE Inv'
  <2>0. UNCHANGED server_order
    BY <1>2 DEF Next
  <2>1. CASE \E c \in Connections : SubmitEvent(c) \/ TrySubmitEvent(c)
    BY <1>2, <2>0, <2>1, SubmitEventStep, TrySubmitEventStep
  <2>2. CASE \E r \in Reactors : SubmitEnqueue(r)
    BY <1>2, <2>0, <2>2, SubmitEnqueueStep
  <2>3. CASE \E w \in Workers : WorkerStep(w)
    BY <1>2, <2>0, <2>3, WorkerStepKeepsInv
  <2>4. CASE Start \/ Stop \/ OwnerStep
    BY <1>2, <2>0, <2>4, OwnerStepKeepsInv, SpawnWorkerStep, JoinAllStep DEF OwnerStep
  <2> QED
    BY <1>2, <2>1, <2>2, <2>3, <2>4 DEF Next
<1> QED
  BY <1>1, <1>2

\* The invariant holds always.
THEOREM Invariance == Spec => []Inv
BY InitInv, NextInv, PTL DEF Spec

\* The queues hold events of known connections, with numbers that were handed
\* out, and never more than max_queue_size_ of them (event_queues_, Enqueue); a
\* worker has an event exactly while it is in the user's callback.
THEOREM PoolTypes == Spec => []TypeOK
<1>1. Inv => TypeOK
  BY DEF Inv, Typed, Bounded, TypeOK, Event
<1> QED
  BY <1>1, Invariance, PTL

\* The callbacks of a connection run in the order SubmitEvent's Enqueue took its
\* events, one at a time and none skipped: WorkerOf sends all of them to one
\* queue, and one thread takes from it.  With any number of reactors, while the
\* pool drains in Stop and across restarts.
THEOREM CallbackOrder == Spec => []CallbacksInOrder
<1>1. Inv => CallbacksInOrder
  <2> SUFFICES ASSUME Inv, NEW w \in Workers, Busy(w)
               PROVE  done[worker[w].event[1]] = worker[w].event[2] - 1
    BY DEF CallbacksInOrder
  <2>1. worker[w].event[1] \in Connections
    BY BusyFacts DEF Inv
  <2>2. done[worker[w].event[1]] \in Nat
    BY <2>1, InvTypes
  <2> QED
    BY <2>2 DEF Inv, InCallback
<1> QED
  BY <1>1, Invariance, PTL

\* When Stop has returned, every event a queue took has been through its
\* callback: the drain of each worker empties its queue and no submitter of
\* Server or Client is left to fill it again.
THEOREM StopDrains == Spec => []StopLosesNothing
<1>1. Inv => StopLosesNothing
  <2> SUFFICES ASSUME Inv, server_order, owner.pc = "idle", NEW c \in Connections,
                      done[c] # accepted[c]
               PROVE  FALSE
    BY DEF StopLosesNothing
  <2>1. /\ done[c] \in Nat /\ accepted[c] \in Nat /\ done[c] <= accepted[c]
        /\ accepted[c] <= Submissions /\ Submissions \in Nat
    BY InvTypes, Facts DEF Inv, Quota
  <2>2. Waiting(c, accepted[c])
    BY <2>1 DEF Inv, NoneLost
  <2>3. WorkerOf(c) \in Workers
    BY Facts
  <2>4. worker[WorkerOf(c)].pc = "none"
    BY <2>3 DEF Inv, Phase
  <2>5. ~Busy(WorkerOf(c)) /\ queues[WorkerOf(c)] = <<>>
    BY <2>3, <2>4 DEF Inv, Quiet, Busy
  <2> QED
    BY <2>2, <2>5 DEF Waiting
<1> QED
  BY <1>1, Invariance, PTL

=============================================================================
