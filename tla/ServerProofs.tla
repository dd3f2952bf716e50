---------------------------- MODULE ServerProofs ----------------------------
(***************************************************************************)
(* The layers of Server rest on each other and its count of connections is *)
(* exact up to what Stop closed unseen, for any number of callers,         *)
(* reactors, clients and restarts; a single acceptor deals evenly over any *)
(* number of reactors until the first Stop.                                *)
(***************************************************************************)
EXTENDS Server, FiniteSetTheorems, SequenceTheorems, TLAPS

Id == Nat \X Fds \X Nat
Names == {"IPv4", "IPv6", "Unix"}
Starting == {"pool", "reactors", "listen"}
Stopping == {"stop acceptors", "stop reactors", "stop pool"}
Reactor == [running : BOOLEAN, adds : Seq(Fds), conns : SUBSET Id, seq : Nat \ {0}]
Acceptor == [running : BOOLEAN, thread : {"run", "ended"}, hand : Fds \cup {0}, next : Nat]
Event == [type : {"kConnected", "kDisconnected"}, id : Id]
Call == [pc : {"idle", "send"} \cup Starting \cup Stopping, todo : Seq(Names), ok : BOOLEAN,
         id : Id \cup {<<>>}]

\* The types of the parts of the state (the descriptors in open do not matter here).
Typed == /\ state \in {"kStopped", "kStarting", "kRunning", "kStopping"}
         /\ pool \in {"none", "up"}
         /\ events \in Seq(Event)
         /\ reactors \in Seq(Reactor)
         /\ acceptors \in [DOMAIN acceptors -> Acceptor] /\ DOMAIN acceptors \subseteq Names
         /\ call \in [Callers \cup {Sender} -> Call]
         /\ active \in Int
         /\ issued \in Seq(Id)
         /\ unseen \in Nat
         /\ left \in [starts : 0..MaxStarts, clients : Nat, sends : Nat]

\* state_ lets one caller at a time into Start or Stop, and says which of the two.
Turns == /\ \A t \in Callers : /\ call[t].pc \in Starting => state = "kStarting"
                               /\ call[t].pc \in Stopping => state = "kStopping"
                               /\ call[t].pc # "send"
         /\ \A t, u \in Callers : (call[t].pc # "idle" /\ call[u].pc # "idle") => t = u

Full == Len(reactors) = ReactorCount /\ \A i \in 1..Len(reactors) : reactors[i].running

\* What stands at each point of Start and Stop, and what a failed Start leaves.
Layers == /\ reactors = <<>> \/ (Len(reactors) = ReactorCount /\ pool = "up")
          /\ events # <<>> => pool = "up"
          /\ DOMAIN acceptors # {} => Full
          /\ state \in {"kStopped", "kStarting", "kRunning"} =>
               \A i \in 1..Len(reactors) : reactors[i].running
          /\ state = "kStopped" => DOMAIN acceptors = {}
          /\ state = "kRunning" => Full
          /\ \A t \in Callers :
               /\ call[t].pc = "pool" => DOMAIN acceptors = {}
               /\ call[t].pc = "reactors" => DOMAIN acceptors = {} /\ pool = "up"
               /\ call[t].pc = "listen" => Full /\ (~call[t].ok => DOMAIN acceptors = {})
               /\ call[t].pc = "stop acceptors" => Full
               /\ call[t].pc = "stop reactors" => DOMAIN acceptors = {}
               /\ call[t].pc = "stop pool" => DOMAIN acceptors = {} /\ reactors = <<>>

\* The acceptors still to be started are not there yet, each comes once.
Pending == \A t \in Callers : call[t].pc \in Starting =>
             \A a \in 1..Len(call[t].todo) :
               /\ call[t].todo[a] \notin DOMAIN acceptors
               /\ \A b \in 1..Len(call[t].todo) : call[t].todo[a] = call[t].todo[b] => a = b

\* The identifiers in the table of a reactor are its own, each with a number that
\* was handed out; a stopped reactor has none.
Owned == \A i \in 1..Len(reactors) :
           /\ ~reactors[i].running => reactors[i].conns = {}
           /\ \A id \in reactors[i].conns : id[1] = i /\ id[3] < reactors[i].seq

All == UNION {reactors[i].conns : i \in DOMAIN reactors}
Of(type) == {k \in 1..Len(events) : events[k].type = type}
\* The count that is reached when the waiting events have been handled.
Balance == active + Cardinality(Of("kConnected")) - Cardinality(Of("kDisconnected"))

Fresh == left.starts = MaxStarts
First == left.starts = MaxStarts - 1 /\ state \in {"kStarting", "kRunning"}

\* Only a Stop makes the two differ, by what it closed.
Balanced == IsFiniteSet(All) /\ Balance = Cardinality(All) + unseen

\* Nothing has been dealt before there is an acceptor.
Untouched == \A i \in 1..Len(reactors) : reactors[i].adds = <<>> /\ reactors[i].seq = 1
Even(m) == \E q \in Nat : \A i \in 1..Len(reactors) : Got(i) = IF i <= m THEN q + 1 ELSE q

\* The first m reactors are one ahead, and the next one is the (m+1)-th.
Dealt == /\ Fresh => state = "kStopped" /\ reactors = <<>>
         /\ First => /\ DOMAIN acceptors = {} => Untouched
                     /\ \A p \in Names : DOMAIN acceptors = {p} =>
                          Even(acceptors[p].next % ReactorCount)

\* The inductive invariant.
Inv == Typed /\ Turns /\ Layers /\ Pending /\ Owned /\ Balanced /\ Dealt

-----------------------------------------------------------------------------
(* Facts of the parts of the state.                                        *)

\* The list of reactors, by index.
LEMMA ReactorFacts ==
  ASSUME Typed
  PROVE  /\ DOMAIN reactors = 1..Len(reactors) /\ Len(reactors) \in Nat
         /\ \A i \in 1..Len(reactors) :
              /\ reactors[i] \in Reactor /\ reactors[i].running \in BOOLEAN
              /\ reactors[i].adds \in Seq(Fds) /\ reactors[i].conns \subseteq Id
              /\ reactors[i].seq \in Nat \ {0} /\ Len(reactors[i].adds) \in Nat
<1>1. reactors \in Seq(Reactor)
  BY DEF Typed
<1>2. DOMAIN reactors = 1..Len(reactors) /\ Len(reactors) \in Nat
  BY <1>1, LenProperties
<1>3. \A i \in 1..Len(reactors) : reactors[i] \in Reactor
  BY <1>1, ElementOfSeq
<1> QED
  BY <1>2, <1>3, LenProperties DEF Reactor

\* There are reactors when there is one with a number.
LEMMA NotEmpty ==
  ASSUME NEW i \in 1..Len(reactors), Len(reactors) \in Nat
  PROVE  reactors # <<>>
<1>1. Len(reactors) # 0
  OBVIOUS
<1> QED
  BY <1>1

\* One reactor changes.
LEMMA SetReactor ==
  ASSUME Typed, NEW i \in 1..Len(reactors), NEW r \in Reactor,
         reactors' = [reactors EXCEPT ![i] = r]
  PROVE  /\ reactors' \in Seq(Reactor) /\ Len(reactors') = Len(reactors)
         /\ DOMAIN reactors' = 1..Len(reactors)
         /\ reactors'[i] = r
         /\ \A j \in 1..Len(reactors) : j # i => reactors'[j] = reactors[j]
<1>1. reactors \in Seq(Reactor)
  BY DEF Typed
<1>2. /\ reactors' \in Seq(Reactor) /\ Len(reactors') = Len(reactors)
      /\ \A j \in 1..Len(reactors) : reactors'[j] = IF j = i THEN r ELSE reactors[j]
  BY <1>1, ExceptSeq
<1> QED
  BY <1>2, LenProperties

\* The waiting events of each kind are finitely many.
LEMMA EventFacts ==
  ASSUME events \in Seq(Event), NEW type
  PROVE  /\ Len(events) \in Nat /\ IsFiniteSet(Of(type)) /\ Cardinality(Of(type)) \in Nat
         /\ \A k \in 1..Len(events) : events[k] \in Event
<1>1. Len(events) \in Nat /\ \A k \in 1..Len(events) : events[k] \in Event
  BY LenProperties, ElementOfSeq
<1>2. IsFiniteSet(1..Len(events))
  BY <1>1, FS_Interval
<1>3. Of(type) \subseteq 1..Len(events)
  BY DEF Of
<1> QED
  BY <1>1, <1>2, <1>3, FS_Subset, FS_CardinalityType

\* The balance is a number.
LEMMA BalanceType ==
  ASSUME Typed
  PROVE  Balance \in Int
<1>1. active \in Int /\ events \in Seq(Event)
  BY DEF Typed
<1>2. Cardinality(Of("kConnected")) \in Nat
  BY <1>1, EventFacts
<1>3. Cardinality(Of("kDisconnected")) \in Nat
  BY <1>1, EventFacts
<1> QED
  BY <1>1, <1>2, <1>3 DEF Balance

\* A submitted event adds one to its kind.
LEMMA AppendEvent ==
  ASSUME events \in Seq(Event), NEW e \in Event, events' = Append(events, e)
  PROVE  /\ events' \in Seq(Event) /\ events' # <<>>
         /\ \A type : Cardinality(Of(type)') =
                        Cardinality(Of(type)) + IF e.type = type THEN 1 ELSE 0
<1>1. /\ events' \in Seq(Event) /\ events' # <<>> /\ Len(events') = Len(events) + 1
      /\ \A k \in 1..Len(events) : events'[k] = events[k]
      /\ events'[Len(events) + 1] = e
  BY AppendProperties
<1>2. ASSUME NEW type
      PROVE  Cardinality(Of(type)') = Cardinality(Of(type)) + IF e.type = type THEN 1 ELSE 0
  <2>1. IsFiniteSet(Of(type)) /\ Cardinality(Of(type)) \in Nat /\ Len(events) \in Nat
    BY EventFacts
  <2>2. CASE e.type = type
    <3>1. Of(type)' = Of(type) \cup {Len(events) + 1} /\ Len(events) + 1 \notin Of(type)
      BY <1>1, <2>1, <2>2 DEF Of
    <3> QED
      BY <2>1, <2>2, <3>1, FS_AddElement
  <2>3. CASE e.type # type
    <3>1. Of(type)' = Of(type)
      BY <1>1, <2>1, <2>3 DEF Of
    <3> QED
      BY <2>1, <2>3, <3>1
  <2> QED
    BY <2>2, <2>3
<1> QED
  BY <1>1, <1>2

\* A handled event takes one from its kind; the others move up by one.
LEMMA TailEvent ==
  ASSUME events \in Seq(Event), events # <<>>, events' = Tail(events)
  PROVE  /\ events' \in Seq(Event) /\ Head(events) \in Event
         /\ \A type : Cardinality(Of(type)') =
                        Cardinality(Of(type)) - IF Head(events).type = type THEN 1 ELSE 0
<1>1. /\ events' \in Seq(Event) /\ Head(events) \in Event /\ Head(events) = events[1]
      /\ Len(events) \in Nat /\ 1 \in 1..Len(events)
      /\ Len(events') = Len(events) - 1
      /\ \A k \in 1..Len(events') : events'[k] = events[k + 1]
  BY HeadTailProperties, EmptySeq, LenProperties
<1>2. ASSUME NEW type
      PROVE  Cardinality(Of(type)') =
               Cardinality(Of(type)) - IF Head(events).type = type THEN 1 ELSE 0
  <2> DEFINE S == Of(type) \ {1}
             f == [k \in S |-> k - 1]
  <2>1. IsFiniteSet(Of(type)) /\ Cardinality(Of(type)) \in Nat
    BY EventFacts
  <2>2. /\ IsFiniteSet(S)
        /\ Cardinality(S) = Cardinality(Of(type)) - IF Head(events).type = type THEN 1 ELSE 0
    <3>1. 1 \in Of(type) <=> Head(events).type = type
      BY <1>1 DEF Of
    <3> QED
      BY <2>1, <3>1, FS_RemoveElement
  <2>3. f \in Bijection(S, Of(type)')
    <3>1. \A k \in S : k \in Nat /\ k - 1 \in Of(type)'
      BY <1>1 DEF Of
    <3>2. \A j \in Of(type)' : j \in Nat /\ j + 1 \in S
      BY <1>1 DEF Of
    <3>3. f \in [S -> Of(type)']
      BY <3>1
    <3>4. \A a, b \in S : f[a] = f[b] => a = b
      BY <3>1
    <3>5. \A j \in Of(type)' : \E k \in S : f[k] = j
      <4> TAKE j \in Of(type)'
      <4>1. j + 1 \in S /\ f[j + 1] = j
        BY <3>2
      <4> QED
        BY <4>1
    <3> QED
      BY <3>3, <3>4, <3>5 DEF Bijection, Injection, Surjection, IsInjective
  <2>4. ExistsBijection(S, Of(type)')
    BY <2>3 DEF ExistsBijection
  <2> QED
    BY <2>2, <2>4, FS_Bijection
<1> QED
  BY <1>1, <1>2

\* The connections of all reactors together, when the table of one changes.
LEMMA AllFacts ==
  ASSUME Typed
  PROVE  \A id : id \in All <=> \E i \in 1..Len(reactors) : id \in reactors[i].conns
BY ReactorFacts DEF All

\* What Balanced needs of a step that submits and handles no event.
LEMMA StillBalanced ==
  ASSUME Inv, UNCHANGED <<events, active, unseen>>, All' = All
  PROVE  Balanced'
<1>1. Balance' = Balance
  BY DEF Balance, Of
<1> QED
  BY <1>1 DEF Inv, Balanced

\* What Dealt needs of a step that gives no connection away.
LEMMA StillDealt ==
  ASSUME Inv, UNCHANGED reactors, Fresh' => Fresh /\ state' = state, First' => First,
         First' => /\ DOMAIN acceptors' = DOMAIN acceptors
                   /\ \A p \in DOMAIN acceptors : acceptors'[p].next = acceptors[p].next
  PROVE  Dealt'
<1>1. Untouched' <=> Untouched
  BY DEF Untouched
<1>2. ASSUME First', NEW p \in Names, DOMAIN acceptors' = {p}
      PROVE  Even(acceptors[p].next % ReactorCount)'
  <2>1. First /\ DOMAIN acceptors = {p} /\ acceptors'[p].next = acceptors[p].next
    BY <1>2
  <2>2. Even(acceptors[p].next % ReactorCount)
    BY <2>1 DEF Inv, Dealt
  <2> QED
    BY <2>1, <2>2 DEF Even, Got
<1>3. ASSUME First', DOMAIN acceptors' = {} PROVE Untouched'
  BY <1>1, <1>3 DEF Inv, Dealt
<1>4. Fresh' => (state = "kStopped" /\ reactors = <<>>)'
  BY DEF Inv, Dealt
<1> QED
  BY <1>2, <1>3, <1>4 DEF Dealt

-----------------------------------------------------------------------------
(* Start                                                                   *)

\* A step of a caller changes the record of that caller only.
LEMMA SetCall ==
  ASSUME Typed, NEW t \in Callers, NEW c \in Call, call' = [call EXCEPT ![t] = c]
  PROVE  /\ call' \in [Callers \cup {Sender} -> Call]
         /\ call'[t] = c
         /\ \A u \in Callers : u # t => call'[u] = call[u]
         /\ call[t] \in Call /\ \A u \in Callers : call[u] \in Call
BY DEF Typed

\* Idle is a record of a call.
LEMMA IdleIsCall == Idle \in Call /\ Idle.pc = "idle"
<1>1. <<>> \in Seq(Names)
  BY EmptySeq
<1> QED
  BY <1>1 DEF Idle, Call

\* What a Start... method has to listen on: known protocols, each once.
LEMMA ProtocolFacts ==
  ASSUME NEW m \in Starts
  PROVE  /\ Protocols[m] \in Seq(Names)
         /\ \A a, b \in 1..Len(Protocols[m]) : Protocols[m][a] = Protocols[m][b] => a = b
<1>1. m \in {"StartIPv4", "StartIPv6", "StartUniversalIP", "StartUnixDomain"}
  BY StartsAssumption DEF Protocols
<1>2. Protocols[m] \in {<<"IPv4">>, <<"IPv6">>, <<"IPv4", "IPv6">>, <<"Unix">>}
  BY <1>1 DEF Protocols
<1>3. ASSUME NEW x \in Names, Protocols[m] = <<x>>
      PROVE  /\ Protocols[m] \in Seq(Names)
             /\ \A a, b \in 1..Len(Protocols[m]) : Protocols[m][a] = Protocols[m][b] => a = b
  BY <1>3
<1>4. CASE Protocols[m] = <<"IPv4", "IPv6">>
  BY <1>4 DEF Names
<1> QED
  BY <1>2, <1>3, <1>4 DEF Names

\* A stopped server: every caller is outside Start and Stop.
LEMMA NobodyInside ==
  ASSUME Inv, state \in {"kStopped", "kRunning"}, NEW t \in Callers
  PROVE  call[t].pc = "idle"
<1>1. call[t] \in Call
  BY DEF Inv, Typed
<1> QED
  BY <1>1 DEF Inv, Turns, Call

\* StartInternal takes state_ to kStarting.
LEMMA StartInternalStep ==
  ASSUME Inv, NEW t \in Callers, StartInternal(t)
  PROVE  Inv'
<1>1. PICK m \in Starts : call' = [call EXCEPT ![t] = [Idle EXCEPT !.pc = "pool", !.todo = Protocols[m]]]
  BY DEF StartInternal
<1> DEFINE c == [Idle EXCEPT !.pc = "pool", !.todo = Protocols[m]]
<1>2. c \in Call /\ c.pc = "pool" /\ c.todo = Protocols[m]
  BY IdleIsCall, ProtocolFacts DEF Call, Starting, Idle
<1> HIDE DEF c
<1>3. /\ call' = [call EXCEPT ![t] = c] /\ Typed
      /\ call[t].pc = "idle" /\ left.starts > 0 /\ state = "kStopped" /\ state' = "kStarting"
      /\ left' = [left EXCEPT !.starts = @ - 1]
      /\ UNCHANGED <<pool, events, reactors, acceptors, active, open, issued, unseen>>
  BY <1>1 DEF StartInternal, c, Inv
<1>4. /\ call' \in [Callers \cup {Sender} -> Call] /\ call'[t] = c
      /\ \A u \in Callers : u # t => call'[u] = call[u]
  BY <1>2, <1>3, SetCall
<1>5. /\ left' \in [starts : 0..MaxStarts, clients : Nat, sends : Nat]
      /\ left'.starts = left.starts - 1 /\ left.starts \in 0..MaxStarts /\ MaxStarts \in Nat
  <2>1. /\ left \in [starts : 0..MaxStarts, clients : Nat, sends : Nat]
        /\ left.starts \in 0..MaxStarts /\ MaxStarts \in Nat
    BY <1>3, ServerAssumption DEF Typed
  <2>2. left.starts - 1 \in 0..MaxStarts
    BY <1>3, <2>1
  <2> QED
    BY <1>3, <2>1, <2>2
<1>6. Typed'
  BY <1>3, <1>4, <1>5 DEF Typed
<1>7. \A u \in Callers : u # t => call'[u].pc = "idle"
  BY <1>3, <1>4, NobodyInside
<1>8. Turns'
  BY <1>2, <1>3, <1>4, <1>7 DEF Turns, Starting, Stopping
<1>9. Layers'
  <2>1. DOMAIN acceptors = {}
    BY <1>3 DEF Inv, Layers
  <2>2. \A u \in Callers : call'[u].pc \in {"idle", "pool"}
    BY <1>2, <1>4, <1>7
  <2>3. /\ \A i \in 1..Len(reactors) : reactors[i].running
        /\ reactors = <<>> \/ (Len(reactors) = ReactorCount /\ pool = "up")
        /\ events # <<>> => pool = "up"
    BY <1>3 DEF Inv, Layers
  <2> QED
    BY <1>3, <2>1, <2>2, <2>3 DEF Layers, Full
<1>10. Pending'
  <2>1. DOMAIN acceptors = {}
    BY <1>3 DEF Inv, Layers
  <2> QED
    BY <1>2, <1>3, <1>4, <1>7, <2>1, ProtocolFacts DEF Pending, Starting
<1>11. Owned'
  BY <1>3 DEF Inv, Owned
<1>12. ~Fresh' /\ (First' => Fresh)
  BY <1>5 DEF Fresh, First
<1>13. Balanced'
  BY <1>3, <1>12, StillBalanced DEF All
<1>14. Dealt'
  <2>1. First' => DOMAIN acceptors' = {} /\ Untouched'
    <3>1. Fresh => reactors = <<>>
      BY DEF Inv, Dealt
    <3>2. Fresh => Untouched
      BY <3>1, EmptySeq DEF Untouched
    <3> QED
      BY <1>3, <1>12, <3>2 DEF Inv, Layers, Untouched
  <2> QED
    BY <1>12, <2>1 DEF Dealt
<1> QED
  BY <1>6, <1>8, <1>9, <1>10, <1>11, <1>13, <1>14 DEF Inv

\* A step of Start or Stop that moves on, or leaves, without changing the events,
\* the reactors or the acceptors.
LEMMA MoveOn ==
  ASSUME Inv, NEW t \in Callers, call[t].pc # "idle",
         NEW c \in Call, call' = [call EXCEPT ![t] = c],
         c.pc \notin {"pool", "send"},
         c.pc \in Starting => /\ call[t].pc \in Starting /\ c.todo = call[t].todo,
         state' = IF c.pc # "idle" THEN state
                  ELSE IF call[t].pc = "listen" /\ call[t].ok THEN "kRunning" ELSE "kStopped",
         c.pc \in Starting <=> (c.pc # "idle" /\ call[t].pc \in Starting),
         c.pc = "reactors" => DOMAIN acceptors = {} /\ pool' = "up",
         c.pc = "listen" => Full /\ (~c.ok => DOMAIN acceptors = {}),
         c.pc = "stop acceptors" => Full,
         c.pc = "stop reactors" => DOMAIN acceptors = {},
         c.pc = "stop pool" => DOMAIN acceptors = {} /\ reactors = <<>>,
         c.pc = "idle" => \/ call[t].pc \in Starting
                          \/ DOMAIN acceptors = {} /\ reactors = <<>>,
         pool' = "up" \/ (pool' = pool) \/ (reactors = <<>> /\ events = <<>> /\ pool' = "none"),
         UNCHANGED <<events, reactors, acceptors, active, open, issued, unseen, left>>
  PROVE  Inv'
<1>1. /\ call' \in [Callers \cup {Sender} -> Call] /\ call'[t] = c /\ call[t] \in Call
      /\ \A u \in Callers : u # t => call'[u] = call[u]
  BY SetCall DEF Inv
<1>2. \A u \in Callers : u # t => call'[u].pc = "idle"
  BY <1>1 DEF Inv, Turns
<1>3. /\ call[t].pc \in Starting => state = "kStarting"
      /\ call[t].pc \in Stopping => state = "kStopping"
      /\ call[t].pc \in Starting \cup Stopping
      /\ c.pc \in {"idle"} \cup Starting \cup Stopping
  BY <1>1 DEF Inv, Turns, Call
<1>4. Typed'
  BY <1>1 DEF Inv, Typed
<1>5. Turns'
  BY <1>1, <1>2, <1>3 DEF Turns, Starting, Stopping
<1>6. /\ reactors = <<>> \/ (Len(reactors) = ReactorCount /\ pool' = "up")
      /\ events # <<>> => pool' = "up"
  BY DEF Inv, Layers
<1>7. Layers'
  <2>1. state' \in {"kStopped", "kStarting", "kRunning"} =>
          \A i \in 1..Len(reactors) : reactors[i].running
    <3>1. CASE call[t].pc \in Starting
      BY <1>3, <3>1 DEF Inv, Layers
    <3>2. CASE call[t].pc \notin Starting
      <4>1. CASE c.pc = "idle"
        BY <3>2, <4>1, EmptySeq
      <4>2. CASE c.pc # "idle"
        BY <1>3, <3>2, <4>2
      <4> QED
        BY <4>1, <4>2
    <3> QED
      BY <3>1, <3>2
  <2>2. state' = "kStopped" => DOMAIN acceptors = {}
    <3>1. CASE call[t].pc = "listen"
      BY <1>3, <3>1 DEF Inv, Layers
    <3>2. CASE call[t].pc # "listen"
      BY <1>3, <3>2 DEF Inv, Layers, Starting
    <3> QED
      BY <3>1, <3>2
  <2>3. state' = "kRunning" => Full
    BY <1>3 DEF Inv, Layers
  <2>4. DOMAIN acceptors # {} => Full
    BY DEF Inv, Layers
  <2> QED
    BY <1>1, <1>2, <1>6, <2>1, <2>2, <2>3, <2>4 DEF Layers, Full
<1>8. Pending'
  <2>1. \A u \in Callers : call'[u].pc \in Starting =>
          u = t /\ call[u].pc \in Starting /\ call'[u].todo = call[u].todo
    BY <1>1, <1>2 DEF Starting
  <2> SUFFICES ASSUME NEW u \in Callers, call'[u].pc \in Starting,
                      NEW a \in 1..Len(call'[u].todo)
               PROVE  /\ call'[u].todo[a] \notin DOMAIN acceptors
                      /\ \A b \in 1..Len(call'[u].todo) :
                           call'[u].todo[a] = call'[u].todo[b] => a = b
    BY DEF Pending, Starting
  <2> QED
    BY <2>1 DEF Inv, Pending
<1>9. Owned'
  BY DEF Inv, Owned
<1>10. (Fresh' => Fresh /\ state' = state) /\ (First' => First)
  <2>1. ~Fresh
    BY <1>3 DEF Inv, Dealt, Fresh
  <2>2. First' => First
    <3>1. CASE call[t].pc \in Starting
      BY <1>3, <3>1 DEF First
    <3>2. CASE call[t].pc \in Stopping
      BY <1>3, <3>2 DEF First, Stopping
    <3> QED
      BY <1>3, <3>1, <3>2
  <2> QED
    BY <2>1, <2>2 DEF Fresh
<1>11. Balanced'
  BY <1>10, StillBalanced DEF All
<1>12. Dealt'
  BY <1>10, StillDealt
<1> QED
  BY <1>4, <1>5, <1>7, <1>8, <1>9, <1>11, <1>12 DEF Inv

\* The record of a call with another place in it.
LEMMA GotoFacts ==
  ASSUME Inv, NEW t \in Callers, NEW pc \in Starting \cup Stopping \cup {"idle"}
  PROVE  /\ [call[t] EXCEPT !.pc = pc] \in Call
         /\ [call[t] EXCEPT !.pc = pc].pc = pc
         /\ [call[t] EXCEPT !.pc = pc].todo = call[t].todo
         /\ [call[t] EXCEPT !.pc = pc].ok = call[t].ok
         /\ [call EXCEPT ![t].pc = pc] = [call EXCEPT ![t] = [call[t] EXCEPT !.pc = pc]]
<1>1. call[t] \in Call /\ call \in [Callers \cup {Sender} -> Call]
  BY DEF Inv, Typed
<1> QED
  BY <1>1 DEF Call

\* The pool is there, or its Start failed.
LEMMA InitializeWorkerPoolStep ==
  ASSUME Inv, NEW t \in Callers, InitializeWorkerPool(t)
  PROVE  Inv'
<1>1. /\ call[t].pc = "pool" /\ DOMAIN acceptors = {}
      /\ UNCHANGED <<events, reactors, acceptors, active, open, issued, unseen, left>>
  BY DEF InitializeWorkerPool, Inv, Layers
<1>2. CASE pool' = "up" /\ Goto(t, "reactors") /\ UNCHANGED state
  <2> DEFINE c == [call[t] EXCEPT !.pc = "reactors"]
  <2>1. /\ c \in Call /\ c.pc = "reactors" /\ c.todo = call[t].todo
        /\ call' = [call EXCEPT ![t] = c]
    BY <1>2, GotoFacts DEF Goto, Starting
  <2> HIDE DEF c
  <2> QED
    BY <1>1, <1>2, <2>1, MoveOn DEF Starting, Stopping
<1>3. CASE StartFails(t) /\ UNCHANGED pool
  BY <1>1, <1>3, IdleIsCall, MoveOn DEF StartFails, Starting, Stopping
<1> QED
  BY <1>2, <1>3 DEF InitializeWorkerPool

\* The reactors are there, new and idle, or one of them failed.
LEMMA InitializeReactorsStep ==
  ASSUME Inv, NEW t \in Callers, InitializeReactors(t)
  PROVE  Inv'
<1>1. /\ call[t].pc = "reactors" /\ DOMAIN acceptors = {} /\ pool = "up" /\ state = "kStarting"
      /\ UNCHANGED <<pool, events, acceptors, active, open, issued, unseen, left>>
  BY DEF InitializeReactors, Inv, Layers, Turns, Starting
<1> DEFINE c == [call[t] EXCEPT !.pc = "listen"]
<1>2. c \in Call /\ c.pc = "listen" /\ c.todo = call[t].todo /\ c.ok = call[t].ok
  BY GotoFacts DEF Starting
<1>3. Goto(t, "listen") => call' = [call EXCEPT ![t] = c]
  BY GotoFacts DEF Goto, Starting
<1> HIDE DEF c
<1>4. CASE reactors # <<>> /\ reactors' = reactors /\ Goto(t, "listen") /\ UNCHANGED state
  <2>1. Full
    BY <1>1, <1>4 DEF Inv, Layers, Full
  <2> QED
    BY <1>1, <1>2, <1>3, <1>4, <2>1, MoveOn DEF Starting, Stopping
<1>5. CASE /\ reactors = <<>> /\ reactors' = [i \in 1..ReactorCount |-> NewReactor]
           /\ Goto(t, "listen") /\ UNCHANGED state
  <2>1. NewReactor \in Reactor
    <3>1. <<>> \in Seq(Fds)
      BY EmptySeq
    <3> QED
      BY <3>1 DEF NewReactor, Reactor
  <2>2. /\ reactors' \in Seq(Reactor) /\ Len(reactors') = ReactorCount
        /\ DOMAIN reactors' = 1..ReactorCount
        /\ \A i \in 1..ReactorCount : /\ reactors'[i].running /\ reactors'[i].adds = <<>>
                                      /\ reactors'[i].conns = {} /\ reactors'[i].seq = 1
    BY <1>5, <2>1, ServerAssumption, IsASeq DEF NewReactor
  <2>3. /\ call' \in [Callers \cup {Sender} -> Call] /\ call'[t] = c /\ call[t] \in Call
        /\ \A u \in Callers : u # t => call'[u] = call[u]
    BY <1>2, <1>3, <1>5, SetCall DEF Inv
  <2>4. \A u \in Callers : u # t => call'[u].pc = "idle"
    BY <1>1, <2>3 DEF Inv, Turns
  <2>5. Typed'
    BY <1>1, <1>5, <2>2, <2>3 DEF Inv, Typed
  <2>6. Turns'
    BY <1>1, <1>2, <1>5, <2>3, <2>4 DEF Turns, Starting, Stopping
  <2>7. Layers'
    <3>1. Full'
      BY <2>2 DEF Full
    <3> QED
      BY <1>1, <1>2, <1>5, <2>2, <2>3, <2>4, <3>1 DEF Layers, Full
  <2>8. Pending'
    <3>1. \A u \in Callers : call'[u].pc \in Starting =>
            u = t /\ call[u].pc \in Starting /\ call'[u].todo = call[u].todo
      BY <1>1, <1>2, <2>3, <2>4 DEF Starting
    <3> QED
      BY <1>1, <3>1 DEF Inv, Pending
  <2>9. Owned'
    BY <2>2 DEF Owned
  <2>10. All' = {} /\ All = {}
    <3>1. All' = {}
      BY <2>2 DEF All
    <3>2. All = {}
      BY <1>5, EmptySeq, AllFacts DEF Inv
    <3> QED
      BY <3>1, <3>2
  <2>11. (Fresh' <=> Fresh) /\ (First' <=> First) /\ ~Fresh
    BY <1>1, <1>5 DEF Fresh, First, Inv, Dealt
  <2>12. Balanced'
    BY <1>1, <2>10, <2>11, StillBalanced
  <2>13. Dealt'
    <3>1. First => Untouched'
      BY <1>1, <2>2 DEF Inv, Dealt, Untouched
    <3> QED
      BY <1>1, <2>11, <3>1 DEF Dealt
  <2> QED
    BY <2>5, <2>6, <2>7, <2>8, <2>9, <2>12, <2>13 DEF Inv
<1>6. CASE StartFails(t) /\ UNCHANGED reactors
  BY <1>1, <1>6, IdleIsCall, MoveOn DEF StartFails, Starting, Stopping
<1> QED
  BY <1>4, <1>5, <1>6 DEF InitializeReactors

\* The thread of an acceptor does not start and the exception leaves Start.
LEMMA StartThrows ==
  ASSUME Inv, NEW t \in Callers, call[t].pc = "listen", call' = [call EXCEPT ![t] = Idle],
         UNCHANGED <<state, pool, events, reactors, acceptors, active, open, issued, unseen, left>>
  PROVE  Inv'
<1>1. /\ call' \in [Callers \cup {Sender} -> Call] /\ call'[t] = Idle
      /\ \A u \in Callers : u # t => call'[u] = call[u]
  BY IdleIsCall, SetCall DEF Inv
<1>2. \A u \in Callers : call'[u].pc = "idle"
  BY <1>1, IdleIsCall DEF Inv, Turns
<1>3. Typed'
  BY <1>1 DEF Inv, Typed
<1>4. Turns'
  BY <1>2 DEF Turns, Starting, Stopping
<1>5. Layers'
  BY <1>2 DEF Inv, Layers, Full
<1>6. Pending' /\ Owned'
  BY <1>2 DEF Inv, Owned, Pending, Starting
<1>7. Balanced' /\ Dealt'
  BY StillBalanced, StillDealt DEF All, Fresh, First
<1> QED
  BY <1>3, <1>4, <1>5, <1>6, <1>7 DEF Inv

\* One more acceptor, or none for this protocol.
LEMMA AcceptorStarts ==
  ASSUME Inv, NEW t \in Callers, CreateAndStartAcceptor(t), call' # [call EXCEPT ![t] = Idle]
  PROVE  Inv'
<1> DEFINE todo == call[t].todo
           n == Head(todo)
<1>1. /\ call[t].pc = "listen" /\ todo # <<>> /\ state = "kStarting" /\ Full
      /\ call[t] \in Call /\ todo \in Seq(Names) /\ ~Fresh
      /\ (~call[t].ok => DOMAIN acceptors = {})
      /\ UNCHANGED <<state, pool, events, reactors, active, open, issued, unseen, left>>
  BY DEF CreateAndStartAcceptor, Inv, Layers, Turns, Starting, Typed, Call, Dealt
<1>2. /\ n \in Names /\ n = todo[1] /\ Tail(todo) \in Seq(Names) /\ Len(todo) \in Nat
      /\ 1 \in 1..Len(todo) /\ Len(Tail(todo)) = Len(todo) - 1
      /\ \A a \in 1..Len(Tail(todo)) : Tail(todo)[a] = todo[a + 1]
  BY <1>1, HeadTailProperties, EmptySeq, LenProperties
<1>3. /\ n \notin DOMAIN acceptors
      /\ \A a \in 1..Len(todo) : /\ todo[a] \notin DOMAIN acceptors
                                 /\ todo[a] = n => a = 1
                                 /\ \A b \in 1..Len(todo) : todo[a] = todo[b] => a = b
  BY <1>1, <1>2 DEF Inv, Pending, Starting
<1>4. PICK ok \in BOOLEAN :
        /\ call' = [call EXCEPT ![t] = [call[t] EXCEPT !.todo = Tail(todo), !.ok = ok]]
        /\ \/ /\ ok = TRUE
              /\ acceptors' = [p \in DOMAIN acceptors \cup {n} |->
                                 IF p = n THEN NewAcceptor ELSE acceptors[p]]
           \/ ok = call[t].ok /\ acceptors' = acceptors
  <2>1. call \in [Callers \cup {Sender} -> Call] /\ call[t].ok \in BOOLEAN
    BY <1>1 DEF Inv, Typed, Call
  <2>2. CASE /\ acceptors' = [p \in DOMAIN acceptors \cup {n} |->
                                IF p = n THEN NewAcceptor ELSE acceptors[p]]
             /\ call' = [call EXCEPT ![t].todo = Tail(@), ![t].ok = TRUE]
    <3>1. call' = [call EXCEPT ![t] = [call[t] EXCEPT !.todo = Tail(todo), !.ok = TRUE]]
      BY <2>1, <2>2
    <3> QED
      BY <2>2, <3>1
  <2>3. CASE call' = [call EXCEPT ![t].todo = Tail(@)] /\ UNCHANGED acceptors
    <3>1. call' = [call EXCEPT ![t] = [call[t] EXCEPT !.todo = Tail(todo), !.ok = call[t].ok]]
      BY <1>1, <2>1, <2>3 DEF Call
    <3> QED
      BY <2>1, <2>3, <3>1
  <2> QED
    BY <2>2, <2>3 DEF CreateAndStartAcceptor
<1> DEFINE c == [call[t] EXCEPT !.todo = Tail(todo), !.ok = ok]
<1>5. c \in Call /\ c.pc = "listen" /\ c.todo = Tail(todo) /\ c.ok = ok
  BY <1>1, <1>2 DEF Call
<1>6. /\ call' \in [Callers \cup {Sender} -> Call] /\ call'[t] = c
      /\ \A u \in Callers : u # t => call'[u] = call[u]
  BY <1>4, <1>5, SetCall DEF Inv
<1> HIDE DEF c, todo, n
<1>7. \A u \in Callers : u # t => call'[u].pc = "idle"
  BY <1>1, <1>6 DEF Inv, Turns
<1>8. /\ DOMAIN acceptors' \subseteq DOMAIN acceptors \cup {n}
      /\ acceptors' \in [DOMAIN acceptors' -> Acceptor] /\ DOMAIN acceptors' \subseteq Names
      /\ ~ok => DOMAIN acceptors' = {}
      /\ \/ DOMAIN acceptors' = DOMAIN acceptors \cup {n} /\ acceptors'[n].next = 0
         \/ acceptors' = acceptors
  <2>1. NewAcceptor \in Acceptor /\ NewAcceptor.next = 0
    BY DEF NewAcceptor, Acceptor
  <2>2. acceptors \in [DOMAIN acceptors -> Acceptor] /\ DOMAIN acceptors \subseteq Names
    BY DEF Inv, Typed
  <2>3. CASE acceptors' = [p \in DOMAIN acceptors \cup {n} |->
                             IF p = n THEN NewAcceptor ELSE acceptors[p]] /\ ok = TRUE
    BY <1>2, <2>1, <2>2, <2>3
  <2>4. CASE ok = call[t].ok /\ acceptors' = acceptors
    BY <1>1, <2>2, <2>4
  <2> QED
    BY <1>4, <2>3, <2>4
<1>9. Typed'
  BY <1>1, <1>6, <1>8 DEF Inv, Typed
<1>10. Turns'
  BY <1>1, <1>5, <1>6, <1>7 DEF Turns, Starting, Stopping
<1>11. Layers'
  <2>1. Full'
    BY <1>1 DEF Full
  <2> QED
    BY <1>1, <1>5, <1>6, <1>7, <1>8, <2>1 DEF Inv, Layers
<1>12. Pending'
  <2>1. \A u \in Callers : call'[u].pc \in Starting => u = t /\ call'[u].todo = Tail(todo)
    BY <1>5, <1>6, <1>7 DEF Starting
  <2>2. \A a \in 1..Len(Tail(todo)) :
          /\ a \in Nat /\ a + 1 \in 1..Len(todo) /\ a + 1 # 1 /\ Tail(todo)[a] = todo[a + 1]
    BY <1>2
  <2>3. \A a \in 1..Len(Tail(todo)) :
          /\ Tail(todo)[a] \notin DOMAIN acceptors'
          /\ \A b \in 1..Len(Tail(todo)) : Tail(todo)[a] = Tail(todo)[b] => a = b
    <3> TAKE a \in 1..Len(Tail(todo))
    <3>1. Tail(todo)[a] \notin DOMAIN acceptors'
      BY <1>3, <1>8, <2>2
    <3>2. ASSUME NEW b \in 1..Len(Tail(todo)), Tail(todo)[a] = Tail(todo)[b] PROVE a = b
      <4>1. a + 1 = b + 1
        BY <1>3, <2>2, <3>2
      <4> QED
        BY <2>2, <4>1
    <3> QED
      BY <3>1, <3>2
  <2> QED
    BY <2>1, <2>3 DEF Pending
<1>13. Owned'
  BY <1>1 DEF Inv, Owned
<1>14. ~Fresh' /\ (First' <=> First)
  BY <1>1 DEF Fresh, First
<1>15. Balanced'
  BY <1>1, <1>14, StillBalanced DEF All
<1>16. Dealt'
  <2>1. CASE acceptors' = acceptors
    BY <1>1, <1>14, <2>1, StillDealt
  <2>2. CASE DOMAIN acceptors' = DOMAIN acceptors \cup {n} /\ acceptors'[n].next = 0
    <3> SUFFICES ASSUME First, NEW p \in Names, DOMAIN acceptors' = {p}
                 PROVE  Even(acceptors[p].next % ReactorCount)'
      BY <1>14, <2>2 DEF Dealt
    <3>1. p = n /\ DOMAIN acceptors = {}
      <4>1. p = n
        BY <2>2
      <4>2. ASSUME NEW x \in DOMAIN acceptors PROVE FALSE
        BY <1>3, <2>2, <4>1, <4>2
      <4> QED
        BY <4>1, <4>2
    <3>2. Untouched
      BY <3>1 DEF Inv, Dealt
    <3>3. acceptors'[p].next % ReactorCount = 0
      BY <2>2, <3>1, ServerAssumption
    <3>4. \A i \in 1..Len(reactors) : Got(i)' = 0
      <4> TAKE i \in 1..Len(reactors)
      <4>1. reactors[i].seq = 1 /\ Len(reactors[i].adds) = 0
        BY <3>2, EmptySeq DEF Untouched
      <4> QED
        BY <1>1, <4>1 DEF Got
    <3> QED
      BY <1>1, <3>3, <3>4, ReactorFacts DEF Even, Inv
  <2> QED
    BY <1>8, <2>1, <2>2
<1> QED
  BY <1>9, <1>10, <1>11, <1>12, <1>13, <1>15, <1>16 DEF Inv

\* CreateAndStartAcceptor, whatever comes of it.
LEMMA CreateAndStartAcceptorStep ==
  ASSUME Inv, NEW t \in Callers, CreateAndStartAcceptor(t)
  PROVE  Inv'
<1>1. CASE call' # [call EXCEPT ![t] = Idle]
  BY <1>1, AcceptorStarts
<1>2. CASE call' = [call EXCEPT ![t] = Idle]
  <2>1. /\ call[t].pc = "listen" /\ call[t] \in Call /\ call \in [Callers \cup {Sender} -> Call]
        /\ UNCHANGED <<state, pool, events, reactors, active, open, issued, unseen, left>>
    BY DEF CreateAndStartAcceptor, Inv, Typed
  <2>2. call' # [call EXCEPT ![t].todo = Tail(@), ![t].ok = TRUE]
    <3>1. call'[t].pc = "idle"
      BY <1>2, <2>1, IdleIsCall
    <3>2. [call EXCEPT ![t].todo = Tail(@), ![t].ok = TRUE][t].pc = "listen"
      BY <2>1 DEF Call
    <3> QED
      BY <3>1, <3>2
  <2>3. UNCHANGED acceptors
    BY <2>2 DEF CreateAndStartAcceptor
  <2> QED
    BY <1>2, <2>1, <2>3, StartThrows
<1> QED
  BY <1>1, <1>2

\* Start returns: running with at least one acceptor, else stopped.
LEMMA StartReturnsStep ==
  ASSUME Inv, NEW t \in Callers, StartReturns(t)
  PROVE  Inv'
<1>1. /\ call[t].pc = "listen" /\ call' = [call EXCEPT ![t] = Idle]
      /\ state' = IF call[t].ok THEN "kRunning" ELSE "kStopped"
      /\ UNCHANGED <<pool, events, reactors, acceptors, active, open, issued, unseen, left>>
  BY DEF StartReturns
<1> QED
  BY <1>1, IdleIsCall, MoveOn DEF Starting, Stopping

-----------------------------------------------------------------------------
(* Stop                                                                    *)

\* Stop takes state_ from kRunning to kStopping.
LEMMA StopBeginsStep ==
  ASSUME Inv, NEW t \in Callers, StopBegins(t)
  PROVE  Inv'
<1> DEFINE c == [call[t] EXCEPT !.pc = "stop acceptors"]
<1>1. /\ call[t].pc = "idle" /\ state = "kRunning" /\ state' = "kStopping" /\ Full
      /\ c \in Call /\ c.pc = "stop acceptors" /\ call' = [call EXCEPT ![t] = c]
      /\ UNCHANGED <<pool, events, reactors, acceptors, active, open, issued, unseen, left>>
  BY GotoFacts DEF StopBegins, Goto, Stopping, Inv, Layers
<1> HIDE DEF c
<1>2. /\ call' \in [Callers \cup {Sender} -> Call] /\ call'[t] = c
      /\ \A u \in Callers : u # t => call'[u] = call[u]
  BY <1>1, SetCall DEF Inv
<1>3. \A u \in Callers : u # t => call'[u].pc = "idle"
  BY <1>1, <1>2, NobodyInside
<1>4. Typed'
  BY <1>1, <1>2 DEF Inv, Typed
<1>5. Turns'
  BY <1>1, <1>2, <1>3 DEF Turns, Starting, Stopping
<1>6. Layers'
  BY <1>1, <1>2, <1>3 DEF Inv, Layers, Full
<1>7. Pending'
  BY <1>1, <1>2, <1>3 DEF Pending, Starting
<1>8. Owned'
  BY <1>1 DEF Inv, Owned
<1>9. ~First' /\ ~Fresh /\ ~Fresh'
  BY <1>1 DEF First, Fresh, Inv, Dealt
<1>10. Balanced'
  BY <1>1, <1>9, StillBalanced DEF All
<1>11. Dealt'
  BY <1>9 DEF Dealt
<1> QED
  BY <1>4, <1>5, <1>6, <1>7, <1>8, <1>10, <1>11 DEF Inv

\* A step that changes acceptors only, while a caller is at "stop acceptors" or in
\* their own threads: none is added, and none is taken away during Start.
LEMMA AcceptorsChange ==
  ASSUME Inv, acceptors' \in [DOMAIN acceptors' -> Acceptor],
         DOMAIN acceptors' \subseteq DOMAIN acceptors,
         First => /\ DOMAIN acceptors' = DOMAIN acceptors
                  /\ \A p \in DOMAIN acceptors : acceptors'[p].next = acceptors[p].next,
         left' \in [starts : 0..MaxStarts, clients : Nat, sends : Nat],
         left'.starts = left.starts,
         UNCHANGED <<state, pool, events, reactors, call, active, issued, unseen>>
  PROVE  Inv'
<1>1. Typed'
  BY DEF Inv, Typed
<1>2. Turns'
  BY DEF Inv, Turns
<1>3. Layers'
  BY DEF Inv, Layers, Full
<1>4. Pending'
  BY DEF Inv, Pending
<1>5. Owned'
  BY DEF Inv, Owned
<1>6. (Fresh' <=> Fresh) /\ (First' <=> First)
  BY DEF Fresh, First
<1>7. Balanced'
  BY <1>6, StillBalanced DEF All
<1>8. Dealt'
  BY <1>6, StillDealt
<1> QED
  BY <1>1, <1>2, <1>3, <1>4, <1>5, <1>7, <1>8 DEF Inv

\* Acceptor::Stop, the flag and the join.
LEMMA StopAcceptorStep ==
  ASSUME Inv, NEW t \in Callers, NEW p \in DOMAIN acceptors,
         StopAcceptor(t, p) \/ JoinAcceptor(t, p)
  PROVE  Inv'
<1>1. /\ call[t].pc = "stop acceptors" /\ state = "kStopping" /\ ~First
      /\ acceptors \in [DOMAIN acceptors -> Acceptor]
      /\ left \in [starts : 0..MaxStarts, clients : Nat, sends : Nat]
      /\ UNCHANGED <<state, pool, events, reactors, call, active, issued, unseen, left>>
  BY DEF StopAcceptor, JoinAcceptor, Inv, Turns, Typed, Stopping, First
<1>2. CASE StopAcceptor(t, p)
  <2>1. acceptors' = [acceptors EXCEPT ![p].running = FALSE]
    BY <1>2 DEF StopAcceptor
  <2>2. acceptors' \in [DOMAIN acceptors -> Acceptor] /\ DOMAIN acceptors' = DOMAIN acceptors
    <3>1. [acceptors[p] EXCEPT !.running = FALSE] \in Acceptor
      BY <1>1 DEF Acceptor
    <3> QED
      BY <1>1, <2>1, <3>1
  <2> QED
    BY <1>1, <2>2, AcceptorsChange
<1>3. CASE JoinAcceptor(t, p)
  <2>1. acceptors' = [q \in DOMAIN acceptors \ {p} |-> acceptors[q]]
    BY <1>3 DEF JoinAcceptor, Restrict
  <2>2. acceptors' \in [DOMAIN acceptors' -> Acceptor] /\ DOMAIN acceptors' \subseteq DOMAIN acceptors
    BY <1>1, <2>1
  <2> QED
    BY <1>1, <2>2, AcceptorsChange
<1> QED
  BY <1>2, <1>3

\* acceptors_.clear() returns.
LEMMA AcceptorsStoppedStep ==
  ASSUME Inv, NEW t \in Callers, AcceptorsStopped(t)
  PROVE  Inv'
<1> DEFINE c == [call[t] EXCEPT !.pc = "stop reactors"]
<1>1. /\ call[t].pc = "stop acceptors" /\ DOMAIN acceptors = {}
      /\ c \in Call /\ c.pc = "stop reactors" /\ call' = [call EXCEPT ![t] = c]
      /\ UNCHANGED <<state, pool, events, reactors, acceptors, active, open, issued, unseen, left>>
  BY GotoFacts DEF AcceptorsStopped, AllJoined, Goto, Stopping
<1> HIDE DEF c
<1> QED
  BY <1>1, MoveOn DEF Starting, Stopping

\* Reactor::Stop: the connections of one reactor are closed and not counted down.
LEMMA StopReactorStep ==
  ASSUME Inv, NEW t \in Callers, NEW i \in DOMAIN reactors, StopReactor(t, i)
  PROVE  Inv'
<1> DEFINE r == [reactors[i] EXCEPT !.running = FALSE, !.conns = {}]
<1>1. /\ call[t].pc = "stop reactors" /\ state = "kStopping" /\ DOMAIN acceptors = {}
      /\ Typed /\ i \in 1..Len(reactors) /\ Len(reactors) \in Nat
      /\ unseen' = unseen + Cardinality(reactors[i].conns)
      /\ UNCHANGED <<state, pool, events, acceptors, call, active, issued, left>>
  BY ReactorFacts DEF StopReactor, Inv, Turns, Layers, Stopping
<1>2. r \in Reactor /\ r.conns = {} /\ r.seq = reactors[i].seq
  BY <1>1, ReactorFacts DEF Reactor
<1>3. reactors' = [reactors EXCEPT ![i] = r]
  BY <1>1 DEF StopReactor
<1> HIDE DEF r
<1>4. /\ reactors' \in Seq(Reactor) /\ Len(reactors') = Len(reactors)
      /\ DOMAIN reactors' = 1..Len(reactors) /\ reactors'[i] = r
      /\ \A j \in 1..Len(reactors) : j # i => reactors'[j] = reactors[j]
  BY <1>1, <1>2, <1>3, SetReactor
<1>0. /\ IsFiniteSet(reactors[i].conns) /\ Cardinality(reactors[i].conns) \in Nat
      /\ reactors[i].conns \subseteq All
  <2>1. reactors[i].conns \subseteq All
    BY <1>1, AllFacts
  <2> QED
    BY <2>1, FS_Subset, FS_CardinalityType DEF Inv, Balanced
<1>5. Typed'
  <2>1. unseen' \in Nat
    <3>1. PICK u \in Nat : u = unseen
      BY <1>1 DEF Typed
    <3>2. PICK c \in Nat : c = Cardinality(reactors[i].conns)
      BY <1>0
    <3>3. unseen' = u + c
      BY <1>1, <3>1, <3>2
    <3> QED
      BY <3>3
  <2> QED
    BY <1>1, <1>4, <2>1 DEF Typed
<1>6. Turns'
  BY <1>1 DEF Inv, Turns
<1>7. \A u \in Callers : call[u].pc \in {"idle", "stop reactors"}
  BY <1>1 DEF Inv, Turns
<1>8. Layers'
  <2>1. reactors # <<>> => Len(reactors) = ReactorCount /\ pool = "up"
    BY DEF Inv, Layers
  <2>2. reactors # <<>>
    BY <1>1, NotEmpty
  <2> QED
    BY <1>1, <1>4, <1>7, <2>1, <2>2 DEF Inv, Layers
<1>9. Pending'
  BY <1>1 DEF Inv, Pending
<1>10. Owned'
  BY <1>2, <1>4 DEF Inv, Owned
<1>11. ~First' /\ ~Fresh'
  BY <1>1 DEF First, Fresh, Inv, Dealt
<1>12. Balanced'
  <2>1. Balance' = Balance
    BY <1>1 DEF Balance, Of
  <2>2. All' = All \ reactors[i].conns
    <3>1. ASSUME NEW x PROVE x \in All' <=> \E j \in 1..Len(reactors) : x \in reactors'[j].conns
      BY <1>4 DEF All
    <3>2. ASSUME NEW x PROVE x \in All <=> \E j \in 1..Len(reactors) : x \in reactors[j].conns
      BY <1>1, AllFacts
    <3>3. \A j \in 1..Len(reactors) : j # i => \A x \in reactors[j].conns : x \notin reactors[i].conns
      <4>1. \A j \in 1..Len(reactors) : \A x \in reactors[j].conns : x[1] = j
        BY DEF Inv, Owned
      <4> QED
        BY <1>1, <4>1
    <3>4. ASSUME NEW x PROVE x \in All' <=> x \in All /\ x \notin reactors[i].conns
      BY <1>1, <1>2, <1>4, <3>1, <3>2, <3>3
    <3> QED
      BY <3>4
  <2>3. /\ IsFiniteSet(All') /\ Cardinality(All) \in Nat
        /\ Cardinality(All') = Cardinality(All) - Cardinality(reactors[i].conns)
    <3>1. IsFiniteSet(All)
      BY DEF Inv, Balanced
    <3>2. All \cap reactors[i].conns = reactors[i].conns
      BY <1>0
    <3>3. /\ IsFiniteSet(All \ reactors[i].conns)
          /\ Cardinality(All \ reactors[i].conns) =
               Cardinality(All) - Cardinality(All \cap reactors[i].conns)
      BY <3>1, FS_Difference
    <3> QED
      BY <2>2, <3>1, <3>2, <3>3, FS_CardinalityType
  <2>4. Balance = Cardinality(All) + unseen /\ unseen \in Nat
    BY <1>1 DEF Inv, Balanced, Typed
  <2>5. Balance' = Cardinality(All') + unseen'
    <3>1. PICK a \in Nat : a = Cardinality(All)
      BY <2>3
    <3>2. PICK c \in Nat : c = Cardinality(reactors[i].conns)
      BY <1>0
    <3>3. PICK u \in Nat : u = unseen
      BY <2>4
    <3>4. Cardinality(All') = a - c /\ unseen' = u + c /\ Balance' = a + u
      BY <1>1, <2>1, <2>3, <2>4, <3>1, <3>2, <3>3
    <3> QED
      BY ONLY <3>4, a \in Nat, c \in Nat, u \in Nat
  <2> QED
    BY <2>3, <2>5 DEF Balanced
<1>13. Dealt'
  BY <1>11 DEF Dealt
<1> QED
  BY <1>5, <1>6, <1>8, <1>9, <1>10, <1>12, <1>13 DEF Inv

\* reactors_.clear()
LEMMA ReactorsStoppedStep ==
  ASSUME Inv, NEW t \in Callers, ReactorsStopped(t)
  PROVE  Inv'
<1> DEFINE c == [call[t] EXCEPT !.pc = "stop pool"]
<1>1. /\ call[t].pc = "stop reactors" /\ state = "kStopping" /\ DOMAIN acceptors = {}
      /\ c \in Call /\ c.pc = "stop pool" /\ call' = [call EXCEPT ![t] = c]
      /\ reactors' = <<>>
      /\ UNCHANGED <<state, pool, events, acceptors, active, open, issued, unseen, left>>
  <2>1. /\ call[t].pc = "stop reactors" /\ reactors' = <<>> /\ Goto(t, "stop pool")
        /\ UNCHANGED <<state, pool, events, acceptors, active, open, issued, unseen, left>>
    BY DEF ReactorsStopped
  <2>2. state = "kStopping" /\ DOMAIN acceptors = {}
    BY <2>1 DEF Inv, Layers, Turns, Stopping
  <2>3. c \in Call /\ c.pc = "stop pool" /\ call' = [call EXCEPT ![t] = c]
    BY <2>1, GotoFacts DEF Goto, Stopping
  <2> QED
    BY <2>1, <2>2, <2>3
<1> HIDE DEF c
<1>2. /\ call' \in [Callers \cup {Sender} -> Call] /\ call'[t] = c
      /\ \A u \in Callers : u # t => call'[u] = call[u]
  BY <1>1, SetCall DEF Inv
<1>3. \A u \in Callers : u # t => call'[u].pc = "idle"
  BY <1>1, <1>2 DEF Inv, Turns
<1>4. reactors' \in Seq(Reactor) /\ Len(reactors') = 0
  BY <1>1, EmptySeq
<1>5. Typed'
  BY <1>1, <1>2, <1>4 DEF Inv, Typed
<1>6. Turns'
  BY <1>1, <1>2, <1>3 DEF Turns, Starting, Stopping
<1>7. Layers'
  BY <1>1, <1>2, <1>3 DEF Inv, Layers
<1>8. Pending'
  BY <1>1, <1>2, <1>3 DEF Pending, Starting
<1>9. Owned'
  BY <1>4 DEF Owned
<1>10. ~First' /\ ~Fresh'
  BY <1>1 DEF First, Fresh, Inv, Dealt
<1>11. Balanced'
  <2>1. All' = {}
    <3>1. DOMAIN reactors' = {}
      BY <1>4, LenProperties
    <3> QED
      BY <3>1 DEF All
  <2>2. \A i \in 1..Len(reactors) : reactors[i].conns = {}
    BY ReactorFacts DEF ReactorsStopped, Inv, Owned
  <2>3. All = {}
    BY <2>2, AllFacts DEF Inv
  <2> QED
    BY <1>1, <2>1, <2>3, StillBalanced
<1>12. Dealt'
  BY <1>10 DEF Dealt
<1> QED
  BY <1>5, <1>6, <1>7, <1>8, <1>9, <1>11, <1>12 DEF Inv

\* WorkerPool::Stop returns and the server is stopped.
LEMMA StopPoolStep ==
  ASSUME Inv, NEW t \in Callers, StopPool(t)
  PROVE  Inv'
<1> DEFINE c == [call[t] EXCEPT !.pc = "idle"]
<1>1. /\ call[t].pc = "stop pool" /\ DOMAIN acceptors = {} /\ reactors = <<>> /\ events = <<>>
      /\ pool' = "none" /\ state' = "kStopped"
      /\ c \in Call /\ c.pc = "idle" /\ call' = [call EXCEPT ![t] = c]
      /\ UNCHANGED <<events, reactors, acceptors, active, open, issued, unseen, left>>
  BY GotoFacts DEF StopPool, Drained, Goto, Stopping, Inv, Layers
<1> HIDE DEF c
<1> QED
  BY <1>1, MoveOn DEF Starting, Stopping

-----------------------------------------------------------------------------
(* The accept threads                                                      *)

\* A descriptor is accepted, or a thread ends.
LEMMA AcceptStep ==
  ASSUME Inv, NEW p \in DOMAIN acceptors, AcceptLoop(p) \/ AcceptThreadEnds(p)
  PROVE  Inv'
<1>1. /\ acceptors \in [DOMAIN acceptors -> Acceptor]
      /\ left \in [starts : 0..MaxStarts, clients : Nat, sends : Nat]
      /\ UNCHANGED <<state, pool, events, reactors, call, active, issued, unseen>>
  BY DEF AcceptLoop, AcceptThreadEnds, Inv, Typed
<1>2. /\ left' \in [starts : 0..MaxStarts, clients : Nat, sends : Nat]
      /\ left'.starts = left.starts
  <2>1. CASE left' = left
    BY <1>1, <2>1
  <2>2. CASE left.clients > 0 /\ left' = [left EXCEPT !.clients = @ - 1]
    BY <1>1, <2>2
  <2> QED
    BY <2>1, <2>2 DEF AcceptLoop, AcceptThreadEnds
<1>3. /\ acceptors' \in [DOMAIN acceptors -> Acceptor]
      /\ \A q \in DOMAIN acceptors : acceptors'[q].next = acceptors[q].next
  <2>1. CASE acceptors' = acceptors
    BY <1>1, <2>1
  <2>2. CASE \E fd \in Fds : acceptors' = [acceptors EXCEPT ![p].hand = fd]
    BY <1>1, <2>2 DEF Acceptor
  <2>3. CASE acceptors' = [acceptors EXCEPT ![p].thread = "ended"]
    BY <1>1, <2>3 DEF Acceptor
  <2> QED
    BY <2>1, <2>2, <2>3 DEF AcceptLoop, AcceptThreadEnds
<1>4. DOMAIN acceptors' = DOMAIN acceptors
  BY <1>3
<1> QED
  BY <1>1, <1>2, <1>3, <1>4, AcceptorsChange

\* Round robin: what follows n % c.
LEMMA NextRemainder ==
  ASSUME NEW n \in Nat, NEW c \in Nat \ {0}
  PROVE  /\ n % c \in 0..(c - 1)
         /\ (n + 1) % c = IF n % c = c - 1 THEN 0 ELSE (n % c) + 1
<1> DEFINE q == n \div c
           r == n % c
           q1 == (n + 1) \div c
           r1 == (n + 1) % c
<1>1. /\ q \in Int /\ r \in 0..(c - 1) /\ n = c * q + r
      /\ q1 \in Int /\ r1 \in 0..(c - 1) /\ n + 1 = c * q1 + r1
  OBVIOUS
<1> HIDE DEF q, r, q1, r1
<1>2. c * (q1 - q) = r + 1 - r1
  BY <1>1
<1>3. q1 - q \in {0, 1}
  <2>1. ASSUME NEW d \in Int, d >= 2 PROVE c * d > c
    BY <2>1
  <2>2. ASSUME NEW d \in Int, d <= -1 PROVE c * d <= -c
    BY <2>2
  <2>3. r + 1 - r1 <= c /\ r + 1 - r1 > -c /\ q1 - q \in Int
    BY <1>1
  <2> QED
    BY <1>2, <2>1, <2>2, <2>3
<1>4. r1 = IF r = c - 1 THEN 0 ELSE r + 1
  <2>1. CASE q1 - q = 0
    BY <1>1, <1>2, <2>1
  <2>2. CASE q1 - q = 1
    BY <1>1, <1>2, <2>2
  <2> QED
    BY <1>3, <2>1, <2>2
<1> QED
  BY <1>1, <1>4 DEF r, r1

\* A connection goes to the reactor whose turn it is.
LEMMA AssignToReactorStep ==
  ASSUME Inv, NEW p \in DOMAIN acceptors, AssignToReactor(p)
  PROVE  Inv'
<1> DEFINE i == NextReactor(p)
           fd == acceptors[p].hand
<1>1. /\ acceptors \in [DOMAIN acceptors -> Acceptor] /\ acceptors[p].next \in Nat
      /\ fd \in Fds /\ p \in Names /\ Full /\ Typed
      /\ ReactorCount \in Nat \ {0} /\ Len(reactors) = ReactorCount
  BY ServerAssumption DEF AssignToReactor, Inv, Typed, Layers, Full, Acceptor
<1>2. /\ i = (acceptors[p].next % ReactorCount) + 1 /\ i \in 1..Len(reactors)
      /\ reactors # <<>> /\ reactors[i].running
  <2>1. i = (acceptors[p].next % ReactorCount) + 1
    BY <1>1 DEF NextReactor
  <2>2. acceptors[p].next % ReactorCount \in 0..(ReactorCount - 1)
    BY <1>1, NextRemainder
  <2>3. i \in 1..Len(reactors)
    BY <1>1, <2>1, <2>2
  <2>4. reactors # <<>>
    BY <1>1, <2>3, NotEmpty
  <2> QED
    BY <1>1, <2>1, <2>3, <2>4 DEF Full
<1> DEFINE r == [reactors[i] EXCEPT !.adds = Append(@, fd)]
           a == [acceptors[p] EXCEPT !.hand = 0, !.next = @ + 1]
<1>3. /\ reactors' = [reactors EXCEPT ![i] = r]
      /\ acceptors' = [acceptors EXCEPT ![p] = a]
      /\ UNCHANGED <<state, pool, events, call, active, issued, unseen, left>>
  BY <1>1, <1>2 DEF AssignToReactor
<1>4. /\ r \in Reactor /\ r.running /\ r.conns = reactors[i].conns /\ r.seq = reactors[i].seq
      /\ Len(r.adds) = Len(reactors[i].adds) + 1
  <2>1. reactors[i] \in Reactor /\ reactors[i].adds \in Seq(Fds)
    BY <1>1, <1>2, ReactorFacts
  <2>2. Append(reactors[i].adds, fd) \in Seq(Fds)
        /\ Len(Append(reactors[i].adds, fd)) = Len(reactors[i].adds) + 1
    BY <1>1, <2>1, AppendProperties
  <2> QED
    BY <1>2, <2>1, <2>2 DEF Reactor
<1>5. a \in Acceptor /\ a.next = acceptors[p].next + 1
  <2>1. acceptors[p] \in Acceptor /\ acceptors[p].next + 1 \in Nat
    BY <1>1
  <2> QED
    BY <2>1 DEF Acceptor
<1> HIDE DEF i, fd, r, a
<1>6. /\ reactors' \in Seq(Reactor) /\ Len(reactors') = Len(reactors)
      /\ DOMAIN reactors' = 1..Len(reactors) /\ reactors'[i] = r
      /\ \A j \in 1..Len(reactors) : j # i => reactors'[j] = reactors[j]
  BY <1>1, <1>2, <1>3, <1>4, SetReactor
<1>7. /\ acceptors' \in [DOMAIN acceptors -> Acceptor] /\ DOMAIN acceptors' = DOMAIN acceptors
      /\ acceptors'[p] = a
  BY <1>1, <1>3, <1>5
<1>8. Typed'
  BY <1>1, <1>3, <1>6, <1>7 DEF Typed
<1>9. Turns'
  BY <1>3 DEF Inv, Turns
<1>10. Layers'
  <2>1. Full'
    BY <1>1, <1>4, <1>6 DEF Full
  <2>2. pool = "up"
    BY <1>2 DEF Inv, Layers
  <2>3. \A t \in Callers : call[t].pc # "stop pool"
    BY <1>2 DEF Inv, Layers
  <2> QED
    BY <1>3, <1>7, <2>1, <2>2, <2>3 DEF Inv, Layers, Full
<1>11. Pending'
  BY <1>3, <1>7 DEF Inv, Pending
<1>12. Owned'
  BY <1>4, <1>6 DEF Inv, Owned
<1>13. (Fresh' <=> Fresh) /\ (First' <=> First) /\ ~Fresh
  BY <1>2, <1>3 DEF Fresh, First, Inv, Dealt
<1>14. Balanced'
  <2>1. \A j \in 1..Len(reactors) : reactors'[j].conns = reactors[j].conns
    BY <1>4, <1>6
  <2>2. All' = All
    BY <1>1, <1>6, <2>1, ReactorFacts DEF All
  <2> QED
    BY <1>3, <1>13, <2>2, StillBalanced
<1>15. Dealt'
  <2> SUFFICES ASSUME First, NEW n \in Names, DOMAIN acceptors' = {n}
               PROVE  Even(acceptors[n].next % ReactorCount)'
    BY <1>7, <1>13 DEF Dealt
  <2>1. n = p /\ DOMAIN acceptors = {p}
    BY <1>7
  <2> DEFINE m == acceptors[p].next % ReactorCount
             k == (acceptors[p].next + 1) % ReactorCount
  <2>2. /\ m \in 0..(ReactorCount - 1) /\ i = m + 1
        /\ k = IF m = ReactorCount - 1 THEN 0 ELSE m + 1
        /\ acceptors'[n].next % ReactorCount = k
    BY <1>1, <1>2, <1>5, <1>7, <2>1, NextRemainder
  <2>3. PICK q \in Nat : \A j \in 1..Len(reactors) : Got(j) = IF j <= m THEN q + 1 ELSE q
    BY <1>1, <2>1 DEF Inv, Dealt, Even
  <2> HIDE DEF m, k
  <2>4. \A j \in 1..Len(reactors) : Got(j)' = IF j = i THEN Got(j) + 1 ELSE Got(j)
    <3> TAKE j \in 1..Len(reactors)
    <3>1. reactors[j].seq - 1 \in Nat /\ Len(reactors[j].adds) \in Nat
      BY <1>1, ReactorFacts
    <3>2. CASE j = i
      <4>1. reactors'[j].seq = reactors[j].seq /\ Len(reactors'[j].adds) = Len(reactors[j].adds) + 1
        BY <1>4, <1>6, <3>2
      <4> QED
        BY <3>1, <3>2, <4>1 DEF Got
    <3>3. CASE j # i
      BY <1>6, <3>3 DEF Got
    <3> QED
      BY <3>2, <3>3
  <2>5. \E x \in Nat : \A j \in 1..Len(reactors) : Got(j)' = IF j <= k THEN x + 1 ELSE x
    <3>1. CASE m = ReactorCount - 1
      <4>1. \A j \in 1..Len(reactors) : Got(j)' = IF j <= k THEN (q + 1) + 1 ELSE q + 1
        BY <1>1, <2>2, <2>3, <2>4, <3>1
      <4>2. q + 1 \in Nat
        OBVIOUS
      <4> QED
        BY <4>1, <4>2
    <3>2. CASE m # ReactorCount - 1
      <4>1. \A j \in 1..Len(reactors) : Got(j)' = IF j <= k THEN q + 1 ELSE q
        BY <1>1, <2>2, <2>3, <2>4, <3>2
      <4> QED
        BY <4>1
    <3> QED
      BY <3>1, <3>2
  <2> QED
    BY <1>6, <2>2, <2>5 DEF Even
<1> QED
  BY <1>8, <1>9, <1>10, <1>11, <1>12, <1>14, <1>15 DEF Inv

-----------------------------------------------------------------------------
(* Reactors and workers                                                    *)

\* The identifier of the next queued descriptor, and the reactor that took it in.
NewId(i) == <<i, Head(reactors[i].adds), reactors[i].seq>>
Added(i) == [reactors[i] EXCEPT !.adds = Tail(@), !.conns = @ \cup {NewId(i)}, !.seq = @ + 1]
Skipped(i) == [reactors[i] EXCEPT !.adds = Tail(@), !.seq = @ + 1]

\* Nothing was given to a reactor but its turn moved on: the dealing stays even.
LEMMA TurnTaken ==
  ASSUME Inv, NEW i \in 1..Len(reactors), reactors[i].adds # <<>>,
         Len(reactors') = Len(reactors),
         reactors'[i].adds = Tail(reactors[i].adds), reactors'[i].seq = reactors[i].seq + 1,
         \A j \in 1..Len(reactors) : j # i => reactors'[j] = reactors[j],
         UNCHANGED <<acceptors, state, left>>
  PROVE  Dealt'
<1>1. (Fresh' <=> Fresh) /\ (First' <=> First) /\ ~Fresh
  <2>1. reactors # <<>>
    BY ReactorFacts, NotEmpty DEF Inv
  <2> QED
    BY <2>1 DEF Fresh, First, Inv, Dealt
<1>2. ASSUME NEW j \in 1..Len(reactors) PROVE Got(j)' = Got(j)
  <2>1. /\ reactors[j].seq \in Nat \ {0} /\ Len(reactors[j].adds) \in Nat
        /\ reactors[j].adds \in Seq(Fds)
    BY ReactorFacts DEF Inv
  <2>2. CASE j = i
    <3>1. Len(reactors'[j].adds) = Len(reactors[j].adds) - 1 /\ reactors'[j].seq = reactors[j].seq + 1
      BY <2>1, <2>2, HeadTailProperties
    <3>2. PICK a \in Nat \ {0} : a = reactors[j].seq
      BY <2>1
    <3>3. PICK b \in Nat : b = Len(reactors[j].adds)
      BY <2>1
    <3>4. Got(j)' = ((a + 1) - 1) + (b - 1) /\ Got(j) = (a - 1) + b
      BY <3>1, <3>2, <3>3 DEF Got
    <3>5. ((a + 1) - 1) + (b - 1) = (a - 1) + b
      BY ONLY a \in Nat \ {0}, b \in Nat
    <3> QED
      BY <3>4, <3>5
  <2>3. CASE j # i
    BY <2>3 DEF Got
  <2> QED
    BY <2>2, <2>3
<1>3. ~Untouched
  BY DEF Untouched
<1>4. ASSUME First, NEW p \in Names, DOMAIN acceptors = {p}
      PROVE  Even(acceptors[p].next % ReactorCount)'
  <2>1. Even(acceptors[p].next % ReactorCount)
    BY <1>4 DEF Inv, Dealt
  <2> QED
    BY <1>2, <2>1 DEF Even
<1>5. First => DOMAIN acceptors # {}
  BY <1>3 DEF Inv, Dealt
<1> QED
  BY <1>1, <1>4, <1>5 DEF Dealt

\* A queued descriptor becomes a connection: one more, one event more.
LEMMA AdditionSucceeds ==
  ASSUME Inv, NEW i \in DOMAIN reactors, DoAddConnection(i),
         reactors' = [reactors EXCEPT ![i] = Added(i)],
         events' = Append(events, [type |-> "kConnected", id |-> NewId(i)]),
         issued' = Append(issued, NewId(i))
  PROVE  Inv'
<1> DEFINE fd == Head(reactors[i].adds)
           id == NewId(i)
           e == [type |-> "kConnected", id |-> id]
           r == Added(i)
<1>1. /\ Typed /\ i \in 1..Len(reactors) /\ Len(reactors) \in Nat /\ reactors[i] \in Reactor
      /\ reactors[i].adds \in Seq(Fds) /\ reactors[i].adds # <<>> /\ reactors[i].running
      /\ reactors[i].seq \in Nat \ {0} /\ reactors[i].conns \subseteq Id
      /\ UNCHANGED <<state, pool, acceptors, call, active, unseen, left>>
  BY ReactorFacts DEF DoAddConnection, Inv
<1>2. /\ fd \in Fds /\ Tail(reactors[i].adds) \in Seq(Fds)
      /\ Len(Tail(reactors[i].adds)) = Len(reactors[i].adds) - 1
  BY <1>1, HeadTailProperties
<1>3. id \in Id /\ id[1] = i /\ id[3] = reactors[i].seq
  BY <1>1, <1>2 DEF Id, NewId
<1>4. /\ events' = Append(events, e) /\ issued' = Append(issued, id)
      /\ reactors' = [reactors EXCEPT ![i] = r]
  OBVIOUS
<1> HIDE DEF id
<1>5. e \in Event /\ e.type = "kConnected"
  BY <1>3 DEF Event
<1>6. /\ r \in Reactor /\ r.running /\ r.adds = Tail(reactors[i].adds)
      /\ r.conns = reactors[i].conns \cup {id} /\ r.seq = reactors[i].seq + 1
  <2>1. reactors[i].conns \cup {id} \in SUBSET Id /\ reactors[i].seq + 1 \in Nat \ {0}
    BY <1>1, <1>3
  <2> QED
    BY <1>1, <1>2, <2>1 DEF Reactor, Added, id
<1> HIDE DEF fd, e, r
<1>7. /\ reactors' \in Seq(Reactor) /\ Len(reactors') = Len(reactors)
      /\ DOMAIN reactors' = 1..Len(reactors) /\ reactors'[i] = r
      /\ \A j \in 1..Len(reactors) : j # i => reactors'[j] = reactors[j]
  BY <1>1, <1>4, <1>6, SetReactor
<1>8. /\ issued \in Seq(Id) /\ issued' \in Seq(Id) /\ issued' # <<>>
      /\ Len(issued) \in Nat /\ DOMAIN issued = 1..Len(issued)
      /\ DOMAIN issued' = 1..(Len(issued) + 1)
      /\ \A k \in 1..Len(issued) : issued'[k] = issued[k]
      /\ issued'[Len(issued) + 1] = id
  <2>1. issued \in Seq(Id) /\ Len(issued) \in Nat /\ DOMAIN issued = 1..Len(issued)
    BY <1>1, LenProperties DEF Typed
  <2>2. /\ issued' \in Seq(Id) /\ issued' # <<>> /\ Len(issued') = Len(issued) + 1
        /\ \A k \in 1..Len(issued) : issued'[k] = issued[k]
        /\ issued'[Len(issued) + 1] = id
    BY <1>3, <1>4, <2>1, AppendProperties
  <2>3. DOMAIN issued' = 1..(Len(issued) + 1)
    BY <2>2, LenProperties
  <2> QED
    BY <2>1, <2>2, <2>3
<1>9. /\ events' \in Seq(Event) /\ events \in Seq(Event)
      /\ \A type : Cardinality(Of(type)') =
                     Cardinality(Of(type)) + IF e.type = type THEN 1 ELSE 0
  BY <1>1, <1>4, <1>5, AppendEvent DEF Typed
<1>10. Typed'
  BY <1>1, <1>7, <1>8, <1>9 DEF Typed
<1>11. Turns'
  BY <1>1 DEF Inv, Turns
<1>12. reactors # <<>>
  BY <1>1, NotEmpty
<1>13. Layers'
  <2>1. Full => Full'
    BY <1>6, <1>7 DEF Full
  <2>2. pool = "up" /\ Len(reactors) = ReactorCount
    BY <1>12 DEF Inv, Layers
  <2>3. \A t \in Callers : call[t].pc # "stop pool"
    BY <1>12 DEF Inv, Layers
  <2>4. (\A j \in 1..Len(reactors) : reactors[j].running) =>
           \A j \in 1..Len(reactors') : reactors'[j].running
    BY <1>6, <1>7
  <2> QED
    BY <1>1, <1>7, <2>1, <2>2, <2>3, <2>4 DEF Inv, Layers
<1>14. Pending'
  BY <1>1 DEF Inv, Pending
<1>15. Owned'
  <2>1. \A j \in 1..Len(reactors) : \A x \in reactors[j].conns :
           x[1] = j /\ x[3] < reactors[j].seq
    BY DEF Inv, Owned
  <2>2. \A x \in reactors[i].conns : x[3] \in Nat
    BY <1>1 DEF Id
  <2>3. \A x \in r.conns : x[1] = i /\ x[3] < r.seq
    BY <1>1, <1>3, <1>6, <2>1, <2>2
  <2> QED
    BY <1>6, <1>7, <2>1, <2>3 DEF Inv, Owned
<1>17. Balanced'
  <2>1. id \notin All
    <3> SUFFICES ASSUME NEW j \in 1..Len(reactors), id \in reactors[j].conns PROVE FALSE
      BY <1>1, AllFacts
    <3>1. id[1] = j /\ id[3] < reactors[j].seq
      BY DEF Inv, Owned
    <3> QED
      BY <1>1, <1>3, <3>1
  <2>2. All' = All \cup {id}
    <3>1. ASSUME NEW x PROVE x \in All' <=> \E j \in 1..Len(reactors) : x \in reactors'[j].conns
      BY <1>7 DEF All
    <3>2. ASSUME NEW x PROVE x \in All <=> \E j \in 1..Len(reactors) : x \in reactors[j].conns
      BY <1>1, AllFacts
    <3> QED
      BY <1>1, <1>6, <1>7, <3>1, <3>2
  <2>3. /\ IsFiniteSet(All') /\ Cardinality(All') = Cardinality(All) + 1
        /\ Cardinality(All) \in Nat
    BY <2>1, <2>2, FS_AddElement, FS_CardinalityType DEF Inv, Balanced
  <2>4. Balance' = Balance + 1
    <3>1. active \in Int /\ active' = active
      BY <1>1 DEF Typed
    <3>2. /\ Cardinality(Of("kConnected")') = Cardinality(Of("kConnected")) + 1
          /\ Cardinality(Of("kDisconnected")') = Cardinality(Of("kDisconnected")) + 0
      BY <1>5, <1>9
    <3>3. Cardinality(Of("kConnected")) \in Nat
      BY <1>9, EventFacts
    <3>4. Cardinality(Of("kDisconnected")) \in Nat
      BY <1>9, EventFacts
    <3> QED
      BY <3>1, <3>2, <3>3, <3>4 DEF Balance
  <2>5. Balance = Cardinality(All) + unseen /\ unseen \in Nat /\ unseen' = unseen
    BY <1>1 DEF Inv, Balanced, Typed
  <2> QED
    BY <2>3, <2>4, <2>5 DEF Balanced
<1>18. Dealt'
  BY <1>1, <1>6, <1>7, TurnTaken
<1> QED
  BY <1>10, <1>11, <1>13, <1>14, <1>15, <1>17, <1>18 DEF Inv

\* A queued descriptor that cannot be watched: its number is used up, and that is all.
LEMMA AdditionFails ==
  ASSUME Inv, NEW i \in DOMAIN reactors, DoAddConnection(i),
         reactors' = [reactors EXCEPT ![i] = Skipped(i)], UNCHANGED <<events, issued>>
  PROVE  Inv'
<1> DEFINE r == Skipped(i)
<1>1. /\ Typed /\ i \in 1..Len(reactors) /\ Len(reactors) \in Nat /\ reactors[i] \in Reactor
      /\ reactors[i].adds \in Seq(Fds) /\ reactors[i].adds # <<>> /\ reactors[i].running
      /\ reactors[i].seq \in Nat \ {0} /\ reactors[i].conns \subseteq Id
      /\ UNCHANGED <<state, pool, acceptors, call, active, unseen, left>>
  BY ReactorFacts DEF DoAddConnection, Inv
<1>2. /\ r \in Reactor /\ r.running /\ r.adds = Tail(reactors[i].adds)
      /\ r.conns = reactors[i].conns /\ r.seq = reactors[i].seq + 1
  <2>1. Tail(reactors[i].adds) \in Seq(Fds) /\ reactors[i].seq + 1 \in Nat \ {0}
    BY <1>1, HeadTailProperties
  <2> QED
    BY <1>1, <2>1 DEF Reactor, Skipped
<1> HIDE DEF r
<1>3. /\ reactors' \in Seq(Reactor) /\ Len(reactors') = Len(reactors)
      /\ DOMAIN reactors' = 1..Len(reactors) /\ reactors'[i] = r
      /\ \A j \in 1..Len(reactors) : j # i => reactors'[j] = reactors[j]
  BY <1>1, <1>2, SetReactor DEF r
<1>4. Typed'
  BY <1>1, <1>3 DEF Typed
<1>5. Turns' /\ Pending'
  BY <1>1 DEF Inv, Turns, Pending
<1>6. Layers'
  <2>1. reactors # <<>>
    BY <1>1, NotEmpty
  <2>2. Full => Full'
    BY <1>2, <1>3 DEF Full
  <2>3. /\ pool = "up" /\ Len(reactors) = ReactorCount
        /\ \A t \in Callers : call[t].pc # "stop pool"
    BY <2>1 DEF Inv, Layers
  <2>4. (\A j \in 1..Len(reactors) : reactors[j].running) =>
           \A j \in 1..Len(reactors') : reactors'[j].running
    BY <1>2, <1>3
  <2> QED
    BY <1>1, <1>3, <2>2, <2>3, <2>4 DEF Inv, Layers
<1>7. Owned'
  <2>1. \A x \in reactors[i].conns : x[3] \in Nat /\ x[1] = i /\ x[3] < reactors[i].seq
    BY <1>1 DEF Id, Inv, Owned
  <2>2. \A x \in r.conns : x[1] = i /\ x[3] < r.seq
    BY <1>1, <1>2, <2>1
  <2> QED
    BY <1>2, <1>3, <2>2 DEF Inv, Owned
<1>8. Balanced'
  <2>1. \A j \in 1..Len(reactors) : reactors'[j].conns = reactors[j].conns
    BY <1>2, <1>3
  <2>2. All' = All
    BY <1>1, <1>3, <2>1, ReactorFacts DEF All
  <2> QED
    BY <1>1, <2>2, StillBalanced
<1>9. Dealt'
  BY <1>1, <1>2, <1>3, TurnTaken
<1> QED
  BY <1>4, <1>5, <1>6, <1>7, <1>8, <1>9 DEF Inv

\* DoAddConnection, whether the registration succeeds or not.
LEMMA DoAddConnectionStep ==
  ASSUME Inv, NEW i \in DOMAIN reactors, DoAddConnection(i)
  PROVE  Inv'
<1>1. reactors \in Seq(Reactor) /\ reactors[i] \in Reactor
  BY ReactorFacts DEF Inv, Typed
<1>2. CASE /\ reactors' = [reactors EXCEPT ![i].adds = Tail(@), ![i].conns = @ \cup {NewId(i)},
                                            ![i].seq = @ + 1]
           /\ events' = Append(events, [type |-> "kConnected", id |-> NewId(i)])
           /\ issued' = Append(issued, NewId(i))
  <2>1. reactors' = [reactors EXCEPT ![i] = Added(i)]
    BY <1>1, <1>2 DEF Added
  <2> QED
    BY <1>2, <2>1, AdditionSucceeds
<1>3. CASE /\ reactors' = [reactors EXCEPT ![i].adds = Tail(@), ![i].seq = @ + 1]
           /\ UNCHANGED <<events, issued>>
  <2>1. reactors' = [reactors EXCEPT ![i] = Skipped(i)]
    BY <1>1, <1>3 DEF Skipped
  <2> QED
    BY <1>3, <2>1, AdditionFails
<1> QED
  BY <1>2, <1>3 DEF DoAddConnection, NewId

\* A connection ends: one less, one event more.
LEMMA ConnectionClosesStep ==
  ASSUME Inv, NEW i \in DOMAIN reactors, NEW id \in reactors[i].conns, ConnectionCloses(i, id)
  PROVE  Inv'
<1> DEFINE e == [type |-> "kDisconnected", id |-> id]
           r == [reactors[i] EXCEPT !.conns = @ \ {id}]
<1>1. /\ Typed /\ i \in 1..Len(reactors) /\ Len(reactors) \in Nat /\ reactors[i] \in Reactor
      /\ reactors[i].conns \subseteq Id
      /\ UNCHANGED <<state, pool, acceptors, call, active, issued, unseen, left>>
  BY ReactorFacts DEF ConnectionCloses, Inv
<1>2. events' = Append(events, e) /\ reactors' = [reactors EXCEPT ![i] = r]
  BY <1>1 DEF ConnectionCloses
<1>3. e \in Event /\ e.type = "kDisconnected"
  BY <1>1 DEF Event
<1>4. /\ r \in Reactor /\ r.running = reactors[i].running /\ r.adds = reactors[i].adds
      /\ r.conns = reactors[i].conns \ {id} /\ r.seq = reactors[i].seq
  BY <1>1 DEF Reactor
<1> HIDE DEF e, r
<1>5. /\ reactors' \in Seq(Reactor) /\ Len(reactors') = Len(reactors)
      /\ DOMAIN reactors' = 1..Len(reactors) /\ reactors'[i] = r
      /\ \A j \in 1..Len(reactors) : j # i => reactors'[j] = reactors[j]
  BY <1>1, <1>2, <1>4, SetReactor
<1>6. /\ events' \in Seq(Event) /\ events \in Seq(Event)
      /\ \A type : Cardinality(Of(type)') =
                     Cardinality(Of(type)) + IF e.type = type THEN 1 ELSE 0
  BY <1>1, <1>2, <1>3, AppendEvent DEF Typed
<1>7. Typed'
  BY <1>1, <1>5, <1>6 DEF Typed
<1>8. Turns'
  BY <1>1 DEF Inv, Turns
<1>9. reactors # <<>>
  BY <1>1, NotEmpty
<1>10. \A j \in 1..Len(reactors) : /\ reactors'[j].running = reactors[j].running
                                   /\ reactors'[j].seq = reactors[j].seq
                                   /\ reactors'[j].adds = reactors[j].adds
  BY <1>4, <1>5
<1>11. Layers'
  <2>1. Full => Full'
    BY <1>5, <1>10 DEF Full
  <2>2. pool = "up" /\ Len(reactors) = ReactorCount
    BY <1>9 DEF Inv, Layers
  <2>3. \A t \in Callers : call[t].pc # "stop pool"
    BY <1>9 DEF Inv, Layers
  <2>4. (\A j \in 1..Len(reactors) : reactors[j].running) =>
           \A j \in 1..Len(reactors') : reactors'[j].running
    BY <1>5, <1>10
  <2> QED
    BY <1>1, <1>5, <2>1, <2>2, <2>3, <2>4 DEF Inv, Layers
<1>12. Pending'
  BY <1>1 DEF Inv, Pending
<1>13. Owned'
  BY <1>4, <1>5 DEF Inv, Owned
<1>14. (Fresh' <=> Fresh) /\ (First' <=> First) /\ ~Fresh
  BY <1>1, <1>9 DEF Fresh, First, Inv, Dealt
<1>15. Balanced'
  <2>1. id \in All
    BY <1>1, AllFacts
  <2>2. All' = All \ {id}
    <3>1. ASSUME NEW x PROVE x \in All' <=> \E j \in 1..Len(reactors) : x \in reactors'[j].conns
      BY <1>5 DEF All
    <3>2. ASSUME NEW x PROVE x \in All <=> \E j \in 1..Len(reactors) : x \in reactors[j].conns
      BY <1>1, AllFacts
    <3>3. \A j \in 1..Len(reactors) : id \in reactors[j].conns => j = i
      BY <1>1 DEF Inv, Owned
    <3>4. ASSUME NEW x PROVE x \in All' <=> x \in All /\ x # id
      BY <1>1, <1>4, <1>5, <3>1, <3>2, <3>3
    <3> QED
      BY <3>4
  <2>3. /\ IsFiniteSet(All') /\ Cardinality(All') = Cardinality(All) - 1
        /\ Cardinality(All) \in Nat
    BY <2>1, <2>2, FS_RemoveElement, FS_CardinalityType DEF Inv, Balanced
  <2>4. Balance' = Balance - 1
    <3>1. active \in Int /\ active' = active
      BY <1>1 DEF Typed
    <3>2. /\ Cardinality(Of("kConnected")') = Cardinality(Of("kConnected")) + 0
          /\ Cardinality(Of("kDisconnected")') = Cardinality(Of("kDisconnected")) + 1
      BY <1>3, <1>6
    <3>3. Cardinality(Of("kConnected")) \in Nat
      BY <1>6, EventFacts
    <3>4. Cardinality(Of("kDisconnected")) \in Nat
      BY <1>6, EventFacts
    <3> QED
      BY <3>1, <3>2, <3>3, <3>4 DEF Balance
  <2>5. Balance = Cardinality(All) + unseen /\ unseen \in Nat /\ unseen' = unseen
    BY <1>1 DEF Inv, Balanced, Typed
  <2> QED
    BY <2>3, <2>4, <2>5 DEF Balanced
<1>16. Dealt'
  <2>1. \A j \in 1..Len(reactors) : Got(j)' = Got(j)
    BY <1>1, <1>10 DEF Got
  <2>2. ASSUME First, NEW p \in Names, DOMAIN acceptors = {p}
        PROVE  Even(acceptors[p].next % ReactorCount)'
    <3>1. Even(acceptors[p].next % ReactorCount)
      BY <2>2 DEF Inv, Dealt
    <3> QED
      BY <1>1, <1>5, <2>1, <3>1 DEF Even
  <2>3. Untouched => Untouched'
    BY <1>1, <1>5, <1>10 DEF Untouched
  <2> QED
    BY <1>1, <1>14, <2>2, <2>3 DEF Inv, Dealt
<1> QED
  BY <1>7, <1>8, <1>11, <1>12, <1>13, <1>15, <1>16 DEF Inv

\* The statistics follow one event.
LEMMA OnNetworkEventStep ==
  ASSUME Inv, OnNetworkEvent
  PROVE  Inv'
<1>1. /\ Typed /\ events \in Seq(Event) /\ events # <<>> /\ events' = Tail(events)
      /\ active' = Count(Head(events)) /\ active \in Int
      /\ UNCHANGED <<state, pool, reactors, acceptors, call, issued, unseen, left>>
  BY DEF OnNetworkEvent, Inv, Typed
<1>2. /\ events' \in Seq(Event) /\ Head(events) \in Event
      /\ \A type : Cardinality(Of(type)') =
                     Cardinality(Of(type)) - IF Head(events).type = type THEN 1 ELSE 0
  BY <1>1, TailEvent
<1>3. Head(events).type \in {"kConnected", "kDisconnected"}
  BY <1>2 DEF Event
<1>4. Cardinality(Of("kConnected")) \in Nat
  BY <1>1, EventFacts
<1>5. Cardinality(Of("kDisconnected")) \in Nat
  BY <1>1, EventFacts
<1>6. active' \in Int /\ Balance' = Balance
  <2>0. active \in Int
    BY <1>1
  <2>1. CASE Head(events).type = "kConnected"
    <3>1. /\ active' = active + 1
          /\ Cardinality(Of("kConnected")') = Cardinality(Of("kConnected")) - 1
          /\ Cardinality(Of("kDisconnected")') = Cardinality(Of("kDisconnected")) - 0
      BY <1>1, <1>2, <2>1 DEF Count
    <3> QED
      BY <2>0, <1>4, <1>5, <3>1 DEF Balance
  <2>2. CASE Head(events).type = "kDisconnected"
    <3>1. /\ active' = active - 1
          /\ Cardinality(Of("kConnected")') = Cardinality(Of("kConnected")) - 0
          /\ Cardinality(Of("kDisconnected")') = Cardinality(Of("kDisconnected")) - 1
      BY <1>1, <1>2, <2>2 DEF Count
    <3> QED
      BY <2>0, <1>4, <1>5, <3>1 DEF Balance
  <2> QED
    BY <1>3, <2>1, <2>2
<1>7. Typed'
  BY <1>1, <1>2, <1>6 DEF Typed
<1>8. Turns'
  BY <1>1 DEF Inv, Turns
<1>9. Layers'
  BY <1>1 DEF Inv, Layers, Full
<1>10. Pending'
  BY <1>1 DEF Inv, Pending
<1>11. Owned'
  BY <1>1 DEF Inv, Owned
<1>12. (Fresh' <=> Fresh) /\ (First' <=> First) /\ All' = All
  BY <1>1 DEF Fresh, First, All
<1>13. Balanced'
  BY <1>1, <1>6, <1>12 DEF Inv, Balanced
<1>14. Dealt'
  BY <1>1, <1>12, StillDealt
<1> QED
  BY <1>7, <1>8, <1>9, <1>10, <1>11, <1>13, <1>14 DEF Inv

\* SendData reads the list of reactors and changes nothing of it.
LEMMA SendStep ==
  ASSUME Inv, (\E i \in DOMAIN issued : SendData(issued[i])) \/ SendDataIndexes
  PROVE  Inv'
<1>1. /\ Typed /\ call \in [Callers \cup {Sender} -> Call]
      /\ left \in [starts : 0..MaxStarts, clients : Nat, sends : Nat]
      /\ UNCHANGED <<state, pool, events, reactors, acceptors, active, issued, unseen>>
  BY DEF SendData, SendDataIndexes, Inv, Typed
<1>2. \E c \in Call : call' = [call EXCEPT ![Sender] = c]
  <2>1. CASE SendDataIndexes
    BY <2>1, IdleIsCall DEF SendDataIndexes
  <2>2. ASSUME NEW i \in DOMAIN issued, SendData(issued[i])
        PROVE  \E c \in Call : call' = [call EXCEPT ![Sender] = c]
    <3>1. issued[i] \in Id
      BY <1>1, LenProperties, ElementOfSeq DEF Typed
    <3>2. [Idle EXCEPT !.pc = "send", !.id = issued[i]] \in Call
      BY <3>1, IdleIsCall DEF Call
    <3> QED
      BY <2>2, <3>2 DEF SendData
  <2> QED
    BY <2>1, <2>2
<1>3. /\ call' \in [Callers \cup {Sender} -> Call]
      /\ \A t \in Callers : call'[t] = call[t]
  BY <1>1, <1>2, ServerAssumption
<1>4. /\ left' \in [starts : 0..MaxStarts, clients : Nat, sends : Nat]
      /\ left'.starts = left.starts
  <2>1. CASE left' = left
    BY <1>1, <2>1
  <2>2. CASE left.sends > 0 /\ left' = [left EXCEPT !.sends = @ - 1]
    BY <1>1, <2>2
  <2> QED
    BY <2>1, <2>2 DEF SendData, SendDataIndexes
<1>5. Typed'
  BY <1>1, <1>3, <1>4 DEF Typed
<1>6. Turns'
  BY <1>1, <1>3 DEF Inv, Turns
<1>7. Layers'
  BY <1>1, <1>3 DEF Inv, Layers, Full
<1>8. Pending'
  BY <1>1, <1>3 DEF Inv, Pending
<1>9. Owned'
  BY <1>1 DEF Inv, Owned
<1>10. (Fresh' <=> Fresh) /\ (First' <=> First)
  BY <1>1, <1>4 DEF Fresh, First
<1>11. Balanced'
  BY <1>1, <1>10, StillBalanced DEF All
<1>12. Dealt'
  BY <1>1, <1>10, StillDealt
<1> QED
  BY <1>5, <1>6, <1>7, <1>8, <1>9, <1>11, <1>12 DEF Inv

-----------------------------------------------------------------------------
(* The theorems                                                            *)

\* A new server.
LEMMA InitInv == Init => Inv
<1> SUFFICES ASSUME Init PROVE Inv
  OBVIOUS
<1>1. /\ state = "kStopped" /\ pool = "none" /\ events = <<>> /\ reactors = <<>>
      /\ acceptors = [p \in {} |-> NewAcceptor] /\ DOMAIN acceptors = {}
      /\ call = [t \in Callers \cup {Sender} |-> Idle]
      /\ active = 0 /\ issued = <<>> /\ unseen = 0
      /\ left = [starts |-> MaxStarts, clients |-> MaxClients, sends |-> MaxSends]
      /\ Len(reactors) = 0 /\ Len(events) = 0
  BY EmptySeq DEF Init
<1>2. \A t \in Callers : call[t].pc = "idle"
  BY <1>1, IdleIsCall
<1>3. Typed
  <2>1. events \in Seq(Event) /\ reactors \in Seq(Reactor) /\ issued \in Seq(Id)
    BY <1>1, EmptySeq
  <2>2. acceptors \in [DOMAIN acceptors -> Acceptor] /\ DOMAIN acceptors \subseteq Names
    BY <1>1
  <2>3. call \in [Callers \cup {Sender} -> Call]
    BY <1>1, IdleIsCall
  <2>4. left \in [starts : 0..MaxStarts, clients : Nat, sends : Nat]
    BY <1>1, ServerAssumption
  <2> QED
    BY <1>1, <2>1, <2>2, <2>3, <2>4 DEF Typed
<1>4. Turns
  BY <1>2 DEF Turns, Starting, Stopping
<1>5. Layers
  <2>1. /\ DOMAIN acceptors = {} /\ reactors = <<>> /\ state = "kStopped" /\ events = <<>>
        /\ 1..Len(reactors) = {}
    BY <1>1
  <2> QED
    BY <1>2, <2>1 DEF Layers
<1>6. Pending /\ Owned
  BY <1>1, <1>2 DEF Pending, Owned, Starting
<1>7. Balanced
  <2>1. All = {}
    BY <1>1, <1>3, AllFacts
  <2>2. \A type : Of(type) = {}
    BY <1>1 DEF Of
  <2>3. Balance = 0
    <3>1. Cardinality(Of("kConnected")) = 0 /\ Cardinality(Of("kDisconnected")) = 0
      BY <2>2, FS_EmptySet
    <3> QED
      BY <1>1, <3>1 DEF Balance
  <2> QED
    BY <1>1, <2>1, <2>3, FS_EmptySet DEF Balanced
<1>8. Dealt
  BY <1>1 DEF Dealt, First
<1> QED
  BY <1>3, <1>4, <1>5, <1>6, <1>7, <1>8 DEF Inv

\* Every step keeps the invariant.
LEMMA NextInv == Inv /\ [Next]_vars => Inv'
<1> SUFFICES ASSUME Inv, [Next]_vars PROVE Inv'
  OBVIOUS
<1>1. CASE UNCHANGED vars
  <2>1. /\ UNCHANGED <<state, pool, events, reactors, acceptors, call, active, issued, unseen, left>>
        /\ acceptors \in [DOMAIN acceptors -> Acceptor]
        /\ left \in [starts : 0..MaxStarts, clients : Nat, sends : Nat]
    BY <1>1 DEF vars, Inv, Typed
  <2> QED
    BY <2>1, AcceptorsChange
<1>2. ASSUME NEW t \in Callers, StartInternal(t) \/ StopBegins(t) \/ CallStep(t)
      PROVE  Inv'
  <2>1. CASE StartInternal(t) \/ StopBegins(t)
    BY <2>1, StartInternalStep, StopBeginsStep
  <2>2. CASE InitializeWorkerPool(t) \/ InitializeReactors(t) \/ CreateAndStartAcceptor(t)
             \/ StartReturns(t)
    BY <2>2, InitializeWorkerPoolStep, InitializeReactorsStep, CreateAndStartAcceptorStep,
       StartReturnsStep
  <2>3. CASE AcceptorsStopped(t) \/ ReactorsStopped(t) \/ StopPool(t)
    BY <2>3, AcceptorsStoppedStep, ReactorsStoppedStep, StopPoolStep
  <2>4. CASE \/ \E p \in DOMAIN acceptors : StopAcceptor(t, p) \/ JoinAcceptor(t, p)
             \/ \E i \in DOMAIN reactors : StopReactor(t, i)
    BY <2>4, StopAcceptorStep, StopReactorStep
  <2> QED
    BY <1>2, <2>1, <2>2, <2>3, <2>4 DEF CallStep
<1>3. ASSUME NEW p \in DOMAIN acceptors, AcceptLoop(p) \/ AcceptorStep(p)
      PROVE  Inv'
  BY <1>3, AcceptStep, AssignToReactorStep DEF AcceptorStep
<1>4. ASSUME NEW i \in DOMAIN reactors,
             DoAddConnection(i) \/ \E id \in reactors[i].conns : ConnectionCloses(i, id)
      PROVE  Inv'
  BY <1>4, DoAddConnectionStep, ConnectionClosesStep
<1>5. CASE OnNetworkEvent
  BY <1>5, OnNetworkEventStep
<1>6. CASE (\E i \in DOMAIN issued : SendData(issued[i])) \/ SendDataIndexes
  BY <1>6, SendStep
<1> QED
  BY <1>1, <1>2, <1>3, <1>4, <1>5, <1>6 DEF Next

\* The invariant holds always.
THEOREM Invariance == Spec => []Inv
BY InitInv, NextInv, PTL DEF Spec

\* Each layer rests on a running one below it, whatever the callers of Start and
\* Stop do: an accept thread has all reactors of the list running, and a running
\* reactor, and every event still to be handled, has a pool (Server::Start,
\* Server::Stop).  state_ lets one caller in, and Stop joins the accept threads
\* before it touches the reactors and those before the pool.
THEOREM LayersAlwaysRest == Spec => []LayersRest
<1>1. Inv => LayersRest
  <2> SUFFICES ASSUME Inv PROVE LayersRest
    OBVIOUS
  <2>1. DOMAIN reactors = 1..Len(reactors)
    BY ReactorFacts DEF Inv
  <2>2. (\E i \in DOMAIN reactors : reactors[i].running) => pool = "up"
    <3>1. ASSUME NEW i \in DOMAIN reactors PROVE pool = "up"
      <4>1. reactors # <<>>
        BY <2>1, <3>1, ReactorFacts, NotEmpty DEF Inv
      <4> QED
        BY <4>1 DEF Inv, Layers
    <3> QED
      BY <3>1
  <2> QED
    BY <2>1, <2>2 DEF LayersRest, Inv, Layers, Full
<1> QED
  BY <1>1, Invariance, PTL

\* Once the events are handled active_connections_ is the number of connections
\* in the reactors' tables and of those that a Stop closed without an event, over
\* any number of restarts (OnNetworkEvent counts up and down,
\* Reactor::CleanupAllConnections is silent).
THEOREM ActiveAlwaysCounts == Spec => []ActiveCounts
<1>1. Inv => ActiveCounts
  <2> SUFFICES ASSUME Inv, events = <<>> PROVE active = Counted + unseen
    BY DEF ActiveCounts
  <2>1. Counted = Cardinality(All)
    BY DEF Counted, All
  <2>2. \A type : Of(type) = {}
    BY DEF Of
  <2>3. Cardinality(Of("kConnected")) = 0 /\ Cardinality(Of("kDisconnected")) = 0
    BY <2>2, FS_EmptySet
  <2>4. Balance = active
    BY <2>3 DEF Balance, Inv, Typed
  <2> QED
    BY <2>1, <2>4 DEF Inv, Balanced
<1> QED
  BY <1>1, Invariance, PTL

\* As long as the server is in its first start and has one acceptor, that acceptor
\* deals any number of connections out evenly over any number of reactors, failed
\* registrations included (next_reactor_index_ modulo the size of the list).
THEOREM AlwaysDealtEvenly == Spec => []DealtEvenly
<1>1. Inv => DealtEvenly
  <2> SUFFICES ASSUME Inv, First, Cardinality(DOMAIN acceptors) = 1,
                      NEW i \in 1..Len(reactors), NEW j \in 1..Len(reactors)
               PROVE  Got(i) <= Got(j) + 1
    BY ReactorFacts DEF DealtEvenly, First, Inv
  <2>1. IsFiniteSet(DOMAIN acceptors)
    <3>1. IsFiniteSet(Names)
      <4>1. Names = (({} \cup {"IPv4"}) \cup {"IPv6"}) \cup {"Unix"}
        BY DEF Names
      <4>2. IsFiniteSet({} \cup {"IPv4"})
        BY FS_EmptySet, FS_AddElement
      <4>3. IsFiniteSet(({} \cup {"IPv4"}) \cup {"IPv6"})
        BY <4>2, FS_AddElement
      <4> QED
        BY <4>1, <4>3, FS_AddElement
    <3> QED
      BY <3>1, FS_Subset DEF Inv, Typed
  <2>2. PICK p : DOMAIN acceptors = {p}
    BY <2>1, FS_Singleton
  <2>3. p \in Names
    BY <2>2 DEF Inv, Typed
  <2>4. PICK q \in Nat : \A k \in 1..Len(reactors) :
                           Got(k) = IF k <= acceptors[p].next % ReactorCount THEN q + 1 ELSE q
    BY <2>2, <2>3 DEF Inv, Dealt, Even
  <2>5. Got(i) \in {q, q + 1} /\ Got(j) \in {q, q + 1}
    BY <2>4
  <2> QED
    BY <2>5
<1> QED
  BY <1>1, Invariance, PTL

=============================================================================
