---------------------------- MODULE ClientProofs ----------------------------
(***************************************************************************)
(* Client keeps the order of the bytes it was given, closes every          *)
(* descriptor and watches the socket while data waits, for any number of   *)
(* connections, sends and answers and every size of the buffer.            *)
(***************************************************************************)
EXTENDS Client, SequenceTheorems, TLAPS

Unit == Nat \X {1, 2}
Connection == [has : BOOLEAN, num : Nat, buf : Seq(Unit), write_pending : BOOLEAN,
               unwatched : BOOLEAN]
Socket == [status : {"none", "connecting", "open", "eof", "broken"}, num : Nat, data : BOOLEAN,
           full : BOOLEAN]
Operation == [type : {"kSync", "kAsyncCallback"}, data : Seq(Unit)]
Sent == [unit : Unit, on : Nat]
Kinds == {"connected", "disconnected", "data"}

\* The types of what the invariant speaks of.
Typed == /\ reactor \in {"none", "failed", "up"}
         /\ running \in BOOLEAN
         /\ conn \in Connection
         /\ sock \in Socket
         /\ filters \subseteq {"read", "write"}
         /\ ops \in Seq(Operation)
         /\ events \in Seq(Kinds)
         /\ out \in Seq(Sent)
         /\ accepted \in Seq(Unit)
         /\ left \in [dials : 0..MaxDials, sends : Nat, data : Nat]

\* ConnectInternal between the exchange of state_ and the connection's fields.
Dialling == owner \in {"dial", "init", "monitor", "fields"}

Losses == {i \in 1..Len(events) : events[i] = "disconnected"}

\* The worker is told once of each lost connection, and only after that is the
\* state kDisconnected: a Connect that dials finds no connection and no news of one.
OneAtATime ==
  /\ \A i, j \in Losses : i = j
  /\ Losses # {} => state # "kDisconnected" /\ ~conn.has
  /\ conn.has => state # "kDisconnected"
  /\ Dialling => Losses = {} /\ ~conn.has /\ state # "kDisconnected"

\* There is a descriptor while Connect holds one or the reactor has the connection.
Held ==
  /\ sock.status # "none" => owner \in {"init", "monitor", "fields"} \/ conn.has
  /\ conn.has => reactor = "up"
  /\ running => reactor = "up"
  /\ owner = "monitor" => reactor # "none"
  /\ owner = "fields" => reactor = "up" /\ filters = {"read"}
  /\ owner = "join" => ~running
  /\ owner = "pool" => reactor = "none"

\* write_pending says truly that the filter is there, and is set while units wait,
\* but for the times that unwatched records.
Watched == (conn.has /\ ~conn.unwatched) =>
             /\ conn.write_pending => "write" \in filters
             /\ conn.buf # <<>> => conn.write_pending

\* The inductive invariant.
Inv == Typed /\ OneAtATime /\ Held /\ Watched /\ StreamInOrder

-----------------------------------------------------------------------------
(* Sequences                                                               *)

Units(o) == [i \in DOMAIN o |-> o[i].unit]

\* What the units of out are.
LEMMA UnitsFacts ==
  ASSUME NEW o \in Seq([unit : Unit, on : Nat])
  PROVE  /\ Units(o) \in Seq(Unit) /\ Len(Units(o)) = Len(o) /\ Len(o) \in Nat
         /\ \A i \in 1..Len(o) : Units(o)[i] = o[i].unit
<1>1. DOMAIN o = 1..Len(o) /\ Len(o) \in Nat
  BY LenProperties
<1>2. \A i \in 1..Len(o) : o[i] \in [unit : Unit, on : Nat]
  BY ElementOfSeq
<1>3. \A i \in 1..Len(o) : o[i].unit \in Unit
  BY <1>2
<1>4. Units(o) = [i \in 1..Len(o) |-> o[i].unit]
  BY <1>1 DEF Units
<1>5. Units(o) \in Seq(Unit) /\ Len(Units(o)) = Len(o)
  BY <1>1, <1>3, <1>4
<1> QED
  BY <1>1, <1>4, <1>5

\* Concatenation of units is associative.
LEMMA Associative ==
  ASSUME NEW s \in Seq(Unit), NEW t \in Seq(Unit), NEW r \in Seq(Unit)
  PROVE  (s \o t) \o r = s \o (t \o r)
BY ConcatAssociative, SMT

\* The units of two sequences put together.
LEMMA UnitsConcat ==
  ASSUME NEW o \in Seq(Sent), NEW p \in Seq(Sent)
  PROVE  Units(o \o p) = Units(o) \o Units(p)
<1>1. /\ Len(o) \in Nat /\ Len(p) \in Nat
      /\ Units(o) \in Seq(Unit) /\ Len(Units(o)) = Len(o)
      /\ Units(p) \in Seq(Unit) /\ Len(Units(p)) = Len(p)
      /\ \A i \in 1..Len(o) : Units(o)[i] = o[i].unit
      /\ \A i \in 1..Len(p) : Units(p)[i] = p[i].unit
  BY UnitsFacts DEF Sent
<1>2. /\ o \o p \in Seq(Sent) /\ Len(o \o p) = Len(o) + Len(p)
      /\ \A i \in 1..(Len(o) + Len(p)) : (o \o p)[i] = IF i <= Len(o) THEN o[i] ELSE p[i - Len(o)]
  BY ConcatProperties
<1>3. /\ Units(o \o p) \in Seq(Unit) /\ Len(Units(o \o p)) = Len(o) + Len(p)
      /\ \A i \in 1..(Len(o) + Len(p)) : Units(o \o p)[i] = (o \o p)[i].unit
  BY <1>2, UnitsFacts DEF Sent
<1> DEFINE v == Units(o) \o Units(p)
           w == Units(o \o p)
<1>4. /\ v \in Seq(Unit) /\ Len(v) = Len(o) + Len(p)
      /\ \A i \in 1..(Len(o) + Len(p)) : v[i] = IF i <= Len(o) THEN Units(o)[i] ELSE Units(p)[i - Len(o)]
  <2>1. /\ v \in Seq(Unit) /\ Len(v) = Len(Units(o)) + Len(Units(p))
        /\ \A i \in 1..(Len(Units(o)) + Len(Units(p))) :
             v[i] = IF i <= Len(Units(o)) THEN Units(o)[i] ELSE Units(p)[i - Len(Units(o))]
    <3>1. \A s, t \in Seq(Unit) :
            /\ s \o t \in Seq(Unit) /\ Len(s \o t) = Len(s) + Len(t)
            /\ \A i \in 1..(Len(s) + Len(t)) :
                 (s \o t)[i] = IF i <= Len(s) THEN s[i] ELSE t[i - Len(s)]
      BY ConcatProperties
    <3> QED
      BY <1>1, <3>1
  <2> QED
    BY <1>1, <2>1
<1>5. ASSUME NEW i \in 1..(Len(o) + Len(p)) PROVE w[i] = v[i]
  <2>0. i \in Int /\ i >= 1 /\ i <= Len(o) + Len(p)
    BY <1>1
  <2>1. CASE i <= Len(o)
    <3>1. i \in 1..Len(o)
      BY <1>1, <2>0, <2>1
    <3>2. w[i] = o[i].unit
      BY <1>2, <1>3, <2>1
    <3>3. v[i] = Units(o)[i]
      BY <1>4, <2>1
    <3> QED
      BY <1>1, <3>1, <3>2, <3>3
  <2>2. CASE ~(i <= Len(o))
    <3>1. i - Len(o) \in 1..Len(p)
      BY <1>1, <2>0, <2>2
    <3>2. w[i] = p[i - Len(o)].unit
      BY <1>2, <1>3, <2>2
    <3>3. v[i] = Units(p)[i - Len(o)]
      BY <1>4, <2>2
    <3> QED
      BY <1>1, <3>1, <3>2, <3>3
  <2> QED
    BY <2>1, <2>2
<1>6. w \in Seq(Unit) /\ Len(w) = Len(v) /\ Len(w) = Len(o) + Len(p)
  BY <1>3, <1>4
<1> HIDE DEF v, w
<1>7. v \in Seq(Unit)
  BY <1>4 DEF v
<1>8. \A i \in 1..Len(w) : w[i] = v[i]
  BY <1>5, <1>6
<1>9. w = v
  BY <1>6, <1>7, <1>8, SeqEqual
<1> QED
  BY <1>9 DEF v, w

\* The first k units of b, sent on connection n.
Taken(b, k, n) == [i \in 1..k |-> [unit |-> b[i], on |-> n]]

\* send() takes k units: what has left and what is left, together, is what was there.
LEMMA SplitStream ==
  ASSUME NEW o \in Seq(Sent), NEW b \in Seq(Unit), NEW k \in 0..Len(b), NEW n \in Nat
  PROVE  /\ o \o Taken(b, k, n) \in Seq(Sent) /\ SubSeq(b, k + 1, Len(b)) \in Seq(Unit)
         /\ Units(o \o Taken(b, k, n)) \o SubSeq(b, k + 1, Len(b)) = Units(o) \o b
<1> DEFINE o1 == o \o Taken(b, k, n)
           b1 == SubSeq(b, k + 1, Len(b))
<1> DEFINE now == Taken(b, k, n)
           b0 == SubSeq(b, 1, k)
<1>1. /\ Len(b) \in Nat /\ k \in Nat /\ k <= Len(b)
      /\ \A i \in 1..Len(b) : b[i] \in Unit
  BY LenProperties, ElementOfSeq
<1>2. \A i \in 1..k : [unit |-> b[i], on |-> n] \in Sent
  BY <1>1 DEF Sent
<1>3. /\ now \in Seq(Sent) /\ Len(now) = k
      /\ \A i \in 1..k : now[i] = [unit |-> b[i], on |-> n]
  BY <1>1, <1>2 DEF Taken
<1>4. o1 = o \o now
  OBVIOUS
<1> HIDE DEF now
<1>5. \A i \in 1..k : b[i] \in Unit
  BY <1>1
<1>6. /\ b0 \in Seq(Unit) /\ Len(b0) = IF 1 <= k THEN k - 1 + 1 ELSE 0
      /\ \A i \in 1..(k - 1 + 1) : b0[i] = b[1 + i - 1]
  BY <1>1, <1>5, SubSeqProperties
<1>7. Len(b0) = k /\ \A i \in 1..k : b0[i] = b[i]
  BY <1>1, <1>6
<1>8. \A i \in (k + 1)..Len(b) : b[i] \in Unit
  BY <1>1
<1>9. b1 \in Seq(Unit)
  BY <1>1, <1>8, SubSeqProperties
<1>10. b0 \o b1 = b
  <2>1. 1 \in 1..(Len(b) + 1) /\ k \in (1 - 1)..Len(b) /\ Len(b) \in k..Len(b)
    BY <1>1
  <2>2. SubSeq(b, 1, k) \o SubSeq(b, k + 1, Len(b)) = SubSeq(b, 1, Len(b))
    BY <2>1, ConcatAdjacentSubSeq
  <2> QED
    BY <2>2, SubSeqFull
<1> HIDE DEF b0, b1, o1
<1>11. Units(now) = b0
  <2>1. /\ Units(now) \in Seq(Unit) /\ Len(Units(now)) = k
        /\ \A i \in 1..k : Units(now)[i] = now[i].unit
    BY <1>3, UnitsFacts DEF Sent
  <2>2. \A i \in 1..k : Units(now)[i] = b0[i]
    BY <1>3, <1>7, <2>1
  <2> QED
    BY <1>6, <1>7, <2>1, <2>2, SeqEqual
<1>12. o1 \in Seq(Sent)
  BY <1>3, <1>4, ConcatProperties
<1>13. Units(o) \in Seq(Unit)
  BY UnitsFacts DEF Sent
<1>14. Units(o1) = Units(o) \o b0
  BY <1>3, <1>4, <1>11, UnitsConcat
<1>15. (Units(o) \o b0) \o b1 = Units(o) \o (b0 \o b1)
  BY <1>6, <1>9, <1>13, Associative
<1> QED
  BY <1>9, <1>10, <1>12, <1>14, <1>15 DEF o1, b1

\* One more event for the worker.
LEMMA AppendKind ==
  ASSUME NEW k \in Kinds, events \in Seq(Kinds), events' = Append(events, k)
  PROVE  /\ events' \in Seq(Kinds)
         /\ Losses' = IF k = "disconnected" THEN Losses \cup {Len(events) + 1} ELSE Losses
<1>1. /\ events' \in Seq(Kinds) /\ Len(events') = Len(events) + 1 /\ Len(events) \in Nat
      /\ \A i \in 1..Len(events) : events'[i] = events[i]
      /\ events'[Len(events) + 1] = k
  BY AppendProperties, LenProperties
<1> QED
  BY <1>1 DEF Losses

-----------------------------------------------------------------------------
(* The event loop sends, or loses the connection                           *)

\* A step that keeps the connection as it is, and one that loses it.
Same == /\ conn'.has = conn.has
        /\ sock'.status # "none" => sock.status # "none"
        /\ conn.has \/ filters' = filters
        /\ Losses' = Losses
Lost == /\ conn.has /\ ~conn'.has
        /\ sock'.status = "none"
        /\ Losses = {} => \A i, j \in Losses' : i = j

\* The owner, who is between two of his steps, finds either all the same to him.
LEMMA LoopKeeps ==
  ASSUME OneAtATime, Held, UNCHANGED <<state, owner, reactor, running>>, Same \/ Lost
  PROVE  OneAtATime' /\ Held'
<1>1. CASE Same
  <2>1. OneAtATime'
    BY <1>1 DEF OneAtATime, Dialling, Same
  <2>2. Held'
    BY <1>1 DEF OneAtATime, Held, Dialling, Same
  <2> QED
    BY <2>1, <2>2
<1>2. CASE Lost
  <2>1. conn.has /\ Losses = {} /\ ~Dialling /\ state # "kDisconnected"
    BY <1>2 DEF OneAtATime, Lost
  <2>2. OneAtATime'
    BY <1>2, <2>1 DEF OneAtATime, Dialling, Lost
  <2>3. Held'
    BY <1>2, <2>1 DEF Held, Dialling, Lost
  <2> QED
    BY <2>2, <2>3
<1> QED
  BY <1>1, <1>2

\* RemoveConnection with its event.
LEMMA Removed ==
  ASSUME Typed, NEW c \in Connection, c.has, conn.has, RemoveConnection(c),
         Dispatch("disconnected")
  PROVE  /\ conn' \in Connection /\ sock' \in Socket /\ filters' \subseteq {"read", "write"}
         /\ events' \in Seq(Kinds)
         /\ conn'.buf = c.buf /\ Watched' /\ Lost
<1>1. /\ conn' \in Connection /\ conn'.buf = c.buf /\ ~conn'.has
  BY DEF RemoveConnection, Connection
<1>2. /\ sock' \in Socket /\ sock'.status = "none" /\ filters' = {}
  BY DEF RemoveConnection, Socket, NoSock
<1>3. events' \in Seq(Kinds) /\ Losses' = Losses \cup {Len(events) + 1}
  BY AppendKind DEF Dispatch, Typed, Kinds
<1> QED
  BY <1>1, <1>2, <1>3 DEF Watched, Lost

\* send() takes k units of c.buf.
LEMMA TakesKeeps ==
  ASSUME Typed, Watched, NEW c \in Connection, c.has = conn.has, conn.has,
         c.unwatched = conn.unwatched, c.write_pending = conn.write_pending,
         NEW k \in 0..Len(c.buf), Takes(c, k)
  PROVE  /\ conn' \in Connection /\ sock' \in Socket /\ filters' \subseteq {"read", "write"}
         /\ events' \in Seq(Kinds) /\ out' \in Seq(Sent)
         /\ Units(out') \o conn'.buf = Units(out) \o c.buf
         /\ Watched' /\ Same
<1> DEFINE rest == SubSeq(c.buf, k + 1, Len(c.buf))
<1>1. c.buf \in Seq(Unit) /\ sock.num \in Nat /\ sock \in Socket
  BY DEF Typed, Connection, Socket
<1>2. /\ out' = out \o Taken(c.buf, k, sock.num)
      /\ out \in Seq(Sent)
  BY DEF Takes, Typed, Taken
<1>3. /\ out' \in Seq(Sent) /\ rest \in Seq(Unit)
      /\ Units(out') \o rest = Units(out) \o c.buf
  <2>1. /\ out \o Taken(c.buf, k, sock.num) \in Seq(Sent) /\ rest \in Seq(Unit)
        /\ Units(out \o Taken(c.buf, k, sock.num)) \o rest = Units(out) \o c.buf
    BY <1>1, <1>2, SplitStream
  <2> QED
    BY <1>2, <2>1
<1>4. PICK ok \in BOOLEAN :
        /\ conn' = [c EXCEPT !.buf = rest, !.write_pending = rest # <<>>,
                     !.unwatched = rest # <<>> /\ IF c.write_pending THEN @ ELSE ~ok]
        /\ filters' = WriteFilter(c, rest, ok)
        /\ sock' = [sock EXCEPT !.full = k < Len(c.buf)]
        /\ events' = events
  BY DEF Takes, Rest
<1> HIDE DEF rest
<1> DEFINE unwatched == rest # <<>> /\ IF c.write_pending THEN c.unwatched ELSE ~ok
<1>5. (rest # <<>>) \in BOOLEAN /\ (k < Len(c.buf)) \in BOOLEAN /\ unwatched \in BOOLEAN
  OBVIOUS
<1>6. /\ conn' \in Connection /\ conn'.has = c.has /\ conn'.unwatched = unwatched
      /\ conn'.buf = rest /\ conn'.write_pending = (rest # <<>>)
  BY <1>3, <1>4, <1>5 DEF Connection
<1>7. sock' \in Socket /\ sock'.status = sock.status
  BY <1>1, <1>4, <1>5 DEF Socket
<1>8. filters' = filters \/ filters' = filters \cup {"write"} \/ filters' = filters \ {"write"}
  BY <1>4 DEF WriteFilter
<1>9. Watched'
  <2> SUFFICES ASSUME rest # <<>>, ~unwatched PROVE "write" \in filters'
    BY <1>6 DEF Watched
  <2>1. CASE c.write_pending
    BY <1>4, <2>1 DEF Watched, WriteFilter
  <2>2. CASE ~c.write_pending
    BY <1>4, <2>2 DEF WriteFilter
  <2> QED
    BY <2>1, <2>2
<1>10. Losses' = Losses
  BY <1>4 DEF Losses
<1>11. filters' \subseteq {"read", "write"} /\ events' \in Seq(Kinds)
  BY <1>4, <1>8 DEF Typed
<1> QED
  BY <1>3, <1>6, <1>7, <1>9, <1>10, <1>11 DEF Same

\* TrySendDirect for conn, with what Write may have put at the end of its buffer.
LEMMA SendDirect ==
  ASSUME Typed, Watched, NEW c \in Connection, c.has = conn.has,
         c.unwatched = conn.unwatched, c.write_pending = conn.write_pending,
         TrySendDirect(c)
  PROVE  /\ conn' \in Connection /\ sock' \in Socket /\ filters' \subseteq {"read", "write"}
         /\ events' \in Seq(Kinds) /\ out' \in Seq(Sent)
         /\ Units(out') \o conn'.buf = Units(out) \o c.buf
         /\ Watched' /\ (Same \/ Lost)
<1>1. CASE ~c.has /\ conn' = c /\ UNCHANGED <<filters, sock, out, events>>
  <2>1. Losses' = Losses
    BY <1>1 DEF Losses
  <2> QED
    BY <1>1, <2>1 DEF Typed, Watched, Same, Connection
<1>2. CASE /\ c.has
           /\ \E k \in (IF sock.full \/ c.buf = <<>> THEN {0} ELSE 1..Len(c.buf)) : Takes(c, k)
  <2>1. Len(c.buf) \in Nat
    BY LenProperties DEF Connection
  <2>2. PICK k \in 0..Len(c.buf) : Takes(c, k)
    BY <1>2, <2>1
  <2> QED
    BY <1>2, <2>2, TakesKeeps
<1>3. CASE c.has /\ RemoveConnection(c) /\ Dispatch("disconnected") /\ UNCHANGED out
  <2>1. out' \in Seq(Sent) /\ out' = out
    BY <1>3 DEF Typed
  <2> QED
    BY <1>3, <2>1, Removed
<1> QED
  BY <1>1, <1>2, <1>3 DEF TrySendDirect

-----------------------------------------------------------------------------
(* One lemma per thread, one step per action                               *)

LEMMA InitInv == Init => Inv
<1> SUFFICES ASSUME Init PROVE Inv
  OBVIOUS
<1>1. conn \in Connection /\ conn.has = FALSE /\ conn.buf = <<>>
  BY EmptySeq DEF Init, NoConn, Connection
<1>2. sock \in Socket /\ sock.status = "none"
  BY DEF Init, NoSock, Socket
<1>3. left \in [dials : 0..MaxDials, sends : Nat, data : Nat]
  BY ClientAssumption DEF Init
<1>4. /\ ops \in Seq(Operation) /\ events \in Seq(Kinds) /\ out \in Seq(Sent)
      /\ accepted \in Seq(Unit) /\ Len(events) = 0
  BY EmptySeq DEF Init
<1>5. Typed
  BY <1>1, <1>2, <1>3, <1>4 DEF Init, Typed
<1>6. Losses = {}
  BY <1>4 DEF Losses
<1>7. OneAtATime /\ Held /\ Watched
  BY <1>1, <1>2, <1>6 DEF Init, OneAtATime, Held, Watched, Dialling
<1>8. Units(out) = <<>>
  <2>1. Units(out) \in Seq(Unit) /\ Len(Units(out)) = 0
    BY <1>4, UnitsFacts, EmptySeq DEF Init, Sent
  <2> QED
    BY <2>1, EmptySeq
<1>9. StreamInOrder
  BY <1>1, <1>8, ConcatEmptySeq, EmptySeq DEF Init, StreamInOrder, Units
<1> QED
  BY <1>5, <1>7, <1>9 DEF Inv

\* Steps that leave the stream, the queue and the connection's buffer alone.
LEMMA SameStream ==
  ASSUME StreamInOrder, conn'.buf = conn.buf, UNCHANGED <<out, accepted>>
  PROVE  StreamInOrder'
BY DEF StreamInOrder

LEMMA SameLosses ==
  ASSUME UNCHANGED events
  PROVE  Losses' = Losses
BY DEF Losses

LEMMA ConnectInternalInv == Inv /\ ConnectInternal => Inv'
<1> SUFFICES ASSUME Inv, ConnectInternal PROVE Inv'
  OBVIOUS
<1> USE DEF ConnectInternal, reactorVars
<1>1. left' \in [dials : 0..MaxDials, sends : Nat, data : Nat]
  <2>1. left \in [dials : 0..MaxDials, sends : Nat, data : Nat] /\ left.dials > 0
    BY DEF Inv, Typed
  <2>2. left.dials \in 0..MaxDials /\ MaxDials \in Nat
    BY <2>1, ClientAssumption
  <2>3. left.dials - 1 \in 0..MaxDials
    BY <2>1, <2>2
  <2>4. left' = [left EXCEPT !.dials = left.dials - 1]
    OBVIOUS
  <2> QED
    BY <2>1, <2>3, <2>4
<1>2. Typed'
  BY <1>1 DEF Inv, Typed
<1>3. OneAtATime'
  BY SameLosses DEF Inv, OneAtATime, Dialling
<1>4. Held' /\ Watched' /\ StreamInOrder'
  BY SameStream DEF Inv, Held, Watched
<1> QED
  BY <1>2, <1>3, <1>4 DEF Inv

LEMMA GivesUp ==
  ASSUME Inv, Dialling, ConnectGivesUp, reactor' \in {"none", "failed", "up"},
         reactor' = reactor \/ reactor = "none",
         UNCHANGED <<running, conn, ops, events, left, out, accepted>>
  PROVE  Inv'
<1>1. sock' \in Socket /\ sock'.status = "none" /\ filters' = {}
  BY DEF ConnectGivesUp, NoSock, Socket
<1>2. Typed'
  BY <1>1 DEF Inv, Typed
<1>3. ~conn.has /\ Losses' = {}
  BY SameLosses DEF Inv, OneAtATime
<1>4. OneAtATime'
  BY <1>3 DEF OneAtATime, Dialling, ConnectGivesUp
<1>5. Held'
  BY <1>1, <1>3 DEF Inv, Held, ConnectGivesUp
<1>6. Watched' /\ StreamInOrder'
  BY <1>3, SameStream DEF Inv, Watched
<1> QED
  BY <1>2, <1>4, <1>5, <1>6 DEF Inv

LEMMA DialInv == Inv /\ Dial => Inv'
<1> SUFFICES ASSUME Inv, Dial PROVE Inv'
  OBVIOUS
<1>1. CASE ConnectGivesUp
  BY <1>1, GivesUp DEF Dial, Dialling, Inv, Typed
<1>2. ASSUME NEW s \in {"connecting", "open"},
             sock' = [NoSock EXCEPT !.status = s, !.num = Num],
             owner' = "init", UNCHANGED <<state, filters>>
      PROVE  Inv'
  <2>1. Num \in Nat
    BY ClientAssumption DEF Num, Inv, Typed
  <2>2. sock' \in Socket
    BY <1>2, <2>1 DEF NoSock, Socket
  <2>3. Typed'
    BY <1>2, <2>2 DEF Dial, Inv, Typed
  <2>4. OneAtATime'
    BY <1>2, SameLosses DEF Dial, Inv, OneAtATime, Dialling
  <2>5. Held' /\ Watched' /\ StreamInOrder'
    BY <1>2, SameStream DEF Dial, Inv, Held, Watched
  <2> QED
    BY <2>3, <2>4, <2>5 DEF Inv
<1> QED
  BY <1>1, <1>2 DEF Dial

LEMMA InitReactorInv == Inv /\ InitReactor => Inv'
<1> SUFFICES ASSUME Inv, InitReactor PROVE Inv'
  OBVIOUS
<1>1. CASE reactor' \in {"none", "failed"} /\ reactor = "none" /\ ConnectGivesUp /\ UNCHANGED running
  BY <1>1, GivesUp DEF InitReactor, Dialling
<1>2. CASE \/ reactor = "none" /\ ReactorStarts /\ owner' = "monitor" /\ UNCHANGED <<state, sock, filters>>
           \/ /\ reactor # "none" /\ owner' = "monitor"
              /\ UNCHANGED <<reactor, running, state, sock, filters>>
  <2>1. Typed'
    BY <1>2 DEF InitReactor, ReactorStarts, Inv, Typed
  <2>2. OneAtATime'
    BY <1>2, SameLosses DEF InitReactor, Inv, OneAtATime, Dialling
  <2>3. Held' /\ Watched' /\ StreamInOrder'
    BY <1>2, SameStream DEF InitReactor, ReactorStarts, Inv, Held, Watched
  <2> QED
    BY <2>1, <2>2, <2>3 DEF Inv
<1> QED
  BY <1>1, <1>2 DEF InitReactor

LEMMA StartReadMonitorInv == Inv /\ StartReadMonitor => Inv'
<1> SUFFICES ASSUME Inv, StartReadMonitor PROVE Inv'
  OBVIOUS
<1>1. CASE ConnectGivesUp
  BY <1>1, GivesUp DEF StartReadMonitor, Dialling, Inv, Typed
<1>2. CASE running /\ filters' = {"read"} /\ owner' = "fields" /\ UNCHANGED <<sock, state>>
  <2>1. Typed'
    BY <1>2 DEF StartReadMonitor, Inv, Typed
  <2>2. OneAtATime' /\ ~conn.has
    BY <1>2, SameLosses DEF StartReadMonitor, Inv, OneAtATime, Dialling
  <2>3. Held' /\ Watched' /\ StreamInOrder'
    BY <1>2, <2>2, SameStream DEF StartReadMonitor, Inv, Held, Watched
  <2> QED
    BY <2>1, <2>2, <2>3 DEF Inv
<1> QED
  BY <1>1, <1>2 DEF StartReadMonitor

LEMMA SetFieldsInv == Inv /\ SetFields => Inv'
<1> SUFFICES ASSUME Inv, SetFields PROVE Inv'
  OBVIOUS
<1>1. Num \in Nat
  BY ClientAssumption DEF Num, Inv, Typed
<1>2. conn \in Connection
  BY DEF Inv, Typed
<1>3. (conn.buf # <<>> \/ conn.write_pending) \in BOOLEAN
  OBVIOUS
<1>4. /\ conn' \in Connection /\ conn'.has /\ conn'.buf = conn.buf
      /\ conn'.unwatched = (conn.buf # <<>> \/ conn.write_pending)
      /\ conn'.write_pending = conn.write_pending
  BY <1>1, <1>2, <1>3 DEF SetFields, Connection
<1>5. Typed'
  BY <1>4 DEF SetFields, Inv, Typed
<1>6. OneAtATime'
  BY <1>4, SameLosses DEF SetFields, Inv, OneAtATime, Dialling
<1>7. Held' /\ StreamInOrder'
  BY <1>4, SameStream DEF SetFields, Inv, Held
<1>8. "write" \notin filters' /\ conn.write_pending \in BOOLEAN
  BY <1>2 DEF SetFields, Inv, Held, Connection
<1>9. Watched'
  BY <1>4, <1>8 DEF Watched
<1> QED
  BY <1>5, <1>6, <1>7, <1>9 DEF Inv

LEMMA SetConnectionReturnsInv == Inv /\ SetConnectionReturns => Inv'
<1> SUFFICES ASSUME Inv, SetConnectionReturns PROVE Inv'
  OBVIOUS
<1> USE DEF SetConnectionReturns, reactorVars
<1>1. events' \in Seq(Kinds) /\ Losses' = Losses
  BY AppendKind DEF Dispatch, Inv, Typed, Kinds
<1>2. Typed'
  BY <1>1 DEF Inv, Typed
<1>3. OneAtATime' /\ Held' /\ Watched' /\ StreamInOrder'
  BY <1>1, SameStream DEF Inv, OneAtATime, Dialling, Held, Watched
<1> QED
  BY <1>2, <1>3 DEF Inv

LEMMA ClosingInv == Inv /\ (Disconnect \/ GracefulShutdown \/ GracefulEnds) => Inv'
<1> SUFFICES ASSUME Inv, Disconnect \/ GracefulShutdown \/ GracefulEnds PROVE Inv'
  OBVIOUS
<1>1. UNCHANGED <<reactor, running, conn, filters, ops, sock, events, left, out, accepted>>
  BY DEF Disconnect, GracefulShutdown, GracefulEnds, reactorVars
<1>2. /\ owner \in {"idle", "graceful"} /\ owner' \in {"stop", "graceful", "idle"}
      /\ state' = state \/ (state # "kDisconnected" /\ state' # "kDisconnected")
  BY DEF Disconnect, GracefulShutdown, GracefulEnds, MayClose, Closing
<1>3. Typed' /\ Watched' /\ StreamInOrder'
  BY <1>1, SameStream DEF Inv, Typed, Watched
<1>4. OneAtATime'
  BY <1>1, <1>2, SameLosses DEF Inv, OneAtATime, Dialling
<1>5. Held'
  BY <1>1, <1>2 DEF Inv, Held
<1> QED
  BY <1>3, <1>4, <1>5 DEF Inv

LEMMA StopInv == Inv /\ Stop => Inv'
<1> SUFFICES ASSUME Inv, Stop PROVE Inv'
  OBVIOUS
<1>1. sock' \in Socket /\ (conn.has \/ sock' = sock)
  BY DEF Stop, Inv, Typed, Socket
<1>2. Typed' /\ Watched' /\ StreamInOrder'
  BY <1>1, SameStream DEF Stop, Inv, Typed, Watched
<1>3. OneAtATime'
  BY SameLosses DEF Stop, Inv, OneAtATime, Dialling
<1>4. Held'
  BY <1>1 DEF Stop, Inv, Held
<1> QED
  BY <1>2, <1>3, <1>4 DEF Inv

LEMMA StopJoinInv == Inv /\ StopJoin => Inv'
<1> SUFFICES ASSUME Inv, StopJoin PROVE Inv'
  OBVIOUS
<1>1. sock' \in Socket /\ sock'.status = "none"
  BY DEF StopJoin, StopCloses, Inv, Typed, Held, NoSock, Socket
<1>2. conn' \in Connection /\ ~conn'.has /\ conn'.buf = <<>>
  BY EmptySeq DEF StopJoin, NoConn, Connection
<1>3. Units(out) \in Seq(Unit)
  BY UnitsFacts DEF Inv, Typed, Sent
<1>4. accepted' = Units(out) /\ out' = out
  BY DEF StopJoin, Units
<1>5. ops' \in Seq(Operation)
  BY EmptySeq DEF StopJoin
<1>6. Typed'
  BY <1>1, <1>2, <1>3, <1>4, <1>5 DEF StopJoin, Inv, Typed
<1>7. OneAtATime'
  BY <1>2, SameLosses DEF StopJoin, Inv, OneAtATime, Dialling
<1>8. Held' /\ Watched'
  BY <1>1, <1>2 DEF StopJoin, Inv, Held, Watched
<1>9. Units(out) \o <<>> = Units(out)
  BY <1>3, ConcatEmptySeq
<1>10. StreamInOrder'
  BY <1>2, <1>4, <1>9 DEF StreamInOrder, Units
<1> QED
  BY <1>6, <1>7, <1>8, <1>10 DEF Inv

LEMMA CloseReturnsInv == Inv /\ CloseReturns => Inv'
<1> SUFFICES ASSUME Inv, CloseReturns PROVE Inv'
  OBVIOUS
<1> USE DEF CloseReturns, reactorVars
<1>1. Losses = {}
  BY EmptySeq DEF Losses
<1>2. ~conn.has /\ Losses' = {}
  BY <1>1, SameLosses DEF Inv, Held
<1>3. Typed' /\ Watched' /\ StreamInOrder'
  BY SameStream DEF Inv, Typed, Watched
<1>4. OneAtATime' /\ Held'
  BY <1>2 DEF Inv, OneAtATime, Dialling, Held
<1> QED
  BY <1>3, <1>4 DEF Inv

LEMMA EnqueueTyped ==
  ASSUME Inv, left.sends > 0, NEW type \in {"kSync", "kAsyncCallback"}, Enqueue(type)
  PROVE  ops' \in Seq(Operation) /\ left' \in [dials : 0..MaxDials, sends : Nat, data : Nat]
<1>1. left \in [dials : 0..MaxDials, sends : Nat, data : Nat] /\ ops \in Seq(Operation)
  BY DEF Inv, Typed
<1>2. left.sends \in Nat /\ left.sends - 1 \in Nat
  BY <1>1
<1>3. <<left.sends, 1>> \in Unit /\ <<left.sends, 2>> \in Unit
  BY <1>2 DEF Unit
<1>4. Payload(left.sends) \in Seq(Unit)
  BY <1>3 DEF Payload
<1>5. [type |-> type, data |-> Payload(left.sends)] \in Operation
  BY <1>4 DEF Operation
<1>6. ops' \in Seq(Operation)
  BY <1>1, <1>5, AppendProperties DEF Enqueue
<1>7. left' = [left EXCEPT !.sends = left.sends - 1]
  BY DEF Enqueue
<1> QED
  BY <1>1, <1>2, <1>6, <1>7

LEMMA SenderInv == Inv /\ (SendData \/ SendAsync \/ SendSyncTimesOut) => Inv'
<1> SUFFICES ASSUME Inv, SendData \/ SendAsync \/ SendSyncTimesOut PROVE Inv'
  OBVIOUS
<1>1. UNCHANGED <<state, owner, reactor, running, conn, filters, sock, events, out, accepted>>
  BY DEF SendData, SendAsync, SendSyncTimesOut, reactorVars
<1>2. ops' \in Seq(Operation) /\ left' \in [dials : 0..MaxDials, sends : Nat, data : Nat]
  <2>1. CASE SendData
    BY <2>1, EnqueueTyped DEF SendData, MaySend
  <2>2. CASE SendAsync
    BY <2>2, EnqueueTyped DEF SendAsync, MaySend
  <2>3. CASE SendSyncTimesOut
    BY <2>3 DEF SendSyncTimesOut, reactorVars, Inv, Typed
  <2> QED
    BY <2>1, <2>2, <2>3
<1>3. Typed'
  BY <1>1, <1>2 DEF Inv, Typed
<1>4. Same
  BY <1>1, SameLosses DEF Same
<1>5. OneAtATime' /\ Held'
  BY <1>1, <1>4, LoopKeeps DEF Inv
<1>6. Watched' /\ StreamInOrder'
  BY <1>1, SameStream DEF Inv, Watched
<1> QED
  BY <1>3, <1>5, <1>6 DEF Inv

\* The steps of the loop that only move it on.
LEMMA LoopMovesInv == Inv /\ (LoopTop \/ WaitEvents \/ WaitFails \/ BatchDone) => Inv'
<1> SUFFICES ASSUME Inv, LoopTop \/ WaitEvents \/ WaitFails \/ BatchDone PROVE Inv'
  OBVIOUS
<1>1. UNCHANGED <<clientVars, reactor, running, conn, filters, ops, sock, events, out, accepted>>
  BY DEF LoopTop, WaitEvents, WaitFails, BatchDone
<1>2. Typed' /\ Watched' /\ StreamInOrder'
  BY <1>1, SameStream DEF Inv, Typed, Watched, clientVars
<1>3. OneAtATime' /\ Held'
  BY <1>1, SameLosses, LoopKeeps DEF Inv, Same, clientVars
<1> QED
  BY <1>2, <1>3 DEF Inv

LEMMA ProcessPendingOperationInv == Inv /\ ProcessPendingOperation => Inv'
<1> SUFFICES ASSUME Inv, ProcessPendingOperation PROVE Inv'
  OBVIOUS
<1> DEFINE op == Head(ops)
           c == [conn EXCEPT !.buf = conn.buf \o op.data]
<1>1. op.data \in Seq(Unit) /\ ops' \in Seq(Operation)
  <2>1. ops \in Seq(Operation) /\ ops # <<>> /\ ops' = Tail(ops)
    BY DEF Inv, Typed, ProcessPendingOperation
  <2>2. op \in Operation /\ Tail(ops) \in Seq(Operation)
    BY <2>1, HeadTailProperties
  <2> QED
    BY <2>1, <2>2 DEF Operation
<1>2. UNCHANGED <<state, owner, reactor, running, left>>
  BY DEF ProcessPendingOperation
<1>3. conn \in Connection /\ conn.buf \in Seq(Unit) /\ accepted \in Seq(Unit)
  BY DEF Inv, Typed, Connection
<1>4. conn.buf \o op.data \in Seq(Unit) /\ accepted \o op.data \in Seq(Unit)
  BY <1>1, <1>3, ConcatProperties
<1>5. CASE Fits(op)
  <2>1. TrySendDirect(c) /\ accepted' = accepted \o op.data
    BY <1>5 DEF ProcessPendingOperation
  <2>2. /\ c \in Connection /\ c.has = conn.has /\ c.unwatched = conn.unwatched
        /\ c.write_pending = conn.write_pending /\ c.buf = conn.buf \o op.data
    BY <1>3, <1>4 DEF Connection
  <2> HIDE DEF c
  <2>3. /\ conn' \in Connection /\ sock' \in Socket /\ filters' \subseteq {"read", "write"}
        /\ events' \in Seq(Kinds) /\ out' \in Seq(Sent)
        /\ Units(out') \o conn'.buf = Units(out) \o c.buf
        /\ Watched' /\ (Same \/ Lost)
    BY <2>1, <2>2, SendDirect DEF Inv
  <2>4. Typed'
    BY <1>1, <1>2, <1>4, <2>1, <2>3 DEF Inv, Typed
  <2>5. OneAtATime' /\ Held'
    BY <1>2, <2>3, LoopKeeps DEF Inv
  <2>6. StreamInOrder'
    <3>1. Units(out) \in Seq(Unit)
      BY UnitsFacts DEF Inv, Typed, Sent
    <3>2. Units(out) \o conn.buf = accepted
      BY DEF Inv, StreamInOrder, Units
    <3>3. (Units(out) \o conn.buf) \o op.data = Units(out) \o (conn.buf \o op.data)
      BY <1>1, <1>3, <3>1, Associative
    <3>4. Units(out') \o conn'.buf = accepted'
      BY <2>1, <2>2, <2>3, <3>2, <3>3
    <3> QED
      BY <3>4 DEF StreamInOrder, Units
  <2> QED
    BY <2>3, <2>4, <2>5, <2>6 DEF Inv
<1>6. CASE ~Fits(op)
  <2>1. UNCHANGED <<conn, filters, sock, out, events, accepted>>
    BY <1>6 DEF ProcessPendingOperation
  <2>2. Typed' /\ Watched' /\ StreamInOrder'
    BY <1>1, <1>2, <2>1, SameStream DEF Inv, Typed, Watched
  <2>3. OneAtATime' /\ Held'
    BY <1>2, <2>1, SameLosses, LoopKeeps DEF Inv, Same
  <2> QED
    BY <2>2, <2>3 DEF Inv
<1> QED
  BY <1>5, <1>6

\* TrySendDirect for the connection as it is, in a step that does nothing else.
LEMMA SendsBuffer ==
  ASSUME Inv, TrySendDirect(conn), UNCHANGED <<clientVars, reactor, running, ops, accepted>>
  PROVE  Inv'
<1>1. conn \in Connection
  BY DEF Inv, Typed
<1>2. /\ conn' \in Connection /\ sock' \in Socket /\ filters' \subseteq {"read", "write"}
      /\ events' \in Seq(Kinds) /\ out' \in Seq(Sent)
      /\ Units(out') \o conn'.buf = Units(out) \o conn.buf
      /\ Watched' /\ (Same \/ Lost)
  BY <1>1, SendDirect DEF Inv
<1>3. Typed'
  BY <1>2 DEF Inv, Typed, clientVars
<1>4. OneAtATime' /\ Held'
  BY <1>2, LoopKeeps DEF Inv, clientVars
<1>5. StreamInOrder'
  BY <1>2 DEF Inv, StreamInOrder, Units
<1> QED
  BY <1>2, <1>3, <1>4, <1>5 DEF Inv

LEMMA OperationsDoneInv == Inv /\ OperationsDone => Inv'
<1> SUFFICES ASSUME Inv, OperationsDone PROVE Inv'
  OBVIOUS
<1>1. CASE TrySendDirect(conn)
  BY <1>1, SendsBuffer DEF OperationsDone
<1>2. CASE UNCHANGED <<conn, filters, sock, out, events>>
  <2>1. Typed' /\ Watched' /\ StreamInOrder'
    BY <1>2, SameStream DEF OperationsDone, Inv, Typed, Watched, clientVars
  <2>2. OneAtATime' /\ Held'
    BY <1>2, SameLosses, LoopKeeps DEF OperationsDone, Inv, Same, clientVars
  <2> QED
    BY <2>1, <2>2 DEF Inv
<1> QED
  BY <1>1, <1>2 DEF OperationsDone

\* recv() tells the worker of the data, then of the end.
LEMMA HandleReadEventKeeps ==
  ASSUME Inv, conn.has, HandleReadEvent
  PROVE  /\ conn' \in Connection /\ conn'.buf = conn.buf /\ sock' \in Socket
         /\ filters' \subseteq {"read", "write"} /\ events' \in Seq(Kinds)
         /\ Watched' /\ (Same \/ Lost)
<1> DEFINE tell == IF sock.data THEN Append(events, "data") ELSE events
<1>1. events \in Seq(Kinds) /\ conn \in Connection /\ sock \in Socket
  BY DEF Inv, Typed
<1>2. tell \in Seq(Kinds) /\ {i \in 1..Len(tell) : tell[i] = "disconnected"} = Losses
  <2>1. CASE sock.data
    <3>1. tell = Append(events, "data")
      BY <2>1
    <3> HIDE DEF tell
    <3>2. /\ tell \in Seq(Kinds) /\ Len(tell) = Len(events) + 1 /\ Len(events) \in Nat
          /\ \A i \in 1..Len(events) : tell[i] = events[i]
          /\ tell[Len(events) + 1] = "data"
      BY <1>1, <3>1, AppendProperties, LenProperties DEF Kinds
    <3> QED
      BY <3>2 DEF Losses
  <2>2. CASE ~sock.data
    BY <1>1, <2>2 DEF Losses
  <2> QED
    BY <2>1, <2>2
<1>3. CASE Ended
  <2>1. RemoveConnection(conn) /\ events' = Append(tell, "disconnected")
    BY <1>3 DEF HandleReadEvent
  <2>2. /\ conn' \in Connection /\ conn'.buf = conn.buf /\ ~conn'.has
    BY <1>1, <2>1 DEF RemoveConnection, Connection
  <2>3. sock' \in Socket /\ sock'.status = "none" /\ filters' = {}
    BY <2>1 DEF RemoveConnection, Socket, NoSock
  <2> HIDE DEF tell
  <2>4. /\ events' \in Seq(Kinds) /\ Len(events') = Len(tell) + 1 /\ Len(tell) \in Nat
        /\ \A i \in 1..Len(tell) : events'[i] = tell[i]
    BY <1>2, <2>1, AppendProperties, LenProperties DEF Kinds
  <2>5. Losses = {} => \A i, j \in Losses' : i = j
    BY <1>2, <2>4 DEF Losses
  <2> QED
    BY <2>2, <2>3, <2>4, <2>5 DEF Lost, Watched
<1>4. CASE ~Ended
  <2>1. sock' = [sock EXCEPT !.data = FALSE] /\ events' = tell /\ UNCHANGED <<conn, filters>>
    BY <1>4 DEF HandleReadEvent
  <2>2. sock' \in Socket /\ sock'.status = sock.status
    BY <1>1, <2>1 DEF Socket
  <2>3. events' \in Seq(Kinds) /\ Losses' = Losses
    BY <1>2, <2>1 DEF Losses
  <2> QED
    BY <1>1, <2>1, <2>2, <2>3 DEF Inv, Typed, Watched, Same
<1> QED
  BY <1>3, <1>4

LEMMA ProcessKqueueEventInv == Inv /\ ProcessKqueueEvent => Inv'
<1> SUFFICES ASSUME Inv, ProcessKqueueEvent PROVE Inv'
  OBVIOUS
<1> DEFINE Rest0 == UNCHANGED <<clientVars, reactor, running, ops, accepted>>
<1>0. Rest0 /\ conn \in Connection
  BY DEF ProcessKqueueEvent, Inv, Typed
<1>1. CASE UNCHANGED <<conn, filters, sock, events, out>>
  <2>1. Typed' /\ Watched' /\ StreamInOrder'
    BY <1>0, <1>1, SameStream DEF Inv, Typed, Watched, clientVars
  <2>2. OneAtATime' /\ Held'
    BY <1>0, <1>1, SameLosses, LoopKeeps DEF Inv, Same, clientVars
  <2> QED
    BY <2>1, <2>2 DEF Inv
<1>2. CASE conn.has /\ RemoveConnection(conn) /\ Dispatch("disconnected") /\ UNCHANGED out
  <2>1. /\ conn' \in Connection /\ sock' \in Socket /\ filters' \subseteq {"read", "write"}
        /\ events' \in Seq(Kinds) /\ conn'.buf = conn.buf /\ Watched' /\ Lost
    BY <1>0, <1>2, Removed DEF Inv
  <2>2. Typed' /\ StreamInOrder'
    BY <1>0, <1>2, <2>1, SameStream DEF Inv, Typed, clientVars
  <2>3. OneAtATime' /\ Held'
    BY <1>0, <2>1, LoopKeeps DEF Inv, clientVars
  <2> QED
    BY <2>1, <2>2, <2>3 DEF Inv
<1>3. CASE conn.has /\ HandleReadEvent /\ UNCHANGED out
  <2>1. /\ conn' \in Connection /\ sock' \in Socket /\ filters' \subseteq {"read", "write"}
        /\ events' \in Seq(Kinds) /\ conn'.buf = conn.buf /\ Watched' /\ (Same \/ Lost)
    BY <1>3, HandleReadEventKeeps
  <2>2. Typed' /\ StreamInOrder'
    BY <1>0, <1>3, <2>1, SameStream DEF Inv, Typed, clientVars
  <2>3. OneAtATime' /\ Held'
    BY <1>0, <2>1, LoopKeeps DEF Inv, clientVars
  <2> QED
    BY <2>1, <2>2, <2>3 DEF Inv
<1>4. CASE TrySendDirect(conn)
  BY <1>0, <1>4, SendsBuffer
<1> QED
  BY <1>1, <1>2, <1>3, <1>4 DEF ProcessKqueueEvent

\* The worker takes the oldest event; what it reports is the state from then on.
LEMMA OnNetworkEventInv == Inv /\ OnNetworkEvent => Inv'
<1> SUFFICES ASSUME Inv, OnNetworkEvent PROVE Inv'
  OBVIOUS
<1>1. /\ UNCHANGED <<reactor, running, conn, filters, ops, owner, left, sock, out, accepted>>
      /\ events' = Tail(events) /\ events # <<>> /\ events \in Seq(Kinds)
  BY DEF OnNetworkEvent, reactorVars, Inv, Typed
<1>2. /\ events' \in Seq(Kinds) /\ Len(events) \in Nat /\ Len(events) > 0
      /\ Len(events') = Len(events) - 1 /\ events[1] = Head(events)
      /\ \A i \in 1..Len(events') : events'[i] = events[i + 1]
  BY <1>1, HeadTailProperties, EmptySeq
<1>3. \A i \in Losses' : i \in Int /\ i > 0 /\ i + 1 \in Losses
  <2>1. ASSUME NEW i \in Losses' PROVE i \in Int /\ i > 0 /\ i + 1 \in Losses
    <3>1. i \in 1..Len(events') /\ events'[i] = "disconnected"
      BY DEF Losses
    <3>2. i \in Int /\ i > 0 /\ i + 1 \in 1..Len(events) /\ events[i + 1] = "disconnected"
      BY <1>2, <3>1
    <3> QED
      BY <3>2 DEF Losses
  <2> QED
    BY <2>1
<1>4. \A i, j \in Losses' : i = j
  BY <1>3 DEF Inv, OneAtATime
<1>5. Losses = {} => Losses' = {}
  BY <1>3
<1>6. CASE Head(events) = "disconnected"
  <2>1. 1 \in Losses
    BY <1>2, <1>6 DEF Losses
  <2>2. Losses' = {}
    BY <1>3, <2>1 DEF Inv, OneAtATime
  <2>3. ~conn.has /\ ~Dialling
    BY <2>1 DEF Inv, OneAtATime
  <2> QED
    <3>1. OneAtATime'
      BY <1>1, <2>2, <2>3 DEF OneAtATime, Dialling
    <3>2. Typed' /\ Held' /\ Watched' /\ StreamInOrder'
      BY <1>1, <1>2, SameStream DEF Inv, Typed, Held, Watched
    <3> QED
      BY <3>1, <3>2 DEF Inv
<1>7. CASE Head(events) # "disconnected"
  <2>1. state' = state \/ state' = "kConnected"
    BY <1>7 DEF OnNetworkEvent
  <2>2. OneAtATime'
    BY <1>1, <1>4, <1>5, <2>1 DEF Inv, OneAtATime, Dialling
  <2>3. Typed' /\ Held' /\ Watched' /\ StreamInOrder'
    BY <1>1, <1>2, SameStream DEF Inv, Typed, Held, Watched
  <2> QED
    BY <2>2, <2>3 DEF Inv
<1> QED
  BY <1>6, <1>7

\* The network and the peer change the socket alone.
LEMMA NetworkInv == Inv /\ (Network \/ PeerSends \/ PeerReads) => Inv'
<1> SUFFICES ASSUME Inv, Network \/ PeerSends \/ PeerReads PROVE Inv'
  OBVIOUS
<1>1. UNCHANGED <<state, owner, reactorVars, events, out, accepted>>
  BY DEF Network, PeerSends, PeerReads, clientVars
<1>2. sock' \in Socket /\ (sock'.status # "none" => sock.status # "none")
  <2>1. sock \in Socket
    BY DEF Inv, Typed
  <2>2. CASE Network
    <3>1. PICK s \in {"open", "eof", "broken"} :
                 sock.status # "none" /\ sock' = [sock EXCEPT !.status = s]
      BY <2>2 DEF Network
    <3> QED
      BY <2>1, <3>1 DEF Socket
  <2>3. CASE PeerSends
    BY <2>1, <2>3 DEF PeerSends, Socket
  <2>4. CASE PeerReads
    BY <2>1, <2>4 DEF PeerReads, Socket
  <2> QED
    BY <2>2, <2>3, <2>4
<1>3. left' \in [dials : 0..MaxDials, sends : Nat, data : Nat]
  <2>1. left \in [dials : 0..MaxDials, sends : Nat, data : Nat]
    BY DEF Inv, Typed
  <2>2. CASE PeerSends
    <3>1. left.data \in Nat /\ left.data > 0
      BY <2>1, <2>2 DEF PeerSends
    <3>2. left.data - 1 \in Nat /\ left' = [left EXCEPT !.data = left.data - 1]
      BY <2>2, <3>1 DEF PeerSends
    <3> QED
      BY <2>1, <3>2
  <2>3. CASE Network \/ PeerReads
    BY <2>1, <2>3 DEF Network, PeerReads, clientVars
  <2> QED
    BY <2>2, <2>3
<1>4. Typed' /\ Watched' /\ StreamInOrder'
  BY <1>1, <1>2, <1>3, SameStream DEF Inv, Typed, Watched, reactorVars
<1>5. OneAtATime' /\ Held'
  BY <1>1, <1>2, SameLosses, LoopKeeps DEF Inv, Same, reactorVars
<1> QED
  BY <1>4, <1>5 DEF Inv

LEMMA StutterInv == Inv /\ UNCHANGED vars => Inv'
<1> SUFFICES ASSUME Inv, UNCHANGED vars PROVE Inv'
  OBVIOUS
<1>1. Typed' /\ Watched' /\ StreamInOrder'
  BY SameStream DEF Inv, Typed, Watched, vars, clientVars, reactorVars
<1>2. OneAtATime' /\ Held'
  BY SameLosses, LoopKeeps DEF Inv, Same, vars, clientVars, reactorVars
<1> QED
  BY <1>1, <1>2 DEF Inv

LEMMA NextInv == Inv /\ [Next]_vars => Inv'
BY ConnectInternalInv, DialInv, InitReactorInv, StartReadMonitorInv, SetFieldsInv,
   SetConnectionReturnsInv, ClosingInv, StopInv, StopJoinInv, CloseReturnsInv, SenderInv,
   LoopMovesInv, ProcessPendingOperationInv, OperationsDoneInv, ProcessKqueueEventInv,
   OnNetworkEventInv, NetworkInv, StutterInv
   DEF Next, OwnerStep, LoopStep

-----------------------------------------------------------------------------
\* The invariant holds in every state that Client and ClientReactor reach.
THEOREM Invariance == Spec => []Inv
<1>1. Init => Inv
  BY InitInv
<1>2. Inv /\ [Next]_vars => Inv'
  BY NextInv
<1> QED
  BY <1>1, <1>2, PTL DEF Spec

\* What has left on all connections of a reactor and what waits in the send
\* buffer is what Write took, in order, however partial sends, loss of the
\* connection and reconnection follow each other (TrySendDirect, DoSend).
THEOREM StreamKeepsOrder == Spec => []StreamInOrder
<1>1. Inv => StreamInOrder
  BY DEF Inv
<1> QED
  BY <1>1, Invariance, PTL

\* Every open descriptor belongs to the reactor's connection or to the Connect that
\* is about to hand it over, on every path of ConnectInternal, RemoveConnection and
\* Stop, those after a failed connect(), start or registration included; and
\* Connect never finds a connection to replace.
THEOREM AlwaysClosed == Spec => []NothingLeftOpen
<1>1. Inv => NothingLeftOpen
  BY DEF Inv, Held, OneAtATime, Dialling, NothingLeftOpen
<1> QED
  BY <1>1, Invariance, PTL

\* While units wait the loop watches for the socket to become writable, unless,
\* since the buffer was last empty, StartWriteMonitor has failed or the connection
\* took the units or write_pending over from the one before (TrySendDirect).
THEOREM AlwaysWatched == Spec => []WaitsForSpace
<1>1. Inv => WaitsForSpace
  BY DEF Inv, Watched, WaitsForSpace
<1> QED
  BY <1>1, Invariance, PTL
=============================================================================
