---------------------------- MODULE ReactorProofs ----------------------------
(***************************************************************************)
(* The reactor's tables, descriptors, streams and events stay consistent,  *)
(* for every number of descriptors, threads, connections and operations,   *)
(* every size of the batches and every setting of the water marks.         *)
(***************************************************************************)
EXTENDS Reactor, FiniteSetTheorems, SequenceTheorems, TLAPS

Socket == [inc : 0..Budget["add"], unread : BOOLEAN, eof : BOOLEAN, reset : BOOLEAN,
           writable : BOOLEAN]
Places == {"idle", "check", "enqueue", "trigger", "await"}
CallRecords == [pc : Places, type : OpTypes \cup {"none"}, fd : Fds \cup {0},
           id : ConnectionIds \cup {<<>>}, size : Nat, answered : BOOLEAN]
KEvents == [fd : Fds \cup {0}, filter : {"read", "write", "user"},
            flags : SUBSET {"EV_EOF", "EV_ERROR"}, inc : 0..Budget["add"]]

\* What the worker may have been told of a connection: of one in the table, and at all.
Alive == {<<"connected">>, <<"connected", "data">>}
Failed == {<<"connected", "error">>, <<"connected", "data", "error">>}
Histories == {<<>>} \cup Alive \cup {Append(h, "disconnected") : h \in Alive \cup Failed}

\* The types of the tables and of what they speak of ...
TypedTable ==
  /\ DOMAIN connections \subseteq ConnectionIds
  /\ connections \in [DOMAIN connections -> Connection]
  /\ DOMAIN fd_to_id \subseteq Fds
  /\ fd_to_id \in [DOMAIN fd_to_id -> ConnectionIds]
  /\ filters \subseteq Fds \X {"read", "write"}
  /\ sock \in [Fds -> Socket]
  /\ events \in [Incarnations -> Histories]
  /\ wire \in [Incarnations -> Seq(Nat)]

\* ... and of the rest.
TypedRest ==
  /\ is_running \in BOOLEAN /\ ops_stopped \in BOOLEAN /\ wakeup \in BOOLEAN
  /\ ops \in Seq(Operations)
  /\ seq \in 0..(SeqValues - 1)
  /\ batch \in Seq(KEvents)
  /\ loop \in {"top", "ops", "timeouts", "wait", "events", "ops_after", "exited"}
  /\ processed \in 0..BatchOps
  /\ stop \in {"no", "flagged", "notified", "joining", "done"}
  /\ call \in [Callers -> CallRecords]
  /\ issued \in [Incarnations -> ConnectionIds \cup {<<>>}]
  /\ left \in [OpTypes -> Nat] /\ left["add"] <= Budget["add"]

\* Only the acceptor adds connections, and only users do the rest.
CallRoles ==
  /\ \A t \in Users : call[t].type # "add" /\ (call[t].pc # "idle" => call[t].type # "none")
  /\ call[Acceptor].pc # "idle" => call[Acceptor].type = "add" /\ call[Acceptor].fd \in Fds
QueueRoles == \A k \in 1..Len(ops) : ops[k].type = "add" => ops[k].fd \in Fds
Roles == CallRoles /\ QueueRoles

\* The two tables are inverse to each other.
Table ==
  /\ TableConsistent
  /\ \A fd \in DOMAIN fd_to_id : connections[fd_to_id[fd]].fd = fd

\* The four things that can be said of a descriptor.
Open(fd) == sock[fd].inc # 0
Holds(fd) == call[Acceptor].pc \in {"check", "enqueue"} /\ call[Acceptor].fd = fd
Queue(fd) == {k \in 1..Len(ops) : ops[k].type = "add" /\ ops[k].fd = fd}
Queued(fd) == Queue(fd) # {}
Tabled(fd) == fd \in DOMAIN fd_to_id

OnceQueued == \A fd \in Fds : \A j, k \in Queue(fd) : j = k

\* OneOwner, without counting.
Hand(fd) ==
  /\ Holds(fd) \/ Queued(fd) \/ Tabled(fd) => Open(fd)
  /\ ~(Holds(fd) /\ Queued(fd)) /\ ~(Holds(fd) /\ Tabled(fd)) /\ ~(Queued(fd) /\ Tabled(fd))
  /\ is_running /\ Open(fd) => Holds(fd) \/ Queued(fd) \/ Tabled(fd)

Hands == OnceQueued /\ \A fd \in Fds : Hand(fd)

Accepted == Budget["add"] - left["add"]
Blank(i) == wire[i] = <<>> /\ events[i] = <<>>

\* Incarnations are not used twice, and nothing is known of one before DoAddConnection.
Fresh ==
  /\ \A fd, g \in Fds : Open(fd) /\ sock[fd].inc = sock[g].inc => fd = g
  /\ \A fd \in Fds : sock[fd].inc <= Accepted
  /\ \A i \in Incarnations : i > Accepted => Blank(i)
  /\ \A fd \in Fds : Holds(fd) \/ Queued(fd) => Blank(sock[fd].inc)

\* A batch is left only inside the loop over it.
Batched == (batch # <<>> => loop = "events") /\ NoStaleEvent

\* A connection in the table has not been reported as closed.
Order == \A id \in DOMAIN connections : events[connections[id].inc] \in Alive

\* The part of the invariant that is about the tables alone.
TableInv == TypedTable /\ Table /\ Order /\ StreamInOrder /\ BackpressureConsistent

\* The inductive invariant.
Inv == TableInv /\ TypedRest /\ Roles /\ Hands /\ Fresh /\ Batched

-----------------------------------------------------------------------------
(* Constants and sequences                                                 *)

LEMMA ConstantFacts ==
  /\ Budget["add"] \in Nat /\ Incarnations = 1..Budget["add"]
  /\ Fds \subseteq Nat \ {0} /\ 0 \notin Fds
  /\ LowWater \in Nat \ {0} /\ HighWater \in Nat /\ LowWater <= HighWater
  /\ Acceptor \in Callers /\ Acceptor \notin Users /\ Users \subseteq Callers
BY ReactorAssumption DEF Incarnations, Callers, OpTypes

LEMMA FreeSockFacts == FreeSock \in Socket /\ FreeSock.inc = 0
BY ConstantFacts DEF FreeSock, Socket

\* Concatenation is associative.
LEMMA Associative ==
  ASSUME NEW S, NEW s \in Seq(S), NEW t \in Seq(S), NEW r \in Seq(S)
  PROVE  (s \o t) \o r = s \o (t \o r)
BY ConcatAssociative, SMT

LEMMA AssociativeUnits ==
  ASSUME NEW s \in Seq(Nat), NEW t \in Seq(Nat), NEW r \in Seq(Nat)
  PROVE  (s \o t) \o r = s \o (t \o r)
OBVIOUS

\* The kernel takes the first k units, the rest stays.
LEMMA SplitAt ==
  ASSUME NEW s \in Seq(Nat), NEW k \in 0..Len(s)
  PROVE  /\ SubSeq(s, 1, k) \in Seq(Nat)
         /\ SubSeq(s, k + 1, Len(s)) \in Seq(Nat)
         /\ Len(SubSeq(s, k + 1, Len(s))) = Len(s) - k
         /\ SubSeq(s, 1, k) \o SubSeq(s, k + 1, Len(s)) = s
<1>1. Len(s) \in Nat /\ k \in Nat /\ k <= Len(s) /\ \A i \in 1..Len(s) : s[i] \in Nat
  BY LenProperties, ElementOfSeq
<1>2. (\A i \in 1..k : s[i] \in Nat) /\ (\A i \in (k + 1)..Len(s) : s[i] \in Nat)
  BY <1>1
<1>3. SubSeq(s, 1, k) \in Seq(Nat)
  BY <1>1, <1>2, SubSeqProperties
<1>4. /\ SubSeq(s, k + 1, Len(s)) \in Seq(Nat)
      /\ Len(SubSeq(s, k + 1, Len(s))) = IF k + 1 <= Len(s) THEN Len(s) - (k + 1) + 1 ELSE 0
  BY <1>1, <1>2, SubSeqProperties
<1>5. Len(SubSeq(s, k + 1, Len(s))) = Len(s) - k
  BY <1>1, <1>4
<1>6. 1 \in 1..(Len(s) + 1) /\ k \in (1 - 1)..Len(s) /\ Len(s) \in k..Len(s)
  BY <1>1
<1>7. SubSeq(s, 1, k) \o SubSeq(s, k + 1, Len(s)) = SubSeq(s, 1, Len(s))
  BY <1>6, ConcatAdjacentSubSeq
<1> QED
  BY <1>3, <1>4, <1>5, <1>7, SubSeqFull

\* The units of a connection are numbered; a payload continues the numbers.
Numbers(n) == [k \in 1..n |-> k]
Following(n, m) == [k \in 1..m |-> n + k]

LEMMA NumbersFollow ==
  ASSUME NEW n \in Nat, NEW m \in Nat
  PROVE  /\ Numbers(n) \in Seq(Nat) /\ Following(n, m) \in Seq(Nat) /\ Len(Following(n, m)) = m
         /\ Numbers(n) \o Following(n, m) = Numbers(n + m)
<1>1. /\ Numbers(n) \in Seq(Nat) /\ Len(Numbers(n)) = n
      /\ \A k \in 1..n : Numbers(n)[k] = k
  BY DEF Numbers
<1>2. /\ Following(n, m) \in Seq(Nat) /\ Len(Following(n, m)) = m
      /\ \A k \in 1..m : Following(n, m)[k] = n + k
  BY DEF Following
<1>3. /\ Numbers(n + m) \in Seq(Nat) /\ Len(Numbers(n + m)) = n + m
      /\ \A k \in 1..(n + m) : Numbers(n + m)[k] = k
  BY DEF Numbers
<1> DEFINE a == Numbers(n)
           b == Following(n, m)
           c == Numbers(n + m)
<1> HIDE DEF a, b, c
<1>4. /\ a \o b \in Seq(Nat) /\ Len(a \o b) = n + m
      /\ \A k \in 1..(n + m) : (a \o b)[k] = IF k <= n THEN a[k] ELSE b[k - n]
  <2>1. a \in Seq(Nat) /\ b \in Seq(Nat) /\ Len(a) = n /\ Len(b) = m
    BY <1>1, <1>2 DEF a, b
  <2>2. /\ a \o b \in Seq(Nat) /\ Len(a \o b) = Len(a) + Len(b)
        /\ \A k \in 1..(Len(a) + Len(b)) : (a \o b)[k] = IF k <= Len(a) THEN a[k] ELSE b[k - Len(a)]
    BY <2>1, ConcatProperties
  <2> QED
    BY <2>1, <2>2
<1>5. ASSUME NEW k \in 1..(n + m) PROVE (a \o b)[k] = c[k]
  <2>1. CASE k <= n
    BY <1>1, <1>3, <1>4, <2>1 DEF a, c
  <2>2. CASE ~(k <= n)
    <3>1. k - n \in 1..m /\ n + (k - n) = k
      BY <2>2
    <3>2. (a \o b)[k] = b[k - n]
      BY <1>4, <2>2
    <3>3. b[k - n] = k
      BY <1>2, <3>1 DEF b
    <3> QED
      BY <1>3, <3>2, <3>3 DEF c
  <2> QED
    BY <2>1, <2>2
<1>6. a \o b = c
  <2>1. c \in Seq(Nat) /\ Len(c) = n + m
    BY <1>3 DEF c
  <2> QED
    BY <1>4, <1>5, <2>1, SeqEqual
<1> QED
  BY <1>1, <1>2, <1>6 DEF a, b, c

-----------------------------------------------------------------------------
(* What the worker is told                                                 *)

Kinds == {"connected", "data", "error", "disconnected"}

LEMMA Tuples ==
  ASSUME NEW s \in Seq(Kinds), NEW a \in Kinds, NEW b \in Kinds, NEW c \in Kinds
  PROVE  /\ Len(s) = 2 /\ s[1] = a /\ s[2] = b => s = <<a, b>>
         /\ Len(s) = 3 /\ s[1] = a /\ s[2] = b /\ s[3] = c => s = <<a, b, c>>
<1>1. ASSUME Len(s) = 2, s[1] = a, s[2] = b PROVE s = <<a, b>>
  <2> DEFINE t == <<a, b>>
  <2>1. t \in Seq(Kinds) /\ Len(t) = 2 /\ t[1] = a /\ t[2] = b
    OBVIOUS
  <2> HIDE DEF t
  <2>2. \A i \in 1..Len(s) : s[i] = t[i]
    BY <1>1, <2>1
  <2>3. s = t
    BY <1>1, <2>1, <2>2, SeqEqual
  <2> QED
    BY <2>3 DEF t
<1>2. ASSUME Len(s) = 3, s[1] = a, s[2] = b, s[3] = c PROVE s = <<a, b, c>>
  <2> DEFINE t == <<a, b, c>>
  <2>1. t \in Seq(Kinds) /\ Len(t) = 3 /\ t[1] = a /\ t[2] = b /\ t[3] = c
    OBVIOUS
  <2> HIDE DEF t
  <2>2. \A i \in 1..Len(s) : s[i] = t[i]
    BY <1>2, <2>1
  <2>3. s = t
    BY <1>2, <2>1, <2>2, SeqEqual
  <2> QED
    BY <2>3 DEF t
<1> QED
  BY <1>1, <1>2

LEMMA AliveFacts ==
  ASSUME NEW h \in Alive
  PROVE  /\ h \in Seq(Kinds) /\ h # <<>> /\ Append(h, "error") \in Failed
         /\ Last(h) # "data" => Append(h, "data") \in Alive
<1>1. CASE h = <<"connected">>
  <2>1. h \in Seq(Kinds) /\ h # <<>>
    BY <1>1 DEF Kinds
  <2>2. Append(h, "error") = <<"connected", "error">> /\ Append(h, "data") = <<"connected", "data">>
    <3>1. Len(h) = 1 /\ h[1] = "connected"
      BY <1>1
    <3>2. ASSUME NEW x \in Kinds
          PROVE  /\ Append(h, x) \in Seq(Kinds) /\ Len(Append(h, x)) = 2
                 /\ Append(h, x)[1] = "connected" /\ Append(h, x)[2] = x
      <4>1. /\ Append(h, x) \in Seq(Kinds) /\ Len(Append(h, x)) = Len(h) + 1
            /\ \A i \in 1..Len(h) : Append(h, x)[i] = h[i]
            /\ Append(h, x)[Len(h) + 1] = x
        BY <2>1, AppendProperties
      <4> QED
        BY <3>1, <4>1
    <3> QED
      BY <3>2, Tuples DEF Kinds
  <2> QED
    BY <2>1, <2>2 DEF Alive, Failed
<1>2. CASE h = <<"connected", "data">>
  <2>1. h \in Seq(Kinds) /\ h # <<>> /\ Last(h) = "data"
    BY <1>2 DEF Kinds, Last
  <2>2. Append(h, "error") = <<"connected", "data", "error">>
    <3>1. Len(h) = 2 /\ h[1] = "connected" /\ h[2] = "data"
      BY <1>2
    <3>2. ASSUME NEW x \in Kinds
          PROVE  /\ Append(h, x) \in Seq(Kinds) /\ Len(Append(h, x)) = 3
                 /\ Append(h, x)[1] = "connected" /\ Append(h, x)[2] = "data"
                 /\ Append(h, x)[3] = x
      <4>1. /\ Append(h, x) \in Seq(Kinds) /\ Len(Append(h, x)) = Len(h) + 1
            /\ \A i \in 1..Len(h) : Append(h, x)[i] = h[i]
            /\ Append(h, x)[Len(h) + 1] = x
        BY <2>1, AppendProperties
      <4> QED
        BY <3>1, <4>1
    <3> QED
      BY <3>2, Tuples DEF Kinds
  <2> QED
    BY <2>1, <2>2 DEF Failed
<1> QED
  BY <1>1, <1>2 DEF Alive

LEMMA TwoMore ==
  ASSUME NEW s \in Seq(Kinds), NEW d \in Kinds, NEW e \in Kinds
  PROVE  s \o <<d>> = Append(s, d) /\ s \o <<d, e>> = Append(Append(s, d), e)
<1>1. s \o <<d>> = Append(s, d)
  BY AppendIsConcat
<1>2. Append(Append(s, d), e) = Append(s, d) \o <<e>>
  BY AppendProperties, AppendIsConcat
<1>3. (s \o <<d>>) \o <<e>> = s \o (<<d>> \o <<e>>)
  <2>1. <<d>> \in Seq(Kinds) /\ <<e>> \in Seq(Kinds)
    OBVIOUS
  <2> QED
    BY <2>1, Associative
<1>4. <<d>> \o <<e>> = <<d, e>>
  <2>1. <<d>> \in Seq(Kinds) /\ <<e>> \in Seq(Kinds) /\ Len(<<d>>) = 1 /\ Len(<<e>>) = 1
    OBVIOUS
  <2>2. /\ <<d>> \o <<e>> \in Seq(Kinds) /\ Len(<<d>> \o <<e>>) = 2
        /\ (<<d>> \o <<e>>)[1] = d /\ (<<d>> \o <<e>>)[2] = e
    BY <2>1, ConcatProperties
  <2> QED
    BY <2>2, Tuples
<1> QED
  BY <1>1, <1>2, <1>3, <1>4

\* The ends of a connection in the table.
LEMMA ToldEnd ==
  ASSUME NEW i, events[i] \in Alive,
         NEW what \in {<<"disconnected">>, <<"error", "disconnected">>, <<"data", "disconnected">>}
  PROVE  Told(i, what) \in Histories
<1> DEFINE h == events[i]
<1>1. h \in Seq(Kinds) /\ h \in Alive /\ Append(h, "error") \in Failed
  BY AliveFacts
<1>2. CASE what = <<"disconnected">>
  <2>1. ~Repeats(i, what)
    BY <1>2 DEF Repeats
  <2>2. Told(i, what) = h \o <<"disconnected">>
    BY <1>2, <2>1 DEF Told
  <2>3. Told(i, what) = Append(h, "disconnected")
    BY <1>1, <2>2, TwoMore DEF Kinds
  <2> QED
    BY <1>1, <2>3 DEF Histories
<1>3. CASE what = <<"error", "disconnected">>
  <2>1. ~Repeats(i, what)
    BY <1>3 DEF Repeats
  <2>2. Told(i, what) = h \o <<"error", "disconnected">>
    BY <1>3, <2>1 DEF Told
  <2>3. Told(i, what) = Append(Append(h, "error"), "disconnected")
    BY <1>1, <2>2, TwoMore DEF Kinds
  <2> QED
    BY <1>1, <2>3 DEF Histories
<1>4. CASE what = <<"data", "disconnected">>
  <2>1. CASE Last(h) = "data"
    <3>1. Repeats(i, what)
      BY <1>1, <1>4, <2>1, AliveFacts DEF Repeats
    <3>2. Told(i, what) = h \o <<"disconnected">>
      BY <1>4, <3>1 DEF Told
    <3>3. Told(i, what) = Append(h, "disconnected")
      BY <1>1, <3>2, TwoMore DEF Kinds
    <3> QED
      BY <1>1, <3>3 DEF Histories
  <2>2. CASE Last(h) # "data"
    <3>1. ~Repeats(i, what)
      BY <2>2 DEF Repeats
    <3>2. Told(i, what) = h \o <<"data", "disconnected">>
      BY <1>4, <3>1 DEF Told
    <3>3. Told(i, what) = Append(Append(h, "data"), "disconnected")
      BY <1>1, <3>2, TwoMore DEF Kinds
    <3>4. Append(h, "data") \in Alive
      BY <1>1, <2>2, AliveFacts
    <3> QED
      BY <3>3, <3>4 DEF Histories
  <2> QED
    BY <2>1, <2>2
<1> QED
  BY <1>2, <1>3, <1>4

\* Data, or nothing, for a connection that goes on.
LEMMA ToldData ==
  ASSUME NEW i, events[i] \in Alive, NEW what \in {<<>>, <<"data">>}
  PROVE  Told(i, what) \in Alive
<1> DEFINE h == events[i]
<1>1. h \in Seq(Kinds) /\ h \in Alive /\ h # <<>>
  BY AliveFacts
<1>2. CASE what = <<>>
  <2>1. ~Repeats(i, what)
    BY <1>2 DEF Repeats
  <2> QED
    BY <1>1, <1>2, <2>1, ConcatEmptySeq DEF Told
<1>3. CASE what = <<"data">> /\ Last(h) = "data"
  <2>1. Repeats(i, what)
    BY <1>1, <1>3 DEF Repeats
  <2>2. Tail(what) = <<>>
    BY <1>3
  <2> QED
    BY <1>1, <2>1, <2>2, ConcatEmptySeq DEF Told
<1>4. CASE what = <<"data">> /\ Last(h) # "data"
  <2>1. ~Repeats(i, what)
    BY <1>4 DEF Repeats
  <2>2. Told(i, what) = h \o <<"data">>
    BY <1>4, <2>1 DEF Told
  <2>3. Told(i, what) = Append(h, "data")
    BY <1>1, <2>2, TwoMore DEF Kinds
  <2> QED
    BY <1>1, <1>4, <2>3, AliveFacts
<1> QED
  BY <1>2, <1>3, <1>4

-----------------------------------------------------------------------------
(* The steps of the loop on its tables                                     *)

\* What the other threads see of them: descriptors are closed with their
\* connection and not opened, and only incarnations in the table are touched.
TableStep ==
  /\ \A fd \in Fds : \/ sock'[fd].inc = sock[fd].inc /\ (Tabled(fd)' <=> Tabled(fd))
                     \/ Tabled(fd) /\ ~Tabled(fd)' /\ sock'[fd].inc = 0
  /\ \A fd \in DOMAIN fd_to_id' :
       /\ fd \in DOMAIN fd_to_id
       /\ connections'[fd_to_id'[fd]].inc = connections[fd_to_id[fd]].inc
  /\ \A i \in Incarnations : (\A id \in DOMAIN connections : connections[id].inc # i)
                               => wire'[i] = wire[i] /\ events'[i] = events[i]

\* No two connections of the table share an incarnation.
LEMMA IncOnce ==
  ASSUME TypedTable, Table, Fresh,
         NEW x \in DOMAIN connections, NEW y \in DOMAIN connections,
         connections[x].inc = connections[y].inc
  PROVE  x = y
<1>1. connections[x] \in Connection /\ connections[y] \in Connection
  BY DEF TypedTable
<1>2. /\ connections[x].fd \in Fds /\ connections[y].fd \in Fds
      /\ connections[x].inc \in Incarnations
  BY <1>1 DEF Connection
<1>3. connections[x].inc # 0
  BY <1>2, ConstantFacts
<1>4. /\ sock[connections[x].fd].inc = connections[x].inc
      /\ sock[connections[y].fd].inc = connections[y].inc
      /\ fd_to_id[connections[x].fd] = x /\ fd_to_id[connections[y].fd] = y
  BY DEF Table, TableConsistent
<1>5. connections[x].fd = connections[y].fd
  BY <1>2, <1>3, <1>4 DEF Fresh, Open
<1> QED
  BY <1>4, <1>5

LEMMA GoneFacts ==
  ASSUME TypedTable, Table, NEW S, S \subseteq DOMAIN connections, Gone(S)
  PROVE  /\ DOMAIN connections' = DOMAIN connections \ S
         /\ connections' \in [DOMAIN connections' -> Connection]
         /\ \A id \in DOMAIN connections' : connections'[id] = connections[id]
         /\ DOMAIN fd_to_id' = DOMAIN fd_to_id \ FdsOf(S)
         /\ fd_to_id' \in [DOMAIN fd_to_id' -> ConnectionIds]
         /\ \A fd \in DOMAIN fd_to_id' : fd_to_id'[fd] = fd_to_id[fd]
         /\ FdsOf(S) \subseteq DOMAIN fd_to_id
         /\ sock' \in [Fds -> Socket]
         /\ \A fd \in Fds : sock'[fd] = IF fd \in FdsOf(S) THEN FreeSock ELSE sock[fd]
         /\ filters' = {f \in filters : f[1] \notin FdsOf(S)}
         /\ \A id \in DOMAIN connections' : connections[id].fd \notin FdsOf(S)
<1>1. /\ connections' = [id \in DOMAIN connections \ S |-> connections[id]]
      /\ fd_to_id' = [fd \in DOMAIN fd_to_id \ FdsOf(S) |-> fd_to_id[fd]]
      /\ filters' = {f \in filters : f[1] \notin FdsOf(S)}
      /\ sock' = [fd \in Fds |-> IF fd \in FdsOf(S) THEN FreeSock ELSE sock[fd]]
  BY DEF Gone
<1>2. FdsOf(S) \subseteq DOMAIN fd_to_id
  BY DEF FdsOf, Table, TableConsistent
<1>3. ASSUME NEW id \in DOMAIN connections \ S PROVE connections[id].fd \notin FdsOf(S)
  <2>1. SUFFICES ASSUME NEW y \in S, connections[id].fd = connections[y].fd PROVE FALSE
    BY DEF FdsOf
  <2>2. fd_to_id[connections[id].fd] = id /\ fd_to_id[connections[y].fd] = y
    BY DEF Table, TableConsistent
  <2> QED
    BY <2>1, <2>2
<1>4. /\ DOMAIN connections' = DOMAIN connections \ S
      /\ connections' \in [DOMAIN connections' -> Connection]
      /\ \A id \in DOMAIN connections' : connections'[id] = connections[id]
  BY <1>1 DEF TypedTable
<1>5. /\ DOMAIN fd_to_id' = DOMAIN fd_to_id \ FdsOf(S)
      /\ fd_to_id' \in [DOMAIN fd_to_id' -> ConnectionIds]
      /\ \A fd \in DOMAIN fd_to_id' : fd_to_id'[fd] = fd_to_id[fd]
  BY <1>1 DEF TypedTable
<1>6. /\ sock' \in [Fds -> Socket]
      /\ \A fd \in Fds : sock'[fd] = IF fd \in FdsOf(S) THEN FreeSock ELSE sock[fd]
  BY <1>1, FreeSockFacts DEF TypedTable
<1> QED
  BY <1>1, <1>2, <1>3, <1>4, <1>5, <1>6

\* Connections leave the table, told or not: the units sent and the events told
\* are those of the connections that leave.
LEMMA GoneInv ==
  ASSUME TableInv, Fresh, NEW S, S \subseteq DOMAIN connections, Gone(S),
         events' \in [Incarnations -> Histories], wire' \in [Incarnations -> Seq(Nat)],
         \A i \in Incarnations : (\A id \in S : connections[id].inc # i)
                                   => wire'[i] = wire[i] /\ events'[i] = events[i]
  PROVE  TableInv' /\ TableStep
<1>1. TypedTable /\ Table
  BY DEF TableInv
<1>2. /\ DOMAIN connections' = DOMAIN connections \ S
      /\ connections' \in [DOMAIN connections' -> Connection]
      /\ \A id \in DOMAIN connections' : connections'[id] = connections[id]
      /\ DOMAIN fd_to_id' = DOMAIN fd_to_id \ FdsOf(S)
      /\ fd_to_id' \in [DOMAIN fd_to_id' -> ConnectionIds]
      /\ \A fd \in DOMAIN fd_to_id' : fd_to_id'[fd] = fd_to_id[fd]
      /\ FdsOf(S) \subseteq DOMAIN fd_to_id
      /\ sock' \in [Fds -> Socket]
      /\ \A fd \in Fds : sock'[fd] = IF fd \in FdsOf(S) THEN FreeSock ELSE sock[fd]
      /\ filters' = {f \in filters : f[1] \notin FdsOf(S)}
      /\ \A id \in DOMAIN connections' : connections[id].fd \notin FdsOf(S)
  BY <1>1, GoneFacts
<1>3. TypedTable'
  BY <1>1, <1>2 DEF TypedTable
<1>4. \A id \in DOMAIN connections : connections[id].fd \in Fds /\ connections[id].inc \in Incarnations
  BY <1>1 DEF TypedTable, Connection
<1>5. Table'
  <2>1. ASSUME NEW id \in DOMAIN connections'
        PROVE  /\ connections'[id].fd \in DOMAIN fd_to_id'
               /\ fd_to_id'[connections'[id].fd] = id
               /\ sock'[connections'[id].fd].inc = connections'[id].inc
    BY <1>1, <1>2, <1>4 DEF Table, TableConsistent
  <2>2. ASSUME NEW fd \in DOMAIN fd_to_id'
        PROVE  fd_to_id'[fd] \in DOMAIN connections' /\ connections'[fd_to_id'[fd]].fd = fd
    <3>1. fd_to_id[fd] \in DOMAIN connections /\ connections[fd_to_id[fd]].fd = fd
      BY <1>1, <1>2 DEF Table, TableConsistent
    <3>2. fd_to_id[fd] \notin S
      BY <1>2, <3>1 DEF FdsOf
    <3> QED
      BY <1>2, <3>1, <3>2
  <2>3. ASSUME NEW f \in filters' PROVE f[1] \in DOMAIN fd_to_id'
    BY <1>1, <1>2 DEF Table, TableConsistent
  <2> QED
    BY <2>1, <2>2, <2>3 DEF Table, TableConsistent
<1>6. ASSUME NEW id \in DOMAIN connections'
      PROVE  /\ wire'[connections'[id].inc] = wire[connections[id].inc]
             /\ events'[connections'[id].inc] = events[connections[id].inc]
  <2>1. id \in DOMAIN connections /\ id \notin S /\ connections'[id] = connections[id]
    BY <1>2
  <2>2. \A y \in S : connections[y].inc # connections[id].inc
    BY <1>1, <2>1, IncOnce
  <2> QED
    BY <1>4, <2>1, <2>2
<1>7. Order'
  BY <1>2, <1>6 DEF TableInv, Order
<1>8. StreamInOrder'
  BY <1>2, <1>6 DEF TableInv, StreamInOrder
<1>9. BackpressureConsistent'
  <2>1. ASSUME NEW id \in DOMAIN connections', NEW x \in {"read", "write"}
        PROVE  <<connections'[id].fd, x>> \in filters' <=> <<connections[id].fd, x>> \in filters
    BY <1>2
  <2> QED
    BY <1>2, <2>1 DEF TableInv, BackpressureConsistent
<1>10. TableStep
  <2>1. ASSUME NEW fd \in Fds
        PROVE  \/ sock'[fd].inc = sock[fd].inc /\ (Tabled(fd)' <=> Tabled(fd))
               \/ Tabled(fd) /\ ~Tabled(fd)' /\ sock'[fd].inc = 0
    BY <1>2, FreeSockFacts DEF Tabled
  <2>2. ASSUME NEW fd \in DOMAIN fd_to_id'
        PROVE  /\ fd \in DOMAIN fd_to_id
               /\ connections'[fd_to_id'[fd]].inc = connections[fd_to_id[fd]].inc
    <3>1. fd_to_id'[fd] \in DOMAIN connections'
      BY <1>5 DEF Table, TableConsistent
    <3> QED
      BY <1>2, <3>1
  <2> QED
    BY <2>1, <2>2 DEF TableStep
<1> QED
  BY <1>3, <1>5, <1>7, <1>8, <1>9, <1>10 DEF TableInv

\* One connection goes on as d.
LEMMA UpdateInv ==
  ASSUME TableInv, Fresh, NEW id \in DOMAIN connections, NEW d \in Connection,
         d.fd = connections[id].fd, d.inc = connections[id].inc,
         connections' = [connections EXCEPT ![id] = d], fd_to_id' = fd_to_id,
         sock' \in [Fds -> Socket], \A fd \in Fds : sock'[fd].inc = sock[fd].inc,
         filters' \subseteq Fds \X {"read", "write"},
         \A f \in Fds \X {"read", "write"} : f[1] # d.fd => (f \in filters' <=> f \in filters),
         events' \in [Incarnations -> Histories], wire' \in [Incarnations -> Seq(Nat)],
         \A i \in Incarnations : i # d.inc => wire'[i] = wire[i] /\ events'[i] = events[i],
         wire'[d.inc] \o d.send_buffer = [k \in 1..d.taken |-> k],
         events'[d.inc] \in Alive,
         d.write_pending <=> d.send_buffer # <<>>,
         d.write_pending <=> <<d.fd, "write">> \in filters',
         d.read_paused <=> <<d.fd, "read">> \notin filters',
         d.read_paused => Len(d.send_buffer) >= LowWater
  PROVE  TableInv' /\ TableStep
<1>1. TypedTable /\ Table
  BY DEF TableInv
<1>2. /\ DOMAIN connections' = DOMAIN connections /\ connections'[id] = d
      /\ connections' \in [DOMAIN connections' -> Connection]
      /\ \A y \in DOMAIN connections : y # id => connections'[y] = connections[y]
  BY <1>1 DEF TypedTable
<1>3. TypedTable'
  BY <1>1, <1>2 DEF TypedTable
<1>4. \A y \in DOMAIN connections :
        /\ connections[y].fd \in Fds /\ connections[y].inc \in Incarnations
        /\ connections'[y].fd = connections[y].fd /\ connections'[y].inc = connections[y].inc
  BY <1>1, <1>2 DEF TypedTable, Connection
<1>5. ASSUME NEW y \in DOMAIN connections, y # id
      PROVE  connections[y].fd # d.fd /\ connections[y].inc # d.inc
  <2>1. connections[y].inc # connections[id].inc
    BY <1>1, <1>5, IncOnce
  <2>2. connections[y].fd # connections[id].fd
    BY <1>1, <1>5 DEF Table, TableConsistent
  <2> QED
    BY <2>1, <2>2
<1>6. Table'
  <2>1. ASSUME NEW y \in DOMAIN connections'
        PROVE  /\ connections'[y].fd \in DOMAIN fd_to_id'
               /\ fd_to_id'[connections'[y].fd] = y
               /\ sock'[connections'[y].fd].inc = connections'[y].inc
    <3>1. /\ connections[y].fd \in DOMAIN fd_to_id /\ fd_to_id[connections[y].fd] = y
          /\ sock[connections[y].fd].inc = connections[y].inc
      BY <1>1, <1>2 DEF Table, TableConsistent
    <3>2. /\ connections[y].fd \in Fds
          /\ connections'[y].fd = connections[y].fd /\ connections'[y].inc = connections[y].inc
      BY <1>2, <1>4
    <3>3. sock'[connections[y].fd].inc = sock[connections[y].fd].inc
      BY <3>2
    <3> QED
      BY <3>1, <3>2, <3>3
  <2>2. ASSUME NEW fd \in DOMAIN fd_to_id'
        PROVE  fd_to_id'[fd] \in DOMAIN connections' /\ connections'[fd_to_id'[fd]].fd = fd
    BY <1>1, <1>2, <1>4 DEF Table, TableConsistent
  <2>3. ASSUME NEW f \in filters' PROVE f[1] \in DOMAIN fd_to_id'
    <3>1. CASE f[1] = d.fd
      BY <1>1, <3>1 DEF Table, TableConsistent
    <3>2. CASE f[1] # d.fd
      BY <1>1, <3>2 DEF Table, TableConsistent
    <3> QED
      BY <3>1, <3>2
  <2> QED
    BY <2>1, <2>2, <2>3 DEF Table, TableConsistent
<1>7. Order'
  <2>1. ASSUME NEW y \in DOMAIN connections' PROVE events'[connections'[y].inc] \in Alive
    <3>1. CASE y = id
      BY <1>2, <3>1
    <3>2. CASE y # id
      BY <1>2, <1>4, <1>5, <3>2 DEF TableInv, Order
    <3> QED
      BY <3>1, <3>2
  <2> QED
    BY <2>1 DEF Order
<1>8. StreamInOrder'
  <2>1. ASSUME NEW y \in DOMAIN connections'
        PROVE  wire'[connections'[y].inc] \o connections'[y].send_buffer
                 = [k \in 1..connections'[y].taken |-> k]
    <3>1. CASE y = id
      BY <1>2, <3>1
    <3>2. CASE y # id
      <4>1. wire'[connections'[y].inc] = wire[connections[y].inc] /\ connections'[y] = connections[y]
        BY <1>2, <1>4, <1>5, <3>2
      <4>2. wire[connections[y].inc] \o connections[y].send_buffer = [k \in 1..connections[y].taken |-> k]
        BY <1>2, <3>2 DEF TableInv, StreamInOrder
      <4> QED
        BY ONLY <4>1, <4>2
    <3> QED
      BY <3>1, <3>2
  <2> QED
    BY <2>1 DEF StreamInOrder
<1>9. BackpressureConsistent'
  <2>1. ASSUME NEW y \in DOMAIN connections'
        PROVE  /\ connections'[y].write_pending <=> connections'[y].send_buffer # <<>>
               /\ connections'[y].write_pending <=> <<connections'[y].fd, "write">> \in filters'
               /\ connections'[y].read_paused <=> <<connections'[y].fd, "read">> \notin filters'
               /\ connections'[y].read_paused => Len(connections'[y].send_buffer) >= LowWater
    <3>1. CASE y = id
      BY <1>2, <3>1
    <3>2. CASE y # id
      <4>1. connections'[y] = connections[y] /\ connections[y].fd # d.fd /\ connections[y].fd \in Fds
        BY <1>2, <1>4, <1>5, <3>2
      <4>2. /\ <<connections[y].fd, "read">> \in filters' <=> <<connections[y].fd, "read">> \in filters
            /\ <<connections[y].fd, "write">> \in filters' <=> <<connections[y].fd, "write">> \in filters
        BY <4>1
      <4> QED
        BY <1>2, <4>1, <4>2 DEF TableInv, BackpressureConsistent
    <3> QED
      BY <3>1, <3>2
  <2> QED
    BY <2>1 DEF BackpressureConsistent
<1>10. TableStep
  <2>1. \A fd \in Fds : sock'[fd].inc = sock[fd].inc /\ (Tabled(fd)' <=> Tabled(fd))
    BY DEF Tabled
  <2>2. \A fd \in DOMAIN fd_to_id' :
          connections'[fd_to_id'[fd]].inc = connections[fd_to_id[fd]].inc
    BY <1>1, <1>4 DEF Table, TableConsistent
  <2>3. \A i \in Incarnations : (\A y \in DOMAIN connections : connections[y].inc # i)
                               => wire'[i] = wire[i] /\ events'[i] = events[i]
    OBVIOUS
  <2> QED
    BY <2>1, <2>2, <2>3 DEF TableStep
<1> QED
  BY <1>3, <1>6, <1>7, <1>8, <1>9, <1>10 DEF TableInv

\* Nothing happens to the tables.
LEMMA SameTable ==
  ASSUME TableInv, UNCHANGED tableVars
  PROVE  TableInv' /\ TableStep
<1>1. TableInv'
  BY DEF TableInv, tableVars, TypedTable, Table, TableConsistent, Order, StreamInOrder,
         BackpressureConsistent
<1>2. TableStep
  BY DEF TableStep, tableVars, Tabled
<1> QED
  BY <1>1, <1>2

\* The events told at the end of connections, and of data.
LEMMA TellEnd ==
  ASSUME TableInv, NEW S, S \subseteq DOMAIN connections,
         NEW what \in {<<"disconnected">>, <<"error", "disconnected">>, <<"data", "disconnected">>},
         Tell(S, what)
  PROVE  /\ events' \in [Incarnations -> Histories]
         /\ \A i \in Incarnations : (\A id \in S : connections[id].inc # i) => events'[i] = events[i]
<1>1. events \in [Incarnations -> Histories]
  BY DEF TableInv, TypedTable
<1>2. events' = [i \in Incarnations |-> IF i \in {Inc(id) : id \in S} THEN Told(i, what)
                                                                     ELSE events[i]]
  BY DEF Tell
<1>3. ASSUME NEW i \in Incarnations, i \in {Inc(id) : id \in S} PROVE Told(i, what) \in Histories
  <2>1. PICK id \in S : i = connections[id].inc
    BY <1>3 DEF Inc
  <2>2. events[i] \in Alive
    BY <2>1 DEF TableInv, Order
  <2> QED
    BY <2>2, ToldEnd
<1>4. events' \in [Incarnations -> Histories]
  BY <1>1, <1>2, <1>3
<1>5. ASSUME NEW i \in Incarnations, \A id \in S : connections[id].inc # i
      PROVE  events'[i] = events[i]
  <2>1. i \notin {Inc(id) : id \in S}
    BY <1>5 DEF Inc
  <2> QED
    BY <1>2, <2>1
<1> QED
  BY <1>4, <1>5

LEMMA TellData ==
  ASSUME TableInv, NEW id \in DOMAIN connections, NEW what \in {<<>>, <<"data">>}, Tell({id}, what)
  PROVE  /\ events' \in [Incarnations -> Histories]
         /\ events'[connections[id].inc] \in Alive
         /\ \A i \in Incarnations : i # connections[id].inc => events'[i] = events[i]
<1>1. events \in [Incarnations -> Histories] /\ connections[id].inc \in Incarnations
  BY DEF TableInv, TypedTable, Connection
<1>2. events' = [i \in Incarnations |-> IF i \in {Inc(y) : y \in {id}} THEN Told(i, what)
                                                                     ELSE events[i]]
  BY DEF Tell
<1>3. {Inc(y) : y \in {id}} = {connections[id].inc}
  BY DEF Inc
<1>4. Told(connections[id].inc, what) \in Alive
  BY ToldData DEF TableInv, Order
<1>5. Alive \subseteq Histories
  BY DEF Histories
<1> QED
  BY <1>1, <1>2, <1>3, <1>4, <1>5

\* HandleConnectionClose for the connections in S, HandleConnectionError for one.
LEMMA CloseInv ==
  ASSUME TableInv, Fresh, NEW S, S \subseteq DOMAIN connections, Gone(S),
         NEW what \in {<<"disconnected">>, <<"error", "disconnected">>, <<"data", "disconnected">>},
         Tell(S, what), wire' \in [Incarnations -> Seq(Nat)],
         \A i \in Incarnations : (\A id \in S : connections[id].inc # i) => wire'[i] = wire[i]
  PROVE  TableInv' /\ TableStep
BY TellEnd, GoneInv

-----------------------------------------------------------------------------
(* Sending                                                                 *)

\* d is the connection c but for the units taken from the user.
SameFlags(c, d) == /\ c.fd = d.fd /\ c.inc = d.inc /\ c.send_buffer = d.send_buffer
                   /\ c.read_paused = d.read_paused /\ c.write_pending = d.write_pending

\* Units go out on one connection.
LEMMA WireFacts ==
  ASSUME TableInv, NEW i \in Incarnations, NEW x \in Seq(Nat),
         wire' = [wire EXCEPT ![i] = wire[i] \o x]
  PROVE  /\ wire' \in [Incarnations -> Seq(Nat)]
         /\ wire[i] \in Seq(Nat) /\ wire'[i] = wire[i] \o x
         /\ \A j \in Incarnations : j # i => wire'[j] = wire[j]
<1>1. wire \in [Incarnations -> Seq(Nat)] /\ wire[i] \in Seq(Nat)
  BY DEF TableInv, TypedTable
<1>2. wire[i] \o x \in Seq(Nat)
  BY <1>1, ConcatProperties
<1> QED
  BY <1>1, <1>2

LEMMA BufferInv ==
  ASSUME TableInv, Fresh, NEW id \in DOMAIN connections, NEW c \in Connection,
         SameFlags(c, connections[id]), NEW rest \in Seq(Nat),
         rest # <<>> \/ c.send_buffer # <<>>,
         wire' \in [Incarnations -> Seq(Nat)],
         \A i \in Incarnations : i # c.inc => wire'[i] = wire[i],
         wire'[c.inc] \o (c.send_buffer \o rest) = [k \in 1..c.taken |-> k],
         BufferAndMonitorWrite(id, c, rest)
  PROVE  TableInv' /\ TableStep
<1> DEFINE buf == c.send_buffer \o rest
           pause == Len(buf) >= HighWater
           d == [c EXCEPT !.send_buffer = buf, !.write_pending = TRUE,
                          !.read_paused = c.read_paused \/ pause]
<1>1. TypedTable /\ connections[id] \in Connection /\ events \in [Incarnations -> Histories]
  BY DEF TableInv, TypedTable
<1>2. c.send_buffer \in Seq(Nat) /\ c.fd \in Fds /\ c.inc \in Incarnations /\ c.read_paused \in BOOLEAN
      /\ c.write_pending \in BOOLEAN
  BY DEF Connection
<1>3. buf \in Seq(Nat) /\ buf # <<>> /\ Len(buf) >= Len(c.send_buffer) /\ Len(buf) \in Nat
      /\ Len(c.send_buffer) \in Nat
  <2>1. buf \in Seq(Nat) /\ Len(buf) = Len(c.send_buffer) + Len(rest)
    BY <1>2, ConcatProperties
  <2>2. Len(c.send_buffer) \in Nat /\ Len(rest) \in Nat
    BY <1>2, LenProperties
  <2>3. Len(buf) # 0
    BY <1>2, <2>1, <2>2, EmptySeq
  <2>4. buf # <<>>
    BY <2>3, EmptySeq
  <2> QED
    BY <2>1, <2>2, <2>4
<1>4. CASE Len(buf) > MaxBuffer
  <2>1. Gone({id}) /\ Tell({id}, <<"error", "disconnected">>)
    BY <1>4 DEF BufferAndMonitorWrite, HandleConnectionError
  <2>2. \A i \in Incarnations : (\A y \in {id} : connections[y].inc # i) => wire'[i] = wire[i]
    BY DEF SameFlags
  <2> QED
    BY <2>1, <2>2, CloseInv
<1>5. CASE ~(Len(buf) > MaxBuffer)
  <2>1. /\ connections' = [connections EXCEPT ![id] = d]
        /\ filters' = WatchFilters(c, pause)
        /\ UNCHANGED <<fd_to_id, events, sock>>
    BY <1>5 DEF BufferAndMonitorWrite
  <2>2. pause \in BOOLEAN /\ (pause => Len(buf) >= LowWater)
    BY <1>3, ConstantFacts
  <2> HIDE DEF buf, pause
  <2>3. /\ d \in Connection /\ d.fd = c.fd /\ d.inc = c.inc /\ d.taken = c.taken
        /\ d.send_buffer = buf /\ d.write_pending = TRUE /\ d.read_paused = (c.read_paused \/ pause)
    BY <1>2, <1>3, <2>2 DEF Connection
  <2> HIDE DEF d
  <2>4. /\ c.write_pending <=> <<c.fd, "write">> \in filters
        /\ c.read_paused <=> <<c.fd, "read">> \notin filters
        /\ c.read_paused => Len(c.send_buffer) >= LowWater
    BY DEF TableInv, BackpressureConsistent, SameFlags
  <2>5. filters \subseteq Fds \X {"read", "write"}
    BY <1>1 DEF TypedTable
  <2>6. filters' \subseteq Fds \X {"read", "write"}
    BY <1>2, <2>1, <2>5 DEF WatchFilters
  <2>7. \A f \in Fds \X {"read", "write"} : f[1] # c.fd => (f \in filters' <=> f \in filters)
    BY <2>1 DEF WatchFilters
  <2>8. <<c.fd, "write">> \in filters'
    BY <2>1, <2>4 DEF WatchFilters
  <2>9. (c.read_paused \/ pause) <=> <<c.fd, "read">> \notin filters'
    BY <2>1, <2>4 DEF WatchFilters
  <2>10. (c.read_paused \/ pause) => Len(buf) >= LowWater
    BY <1>3, <2>2, <2>4, ConstantFacts
  <2>11. events'[d.inc] \in Alive
    BY <2>1, <2>3 DEF TableInv, Order, SameFlags
  <2>12. sock' \in [Fds -> Socket] /\ \A fd \in Fds : sock'[fd].inc = sock[fd].inc
    BY <1>1, <2>1 DEF TypedTable
  <2>13. wire'[d.inc] \o d.send_buffer = [k \in 1..d.taken |-> k]
    BY <2>3 DEF buf
  <2>14. d.fd = connections[id].fd /\ d.inc = connections[id].inc
    BY <2>3 DEF SameFlags
  <2>15. /\ events' \in [Incarnations -> Histories]
         /\ \A i \in Incarnations : i # d.inc => wire'[i] = wire[i] /\ events'[i] = events[i]
    BY <1>1, <2>1, <2>3
  <2>16. /\ d.write_pending <=> d.send_buffer # <<>>
         /\ d.write_pending <=> <<d.fd, "write">> \in filters'
         /\ d.read_paused <=> <<d.fd, "read">> \notin filters'
         /\ d.read_paused => Len(d.send_buffer) >= LowWater
    BY <1>3, <2>3, <2>8, <2>9, <2>10 DEF buf
  <2>17. \A f \in Fds \X {"read", "write"} : f[1] # d.fd => (f \in filters' <=> f \in filters)
    BY <2>3, <2>7
  <2> QED
    BY <2>1, <2>3, <2>6, <2>11, <2>12, <2>13, <2>14, <2>15, <2>16, <2>17, UpdateInv
<1> QED
  BY <1>4, <1>5

LEMMA SendDirectInv ==
  ASSUME TableInv, Fresh, NEW id \in DOMAIN connections, NEW c \in Connection,
         SameFlags(c, connections[id]), c.send_buffer = <<>>,
         NEW data \in Seq(Nat), NEW k \in 0..Len(data),
         wire[c.inc] \o data = [j \in 1..c.taken |-> j],
         SendDirect(id, c, data, k)
  PROVE  TableInv' /\ TableStep
<1> DEFINE first == SubSeq(data, 1, k)
           rest == SubSeq(data, k + 1, Len(data))
<1>1. first \in Seq(Nat) /\ rest \in Seq(Nat) /\ first \o rest = data
  BY SplitAt
<1>2. /\ wire' = [wire EXCEPT ![c.inc] = wire[c.inc] \o first]
      /\ IF rest # <<>>
         THEN BufferAndMonitorWrite(id, c, rest)
         ELSE /\ connections' = [connections EXCEPT ![id] = c]
              /\ UNCHANGED <<fd_to_id, filters, events, sock>>
  BY DEF SendDirect
<1> HIDE DEF first, rest
<1>3. c.inc \in Incarnations /\ c.inc = connections[id].inc /\ c.fd = connections[id].fd
  BY DEF Connection, SameFlags
<1>4. /\ wire' \in [Incarnations -> Seq(Nat)]
      /\ wire[c.inc] \in Seq(Nat) /\ wire'[c.inc] = wire[c.inc] \o first
      /\ \A j \in Incarnations : j # c.inc => wire'[j] = wire[j]
  BY <1>1, <1>2, <1>3, WireFacts
<1>5. wire'[c.inc] \o rest = [j \in 1..c.taken |-> j]
  <2> DEFINE w == wire[c.inc]
  <2>1. w \in Seq(Nat) /\ wire'[c.inc] = w \o first
    BY <1>4
  <2> HIDE DEF w
  <2>2. (w \o first) \o rest = w \o (first \o rest)
    BY ONLY <1>1, <2>1, AssociativeUnits
  <2> QED
    BY <1>1, <2>1, <2>2 DEF w
<1>6. c.send_buffer \o rest = rest
  BY <1>1, ConcatEmptySeq
<1>7. CASE rest # <<>>
  BY <1>1, <1>2, <1>4, <1>5, <1>6, <1>7, BufferInv
<1>8. CASE rest = <<>>
  <2>1. connections' = [connections EXCEPT ![id] = c] /\ UNCHANGED <<fd_to_id, filters, events, sock>>
    BY <1>2, <1>8
  <2>2. TypedTable /\ Order /\ BackpressureConsistent
    BY DEF TableInv
  <2>3. /\ sock' \in [Fds -> Socket] /\ \A fd \in Fds : sock'[fd].inc = sock[fd].inc
        /\ filters' \subseteq Fds \X {"read", "write"}
        /\ \A f \in Fds \X {"read", "write"} : f[1] # c.fd => (f \in filters' <=> f \in filters)
        /\ events' \in [Incarnations -> Histories]
        /\ \A i \in Incarnations : i # c.inc => wire'[i] = wire[i] /\ events'[i] = events[i]
    BY <1>4, <2>1, <2>2 DEF TypedTable
  <2>4. events'[c.inc] \in Alive
    BY <1>3, <2>1, <2>2 DEF Order
  <2>5. /\ c.write_pending <=> c.send_buffer # <<>>
        /\ c.write_pending <=> <<c.fd, "write">> \in filters'
        /\ c.read_paused <=> <<c.fd, "read">> \notin filters'
        /\ c.read_paused => Len(c.send_buffer) >= LowWater
    BY <2>1, <2>2 DEF BackpressureConsistent, SameFlags
  <2>6. wire'[c.inc] \o c.send_buffer = [j \in 1..c.taken |-> j]
    BY <1>5, <1>8
  <2> QED
    BY <1>3, <1>4, <2>1, <2>3, <2>4, <2>5, <2>6, UpdateInv
<1> QED
  BY <1>7, <1>8

LEMMA DoSendDataInv ==
  ASSUME TableInv, Fresh, NEW op, op.size \in Nat, DoSendData(op)
  PROVE  TableInv' /\ TableStep
<1>1. CASE UNCHANGED tableVars
  BY <1>1, SameTable
<1>2. ASSUME op.id \in DOMAIN connections, ~UNCHANGED tableVars PROVE TableInv' /\ TableStep
  <2> DEFINE id == op.id
             c0 == connections[id]
             c == [c0 EXCEPT !.taken = c0.taken + op.size]
             data == Payload(c0, op.size)
             s == sock[c0.fd]
  <2>1. \/ c0.send_buffer # <<>> /\ BufferAndMonitorWrite(id, c, data) /\ UNCHANGED wire
        \/ c0.send_buffer = <<>> /\ HandleConnectionError(id) /\ UNCHANGED wire
        \/ c0.send_buffer = <<>> /\ \E k \in Taken(s, op.size) : SendDirect(id, c, data, k)
    BY <1>2 DEF DoSendData
  <2>2. /\ c0 \in Connection /\ c0.taken \in Nat /\ c0.inc \in Incarnations
        /\ c0.send_buffer \in Seq(Nat) /\ wire \in [Incarnations -> Seq(Nat)]
    BY <1>2 DEF TableInv, TypedTable, Connection
  <2>3. c0.taken + op.size \in Nat
    BY <2>2
  <2>4. c \in Connection /\ SameFlags(c, c0) /\ c.taken = c0.taken + op.size
    BY <2>2, <2>3 DEF Connection, SameFlags
  <2>5. data = Following(c0.taken, op.size)
    BY DEF Payload, Following
  <2>6. /\ data \in Seq(Nat) /\ Len(data) = op.size
        /\ Numbers(c0.taken) \o data = Numbers(c0.taken + op.size)
        /\ Numbers(c0.taken) \in Seq(Nat)
    <3> HIDE DEF c0, data
    <3> QED
      BY <2>2, <2>5, NumbersFollow
  <2>7. wire[c0.inc] \o c0.send_buffer = Numbers(c0.taken)
    BY <1>2 DEF TableInv, StreamInOrder, Numbers
  <2>8. c.send_buffer = c0.send_buffer /\ c.inc = c0.inc
    BY <2>4 DEF SameFlags
  <2> HIDE DEF c, data, c0, id, s
  <2>9. CASE c0.send_buffer # <<>> /\ BufferAndMonitorWrite(id, c, data) /\ UNCHANGED wire
    <3> DEFINE w == wire[c0.inc]
               b == c0.send_buffer
    <3>0. w \in Seq(Nat) /\ b \in Seq(Nat)
      BY <2>2
    <3> HIDE DEF w, b
    <3>1. (w \o b) \o data = w \o (b \o data)
      BY ONLY <2>6, <3>0, AssociativeUnits
    <3>2. wire'[c.inc] \o (c.send_buffer \o data) = [k \in 1..c.taken |-> k]
      BY <2>4, <2>6, <2>7, <2>8, <2>9, <3>1 DEF Numbers, w, b
    <3> QED
      BY <1>2, <2>2, <2>4, <2>6, <2>8, <2>9, <3>2, BufferInv DEF c0, id
  <2>10. CASE HandleConnectionError(id) /\ UNCHANGED wire
    <3>1. Gone({id}) /\ Tell({id}, <<"error", "disconnected">>) /\ {id} \subseteq DOMAIN connections
      BY <1>2, <2>10 DEF HandleConnectionError, id
    <3> QED
      BY <2>2, <2>10, <3>1, CloseInv
  <2>11. CASE c0.send_buffer = <<>> /\ \E k \in Taken(s, op.size) : SendDirect(id, c, data, k)
    <3>1. PICK k \in 0..Len(data) : SendDirect(id, c, data, k)
      BY <2>6, <2>11 DEF Taken
    <3>2. wire[c.inc] = Numbers(c0.taken)
      BY <2>2, <2>7, <2>8, <2>11, ConcatEmptySeq
    <3>3. wire[c.inc] \o data = [j \in 1..c.taken |-> j]
      BY <2>4, <2>6, <3>2 DEF Numbers
    <3> QED
      BY <1>2, <2>4, <2>6, <2>8, <2>11, <3>1, <3>3, SendDirectInv DEF c0, id
  <2> QED
    BY <2>1, <2>9, <2>10, <2>11
<1> QED
  BY <1>1, <1>2 DEF DoSendData

-----------------------------------------------------------------------------
(* Events of the kqueue, timeouts and removals                             *)

LEMMA HandleReadEventInv ==
  ASSUME TableInv, Fresh, NEW id \in DOMAIN connections, HandleReadEvent(id)
  PROVE  TableInv' /\ TableStep
<1> DEFINE c == connections[id]
           s == sock[c.fd]
           data == IF s.unread THEN <<"data">> ELSE <<>>
<1>1. /\ TypedTable /\ c \in Connection /\ c.fd \in Fds /\ c.inc \in Incarnations
      /\ wire \in [Incarnations -> Seq(Nat)] /\ wire' = wire /\ {id} \subseteq DOMAIN connections
  BY DEF TableInv, TypedTable, Connection, HandleReadEvent
<1>2. CASE Tell({id}, <<"error", "disconnected">>) /\ Gone({id})
  BY <1>1, <1>2, CloseInv
<1>3. CASE Tell({id}, data \o <<"disconnected">>) /\ Gone({id})
  <2>1. data \o <<"disconnected">> \in {<<"disconnected">>, <<"data", "disconnected">>}
    <3>1. CASE s.unread
      <4>1. <<"data">> \in Seq(Kinds)
        BY DEF Kinds
      <4>2. <<"data">> \o <<"disconnected">> = Append(<<"data">>, "disconnected")
        BY <4>1, TwoMore DEF Kinds
      <4>3. /\ Append(<<"data">>, "disconnected") \in Seq(Kinds)
            /\ Len(Append(<<"data">>, "disconnected")) = 2
            /\ Append(<<"data">>, "disconnected")[1] = "data"
            /\ Append(<<"data">>, "disconnected")[2] = "disconnected"
        BY <4>1 DEF Kinds
      <4> QED
        BY <3>1, <4>2, <4>3, Tuples DEF Kinds
    <3>2. CASE ~s.unread
      <4>1. <<"disconnected">> \in Seq(Kinds)
        BY DEF Kinds
      <4> QED
        BY <3>2, <4>1, ConcatEmptySeq
    <3> QED
      BY <3>1, <3>2
  <2> HIDE DEF data
  <2> QED
    BY <1>1, <1>3, <2>1, CloseInv
<1>4. CASE /\ Tell({id}, data)
           /\ sock' = [sock EXCEPT ![c.fd].unread = FALSE]
           /\ UNCHANGED <<connections, fd_to_id, filters>>
  <2>1. data \in {<<>>, <<"data">>}
    OBVIOUS
  <2>2. /\ events' \in [Incarnations -> Histories]
        /\ events'[connections[id].inc] \in Alive
        /\ \A i \in Incarnations : i # connections[id].inc => events'[i] = events[i]
    BY <1>4, <2>1, TellData
  <2>3. sock' \in [Fds -> Socket] /\ \A fd \in Fds : sock'[fd].inc = sock[fd].inc
    <3>1. sock \in [Fds -> Socket] /\ sock' = [sock EXCEPT ![c.fd] = [sock[c.fd] EXCEPT !.unread = FALSE]]
      BY <1>1, <1>4 DEF TypedTable
    <3>2. /\ [sock[c.fd] EXCEPT !.unread = FALSE] \in Socket
          /\ [sock[c.fd] EXCEPT !.unread = FALSE].inc = sock[c.fd].inc
      BY <1>1, <3>1 DEF Socket
    <3> QED
      BY <1>1, <3>1, <3>2
  <2>4. connections' = [connections EXCEPT ![id] = c]
    BY <1>1, <1>4 DEF TypedTable
  <2>5. filters' \subseteq Fds \X {"read", "write"}
    BY <1>1, <1>4 DEF TypedTable
  <2>6. wire'[c.inc] \o c.send_buffer = [k \in 1..c.taken |-> k]
    BY <1>1 DEF TableInv, StreamInOrder
  <2>7. /\ c.write_pending <=> c.send_buffer # <<>>
        /\ c.write_pending <=> <<c.fd, "write">> \in filters'
        /\ c.read_paused <=> <<c.fd, "read">> \notin filters'
        /\ c.read_paused => Len(c.send_buffer) >= LowWater
    BY <1>4 DEF TableInv, BackpressureConsistent
  <2>8. c.fd = connections[id].fd /\ c.inc = connections[id].inc /\ fd_to_id' = fd_to_id
    BY <1>4
  <2>9. \A f \in Fds \X {"read", "write"} : f[1] # c.fd => (f \in filters' <=> f \in filters)
    BY <1>4
  <2>10. /\ events'[c.inc] \in Alive
         /\ \A i \in Incarnations : i # c.inc => wire'[i] = wire[i] /\ events'[i] = events[i]
         /\ wire' \in [Incarnations -> Seq(Nat)]
    BY <1>1, <2>2
  <2> HIDE DEF c
  <2> QED
    BY <1>1, <2>2, <2>3, <2>4, <2>5, <2>6, <2>7, <2>8, <2>9, <2>10, UpdateInv
<1> QED
  BY <1>2, <1>3, <1>4 DEF HandleReadEvent

\* The connection id becomes d and keeps its place, its order and its filters:
\* what UpdateInv asks of a step.
Updates(id, d) ==
  /\ d.fd = connections[id].fd /\ d.inc = connections[id].inc
  /\ connections' = [connections EXCEPT ![id] = d] /\ fd_to_id' = fd_to_id
  /\ sock' \in [Fds -> Socket] /\ \A fd \in Fds : sock'[fd].inc = sock[fd].inc
  /\ filters' \subseteq Fds \X {"read", "write"}
  /\ \A f \in Fds \X {"read", "write"} : f[1] # d.fd => (f \in filters' <=> f \in filters)
  /\ events' \in [Incarnations -> Histories] /\ wire' \in [Incarnations -> Seq(Nat)]
  /\ \A i \in Incarnations : i # d.inc => wire'[i] = wire[i] /\ events'[i] = events[i]
  /\ wire'[d.inc] \o d.send_buffer = [k \in 1..d.taken |-> k]
  /\ events'[d.inc] \in Alive
  /\ d.write_pending <=> d.send_buffer # <<>>
  /\ d.write_pending <=> <<d.fd, "write">> \in filters'
  /\ d.read_paused <=> <<d.fd, "read">> \notin filters'
  /\ d.read_paused => Len(d.send_buffer) >= LowWater

LEMMA UpdatesInv ==
  ASSUME TableInv, Fresh, NEW id \in DOMAIN connections, NEW d \in Connection, Updates(id, d)
  PROVE  TableInv' /\ TableStep
BY UpdateInv DEF Updates

\* SendToSocket took k of the waiting units.
LEMMA AfterSendInv ==
  ASSUME TableInv, Fresh, NEW id \in DOMAIN connections, NEW c, c = connections[id],
         NEW k \in 0..Len(c.send_buffer),
         connections' = [connections EXCEPT ![id] = AfterSend(c, k)],
         filters' = FiltersOf(c, AfterSend(c, k)),
         wire' = [wire EXCEPT ![c.inc] = wire[c.inc] \o SubSeq(c.send_buffer, 1, k)],
         UNCHANGED <<fd_to_id, events, sock>>
  PROVE  TableInv' /\ TableStep
<1> DEFINE first == SubSeq(c.send_buffer, 1, k)
           buf == SubSeq(c.send_buffer, k + 1, Len(c.send_buffer))
           resume == k > 0 /\ Len(buf) < LowWater
           d == AfterSend(c, k)
<1>1. /\ TypedTable /\ c \in Connection /\ c.fd \in Fds /\ c.inc \in Incarnations /\ c.taken \in Nat
      /\ c.send_buffer \in Seq(Nat) /\ c.read_paused \in BOOLEAN /\ c.write_pending \in BOOLEAN
  BY DEF TableInv, TypedTable, Connection
<1>2. /\ first \in Seq(Nat) /\ buf \in Seq(Nat) /\ Len(buf) = Len(c.send_buffer) - k
      /\ first \o buf = c.send_buffer /\ Len(buf) \in Nat /\ Len(c.send_buffer) \in Nat
  BY <1>1, SplitAt, LenProperties
<1>3. d = [c EXCEPT !.send_buffer = buf, !.read_paused = c.read_paused /\ ~resume,
                    !.write_pending = c.write_pending /\ buf # <<>>]
  BY DEF AfterSend
<1> HIDE DEF buf, first, resume, d
<1>4. /\ d \in Connection /\ d.fd = c.fd /\ d.inc = c.inc /\ d.taken = c.taken /\ d.send_buffer = buf
      /\ d.read_paused = (c.read_paused /\ ~resume)
      /\ d.write_pending = (c.write_pending /\ buf # <<>>)
  <2>1. (c.read_paused /\ ~resume) \in BOOLEAN /\ (c.write_pending /\ buf # <<>>) \in BOOLEAN
    OBVIOUS
  <2> QED
    BY <1>1, <1>2, <1>3, <2>1 DEF Connection
<1>5. /\ c.write_pending <=> c.send_buffer # <<>>
      /\ c.write_pending <=> <<c.fd, "write">> \in filters
      /\ c.read_paused <=> <<c.fd, "read">> \notin filters
      /\ c.read_paused => Len(c.send_buffer) >= LowWater
  BY DEF TableInv, BackpressureConsistent
<1>6. filters \subseteq Fds \X {"read", "write"} /\ filters' = FiltersOf(c, d)
  BY <1>1 DEF TypedTable, d
<1>7. filters' \subseteq Fds \X {"read", "write"}
  BY <1>1, <1>6 DEF FiltersOf
<1>8. \A f \in Fds \X {"read", "write"} : f[1] # d.fd => (f \in filters' <=> f \in filters)
  BY <1>4, <1>6 DEF FiltersOf
<1>9. buf # <<>> => c.write_pending
  <2>1. Len(c.send_buffer) = 0 => Len(buf) = 0
    BY <1>2
  <2>2. ASSUME c.send_buffer = <<>> PROVE buf = <<>>
    BY <1>2, <2>1, <2>2, EmptySeq
  <2> QED
    BY <1>5, <2>2
<1>10. d.write_pending <=> d.send_buffer # <<>>
  BY <1>4, <1>9
<1>11. d.write_pending <=> <<d.fd, "write">> \in filters'
  BY <1>4, <1>5, <1>6, <1>9 DEF FiltersOf
<1>12. d.read_paused <=> <<d.fd, "read">> \notin filters'
  BY <1>4, <1>5, <1>6 DEF FiltersOf
<1>13. d.read_paused => Len(d.send_buffer) >= LowWater
  <2>1. ASSUME c.read_paused, ~resume PROVE Len(buf) >= LowWater
    <3>1. CASE k = 0
      BY <1>2, <1>5, <2>1, <3>1
    <3>2. CASE k > 0
      BY <1>2, <2>1, <3>2, ConstantFacts DEF resume
    <3> QED
      BY <1>2, <3>1, <3>2
  <2> QED
    BY <1>4, <2>1
<1>14. /\ wire' \in [Incarnations -> Seq(Nat)]
       /\ wire[c.inc] \in Seq(Nat) /\ wire'[c.inc] = wire[c.inc] \o first
       /\ \A j \in Incarnations : j # c.inc => wire'[j] = wire[j]
  BY <1>1, <1>2, WireFacts DEF first
<1>15. wire'[d.inc] \o d.send_buffer = [j \in 1..d.taken |-> j]
  <2> DEFINE w == wire[c.inc]
  <2>1. w \in Seq(Nat) /\ wire'[c.inc] = w \o first
    BY <1>14
  <2>2. w \o c.send_buffer = [j \in 1..c.taken |-> j]
    BY DEF TableInv, StreamInOrder
  <2> HIDE DEF w
  <2>3. (w \o first) \o buf = w \o (first \o buf)
    BY ONLY <1>2, <2>1, AssociativeUnits
  <2> QED
    BY <1>2, <1>4, <2>1, <2>2, <2>3
<1>16. /\ sock' \in [Fds -> Socket] /\ \A fd \in Fds : sock'[fd].inc = sock[fd].inc
       /\ events' \in [Incarnations -> Histories]
       /\ \A i \in Incarnations : i # d.inc => wire'[i] = wire[i] /\ events'[i] = events[i]
  BY <1>1, <1>4, <1>14 DEF TypedTable
<1>17. events'[d.inc] \in Alive
  BY <1>4 DEF TableInv, Order
<1>18. connections' = [connections EXCEPT ![id] = d]
  BY DEF d
<1>19. /\ d \in Connection /\ d.fd = connections[id].fd /\ d.inc = connections[id].inc
       /\ fd_to_id' = fd_to_id /\ wire' \in [Incarnations -> Seq(Nat)]
  BY <1>4, <1>14
<1>20. Updates(id, d)
  BY <1>7, <1>8, <1>10, <1>11, <1>12, <1>13, <1>15, <1>16, <1>17, <1>18, <1>19 DEF Updates
<1> QED
  BY <1>19, <1>20, UpdatesInv

LEMMA HandleWriteEventInv ==
  ASSUME TableInv, Fresh, NEW id \in DOMAIN connections, HandleWriteEvent(id)
  PROVE  TableInv' /\ TableStep
<1> DEFINE c == connections[id]
<1>1. /\ c \in Connection /\ c.send_buffer \in Seq(Nat) /\ Len(c.send_buffer) \in Nat
      /\ wire \in [Incarnations -> Seq(Nat)] /\ {id} \subseteq DOMAIN connections
  BY LenProperties DEF TableInv, TypedTable, Connection
<1>2. CASE HandleConnectionError(id) /\ UNCHANGED wire
  BY <1>1, <1>2, CloseInv DEF HandleConnectionError
<1>3. CASE /\ \E k \in IF c.send_buffer = <<>> THEN {0} ELSE Taken(sock[c.fd], Len(c.send_buffer)) :
                /\ connections' = [connections EXCEPT ![id] = AfterSend(c, k)]
                /\ filters' = FiltersOf(c, AfterSend(c, k))
                /\ wire' = [wire EXCEPT ![c.inc] = @ \o SubSeq(c.send_buffer, 1, k)]
           /\ UNCHANGED <<fd_to_id, events, sock>>
  <2>1. PICK k \in IF c.send_buffer = <<>> THEN {0} ELSE Taken(sock[c.fd], Len(c.send_buffer)) :
               /\ connections' = [connections EXCEPT ![id] = AfterSend(c, k)]
               /\ filters' = FiltersOf(c, AfterSend(c, k))
               /\ wire' = [wire EXCEPT ![c.inc] = wire[c.inc] \o SubSeq(c.send_buffer, 1, k)]
    BY <1>3
  <2>2. k \in 0..Len(c.send_buffer)
    BY <1>1 DEF Taken
  <2> QED
    BY <1>3, <2>1, <2>2, AfterSendInv
<1> QED
  BY <1>2, <1>3 DEF HandleWriteEvent

LEMMA HandleEventInv ==
  ASSUME TableInv, Fresh, NEW e, HandleEvent(e)
  PROVE  TableInv' /\ TableStep
<1>1. CASE UNCHANGED tableVars
  BY <1>1, SameTable
<1>2. CASE /\ fd_to_id[e.fd] \in DOMAIN connections
           /\ \/ HandleConnectionClose({fd_to_id[e.fd]}) /\ UNCHANGED wire
              \/ HandleConnectionError(fd_to_id[e.fd]) /\ UNCHANGED wire
              \/ HandleReadEvent(fd_to_id[e.fd])
              \/ HandleWriteEvent(fd_to_id[e.fd])
  <2> DEFINE id == fd_to_id[e.fd]
  <2>1. id \in DOMAIN connections /\ {id} \subseteq DOMAIN connections
    BY <1>2
  <2>2. wire \in [Incarnations -> Seq(Nat)]
    BY DEF TableInv, TypedTable
  <2>3. CASE HandleConnectionClose({id}) /\ UNCHANGED wire
    BY <2>1, <2>2, <2>3, CloseInv DEF HandleConnectionClose
  <2>4. CASE HandleConnectionError(id) /\ UNCHANGED wire
    BY <2>1, <2>2, <2>4, CloseInv DEF HandleConnectionError
  <2>5. CASE HandleReadEvent(id)
    BY <2>1, <2>5, HandleReadEventInv
  <2>6. CASE HandleWriteEvent(id)
    BY <2>1, <2>6, HandleWriteEventInv
  <2> QED
    BY <1>2, <2>3, <2>4, <2>5, <2>6
<1> QED
  BY <1>1, <1>2 DEF HandleEvent

\* A removal on request, of timed-out connections, or of all: nothing is told, or the end.
LEMMA RemovalInv ==
  ASSUME TableInv, Fresh, NEW S, S \subseteq DOMAIN connections, UNCHANGED wire,
         HandleConnectionClose(S) \/ (Gone(S) /\ UNCHANGED events)
  PROVE  TableInv' /\ TableStep
<1>1. wire \in [Incarnations -> Seq(Nat)] /\ events \in [Incarnations -> Histories]
  BY DEF TableInv, TypedTable
<1>2. CASE HandleConnectionClose(S)
  BY <1>1, <1>2, CloseInv DEF HandleConnectionClose
<1>3. CASE Gone(S) /\ UNCHANGED events
  BY <1>1, <1>3, GoneInv
<1> QED
  BY <1>2, <1>3

LEMMA DoRemoveConnectionInv ==
  ASSUME TableInv, Fresh, NEW op, DoRemoveConnection(op)
  PROVE  TableInv' /\ TableStep
<1>1. CASE op.id \in DOMAIN connections
  <2>1. Gone({op.id}) /\ UNCHANGED <<events, wire>> /\ {op.id} \subseteq DOMAIN connections
    BY <1>1 DEF DoRemoveConnection
  <2> QED
    BY <2>1, RemovalInv
<1>2. CASE op.id \notin DOMAIN connections
  BY <1>2, SameTable DEF DoRemoveConnection, tableVars
<1> QED
  BY <1>1, <1>2

-----------------------------------------------------------------------------
(* Owners, incarnations and batches across a step                          *)

LEMMA TableFds ==
  ASSUME TypedTable, Table
  PROVE  \A id \in DOMAIN connections :
           /\ connections[id].fd \in Fds /\ connections[id].inc \in Incarnations
           /\ Tabled(connections[id].fd) /\ sock[connections[id].fd].inc = connections[id].inc
BY DEF TypedTable, Table, TableConsistent, Connection, Tabled

\* Fresh after a step that accepts and adds nothing.
LEMMA FreshFrom ==
  ASSUME TypedTable, TypedTable', Table, Hands, Hands', Fresh, TypedRest, left' = left,
         \A fd \in Fds : sock'[fd].inc = sock[fd].inc \/ sock'[fd].inc = 0,
         \A fd \in Fds : Holds(fd)' \/ Queued(fd)' => Holds(fd) \/ Queued(fd),
         \A i \in Incarnations : (\A id \in DOMAIN connections : connections[id].inc # i)
                               => wire'[i] = wire[i] /\ events'[i] = events[i]
  PROVE  Fresh'
<1>1. Accepted' = Accepted /\ Accepted \in Nat
  BY ConstantFacts DEF Accepted, TypedRest, OpTypes
<1>2. \A fd \in Fds : sock[fd].inc \in 0..Budget["add"] /\ sock'[fd].inc \in 0..Budget["add"]
  BY DEF TypedTable, Socket
<1>3. ASSUME NEW fd \in Fds, NEW g \in Fds, Open(fd)', sock'[fd].inc = sock'[g].inc PROVE fd = g
  BY <1>3 DEF Fresh, Open
<1>4. ASSUME NEW fd \in Fds PROVE sock'[fd].inc <= Accepted
  BY <1>1, <1>2 DEF Fresh
<1>5. ASSUME NEW i \in Incarnations, i > Accepted PROVE Blank(i)'
  <2>1. \A id \in DOMAIN connections : connections[id].inc # i
    <3>1. ASSUME NEW id \in DOMAIN connections PROVE connections[id].inc # i
      <4>1. connections[id].fd \in Fds /\ sock[connections[id].fd].inc = connections[id].inc
        BY TableFds
      <4>2. connections[id].inc <= Accepted /\ connections[id].inc \in Int
        BY <1>2, <4>1 DEF Fresh
      <4> QED
        BY <1>1, <1>5, <4>2, ConstantFacts
    <3> QED
      BY <3>1
  <2> QED
    BY <1>5, <2>1 DEF Fresh, Blank
<1>6. ASSUME NEW fd \in Fds, Holds(fd)' \/ Queued(fd)' PROVE Blank(sock[fd].inc)'
  <2>1. Open(fd)' /\ (Holds(fd) \/ Queued(fd))
    BY <1>6 DEF Hands, Hand
  <2>2. sock'[fd].inc = sock[fd].inc /\ sock[fd].inc # 0 /\ Open(fd)
    BY <2>1 DEF Open
  <2>3. ~Tabled(fd) /\ Blank(sock[fd].inc) /\ sock[fd].inc \in Incarnations
    BY <1>2, <2>1, <2>2, ConstantFacts DEF Hands, Hand, Fresh
  <2>4. \A id \in DOMAIN connections : connections[id].inc # sock[fd].inc
    BY <2>2, <2>3, TableFds DEF Fresh
  <2> QED
    BY <2>2, <2>3, <2>4 DEF Blank
<1> QED
  BY <1>1, <1>3, <1>4, <1>5, <1>6 DEF Fresh

\* A step on the tables, while the calls and the queue hold the same descriptors.
LEMMA OwnersKeep ==
  ASSUME Inv, TableInv', TableStep, left' = left, is_running' => is_running, OnceQueued',
         \A fd \in Fds : (Holds(fd)' <=> Holds(fd)) /\ (Queued(fd)' <=> Queued(fd))
  PROVE  Hands' /\ Fresh'
<1>1. ASSUME NEW fd \in Fds
      PROVE  /\ Holds(fd)' \/ Queued(fd)' \/ Tabled(fd)' => Open(fd)'
             /\ ~(Holds(fd)' /\ Queued(fd)') /\ ~(Holds(fd)' /\ Tabled(fd)')
             /\ ~(Queued(fd)' /\ Tabled(fd)')
             /\ is_running' /\ Open(fd)' => Holds(fd)' \/ Queued(fd)' \/ Tabled(fd)'
  <2>1. /\ Holds(fd) \/ Queued(fd) \/ Tabled(fd) => Open(fd)
        /\ ~(Holds(fd) /\ Queued(fd)) /\ ~(Holds(fd) /\ Tabled(fd)) /\ ~(Queued(fd) /\ Tabled(fd))
        /\ is_running /\ Open(fd) => Holds(fd) \/ Queued(fd) \/ Tabled(fd)
    BY DEF Inv, Hands, Hand
  <2>2. \/ (Open(fd)' <=> Open(fd)) /\ (Tabled(fd)' <=> Tabled(fd))
        \/ Tabled(fd) /\ ~Tabled(fd)' /\ ~Open(fd)'
    BY DEF TableStep, Open
  <2> QED
    BY <2>1, <2>2
<1>2. Hands'
  BY <1>1 DEF Hands, Hand
<1>3. Fresh'
  <2>1. TypedTable /\ TypedTable' /\ Table /\ Hands /\ Fresh /\ TypedRest
    BY DEF Inv, TableInv
  <2>2. \A fd \in Fds : sock'[fd].inc = sock[fd].inc \/ sock'[fd].inc = 0
    BY DEF TableStep
  <2>3. \A i \in Incarnations : (\A id \in DOMAIN connections : connections[id].inc # i)
                               => wire'[i] = wire[i] /\ events'[i] = events[i]
    BY DEF TableStep
  <2> QED
    BY <1>2, <2>1, <2>2, <2>3, FreshFrom
<1> QED
  BY <1>2, <1>3

LEMMA SameQueue ==
  ASSUME Inv, UNCHANGED ops
  PROVE  OnceQueued' /\ \A fd \in Fds : Queued(fd)' <=> Queued(fd)
BY DEF Inv, Hands, Hand, OnceQueued, Queued, Queue

LEMMA SameCalls ==
  ASSUME UNCHANGED call
  PROVE  \A fd \in Fds : Holds(fd)' <=> Holds(fd)
BY DEF Holds

\* The first operation leaves the queue.
LEMMA QueueTail ==
  ASSUME Inv, ops # <<>>, ops' = Tail(ops)
  PROVE  /\ Head(ops) \in Operations /\ ops' \in Seq(Operations) /\ OnceQueued'
         /\ Head(ops).type = "add" => Head(ops).fd \in Fds
         /\ \A k \in 1..Len(ops') : ops'[k].type = "add" => ops'[k].fd \in Fds
         /\ \A fd \in Fds : IF Head(ops).type = "add" /\ Head(ops).fd = fd
                            THEN Queued(fd) /\ ~Queued(fd)'
                            ELSE Queued(fd)' <=> Queued(fd)
<1>1. ops \in Seq(Operations)
  BY DEF Inv, TypedRest
<1>2. /\ Head(ops) \in Operations /\ ops' \in Seq(Operations) /\ Len(ops) \in Nat
      /\ Len(ops') = Len(ops) - 1 /\ Len(ops) > 0 /\ Head(ops) = ops[1]
      /\ \A k \in 1..Len(ops') : ops'[k] = ops[k + 1]
  BY <1>1, HeadTailProperties, EmptySeq
<1>3. Head(ops).type = "add" => Head(ops).fd \in Fds
  BY <1>2 DEF Inv, Roles, QueueRoles
<1>4. ASSUME NEW k \in 1..Len(ops'), ops'[k].type = "add" PROVE ops'[k].fd \in Fds
  <2>1. k + 1 \in 1..Len(ops) /\ ops'[k] = ops[k + 1]
    BY <1>2
  <2> QED
    BY <1>4, <2>1 DEF Inv, Roles, QueueRoles
<1>5. ASSUME NEW fd \in Fds, NEW k \in Queue(fd)' PROVE k \in Int /\ k + 1 \in Queue(fd) /\ k >= 1
  <2>1. k \in 1..Len(ops') /\ ops'[k].type = "add" /\ ops'[k].fd = fd
    BY DEF Queue
  <2>2. k + 1 \in 1..Len(ops) /\ ops'[k] = ops[k + 1] /\ k \in Int /\ k >= 1
    BY <1>2, <2>1
  <2> QED
    BY <2>1, <2>2 DEF Queue
<1>6. ASSUME NEW fd \in Fds, NEW k \in Queue(fd), k # 1 PROVE k - 1 \in Queue(fd)'
  <2>1. k \in 1..Len(ops) /\ ops[k].type = "add" /\ ops[k].fd = fd
    BY DEF Queue
  <2>2. k - 1 \in 1..Len(ops') /\ (k - 1) + 1 = k
    BY <1>2, <1>6, <2>1
  <2>3. ops'[k - 1] = ops[k]
    BY <1>2, <2>2
  <2> QED
    BY <2>1, <2>2, <2>3 DEF Queue
<1>7. \A fd \in Fds : \A j, k \in Queue(fd) : j = k
  BY DEF Inv, Hands, Hand, OnceQueued
<1>8. OnceQueued'
  <2>1. ASSUME NEW fd \in Fds, NEW j \in Queue(fd)', NEW k \in Queue(fd)' PROVE j = k
    <3>1. j + 1 = k + 1 /\ j \in Int /\ k \in Int
      BY <1>5, <1>7
    <3> QED
      BY <3>1
  <2> QED
    BY <2>1 DEF OnceQueued
<1>9. ASSUME NEW fd \in Fds, Head(ops).type = "add", Head(ops).fd = fd
      PROVE  Queued(fd) /\ ~Queued(fd)'
  <2>1. 1 \in Queue(fd)
    BY <1>2, <1>9 DEF Queue
  <2>2. ASSUME NEW k \in Queue(fd)' PROVE FALSE
    BY <1>5, <1>7, <2>1
  <2> QED
    BY <2>1, <2>2 DEF Queued
<1>10. ASSUME NEW fd \in Fds, ~(Head(ops).type = "add" /\ Head(ops).fd = fd)
       PROVE  Queued(fd)' <=> Queued(fd)
  <2>1. 1 \notin Queue(fd)
    BY <1>2, <1>10 DEF Queue
  <2>2. \A k \in Queue(fd) : k - 1 \in Queue(fd)'
    BY <1>6, <2>1
  <2> QED
    BY <1>5, <2>2 DEF Queued
<1> QED
  BY <1>2, <1>3, <1>4, <1>8, <1>9, <1>10

\* The events left of a batch still belong to the connections they were reported for.
LEMMA BatchKeeps ==
  ASSUME Inv, TableStep, UNCHANGED batch \/ (batch # <<>> /\ batch' = Tail(batch))
  PROVE  batch' \in Seq(KEvents) /\ NoStaleEvent'
<1>1. batch \in Seq(KEvents) /\ DOMAIN batch = 1..Len(batch) /\ Len(batch) \in Nat
  BY LenProperties DEF Inv, TypedRest
<1>2. /\ batch' \in Seq(KEvents)
      /\ \A k \in DOMAIN batch' : \E j \in DOMAIN batch : batch'[k] = batch[j]
  <2>1. CASE UNCHANGED batch
    BY <1>1, <2>1
  <2>2. CASE batch # <<>> /\ batch' = Tail(batch)
    <3>1. /\ batch' \in Seq(KEvents) /\ Len(batch') = Len(batch) - 1
          /\ \A k \in 1..Len(batch') : batch'[k] = batch[k + 1]
      BY <1>1, <2>2, HeadTailProperties
    <3>2. DOMAIN batch' = 1..Len(batch')
      BY <3>1, LenProperties
    <3>3. \A k \in 1..Len(batch') : k + 1 \in 1..Len(batch)
      BY <1>1, <3>1
    <3> QED
      BY <1>1, <3>1, <3>2, <3>3
  <2> QED
    BY <2>1, <2>2
<1>3. ASSUME NEW k \in DOMAIN batch', batch'[k].fd \in DOMAIN fd_to_id'
      PROVE  connections'[fd_to_id'[batch'[k].fd]].inc = batch'[k].inc
  <2>1. PICK j \in DOMAIN batch : batch'[k] = batch[j]
    BY <1>2
  <2>2. batch[j].fd \in DOMAIN fd_to_id
    BY <1>3, <2>1 DEF TableStep
  <2>3. connections[fd_to_id[batch[j].fd]].inc = batch[j].inc
    BY <2>2 DEF Inv, Batched, NoStaleEvent, Inc
  <2> QED
    BY <1>3, <2>1, <2>3 DEF TableStep
<1> QED
  BY <1>2, <1>3 DEF NoStaleEvent, Inc

-----------------------------------------------------------------------------
(* Adding a connection                                                     *)

\* The seq of a new id, and the next one.
LEMMA SeqFacts ==
  ASSUME TypedRest
  PROVE  NextSeq \in 1..(SeqValues - 1) /\ (NextSeq + 1) % SeqValues \in 0..(SeqValues - 1)
<1>1. SeqValues \in Nat /\ SeqValues > 1 /\ seq \in 0..(SeqValues - 1)
  BY ReactorAssumption DEF TypedRest
<1>2. NextSeq \in 1..(SeqValues - 1)
  BY <1>1 DEF NextSeq
<1> QED
  BY <1>1, <1>2

NewConnection(fd) == [fd |-> fd, inc |-> sock[fd].inc, send_buffer |-> <<>>, taken |-> 0,
                      read_paused |-> FALSE, write_pending |-> FALSE]

\* What DoAddConnection does with a descriptor while the reactor runs.
Added(fd) ==
  /\ NewId(fd) \notin DOMAIN connections
  /\ filters' = filters \cup {<<fd, "read">>}
  /\ connections' = [x \in DOMAIN connections \cup {NewId(fd)} |->
                       IF x = NewId(fd) THEN NewConnection(fd) ELSE connections[x]]
  /\ fd_to_id' = [x \in DOMAIN fd_to_id \cup {fd} |->
                    IF x = fd THEN NewId(fd) ELSE fd_to_id[x]]
  /\ events' = [events EXCEPT ![sock[fd].inc] = Append(events[sock[fd].inc], "connected")]
  /\ issued' = [issued EXCEPT ![sock[fd].inc] = NewId(fd)]
  /\ UNCHANGED <<sock, wire>>
Refused(fd) == CloseFd(fd) /\ UNCHANGED <<connections, fd_to_id, filters, events, wire, issued>>

LEMMA AddOutcomes ==
  ASSUME NEW op, DoAddConnection(op)
  PROVE  \/ ~is_running /\ UNCHANGED <<tableVars, seq, issued>>
         \/ seq' = (NextSeq + 1) % SeqValues /\ (Added(op.fd) \/ Refused(op.fd))
BY DEF DoAddConnection, Added, Refused, NewConnection

LEMMA AddedInv ==
  ASSUME Inv, NEW fd \in Fds, Queued(fd), Added(fd)
  PROVE  /\ TableInv' /\ sock[fd].inc \in Incarnations
         /\ \A x \in Fds : Tabled(x)' <=> Tabled(x) \/ x = fd
         /\ \A i \in Incarnations : i # sock[fd].inc => events'[i] = events[i]
         /\ sock' = sock /\ wire' = wire
         /\ issued' \in [Incarnations -> ConnectionIds \cup {<<>>}]
<1> DEFINE id == NewId(fd)
           new == NewConnection(fd)
<1>0. /\ id = NewId(fd) /\ id \notin DOMAIN connections
      /\ new = [fd |-> fd, inc |-> sock[fd].inc, send_buffer |-> <<>>, taken |-> 0,
                read_paused |-> FALSE, write_pending |-> FALSE]
      /\ filters' = filters \cup {<<fd, "read">>}
      /\ connections' = [x \in DOMAIN connections \cup {id} |->
                           IF x = id THEN new ELSE connections[x]]
      /\ fd_to_id' = [x \in DOMAIN fd_to_id \cup {fd} |-> IF x = fd THEN id ELSE fd_to_id[x]]
      /\ events' = [events EXCEPT ![sock[fd].inc] = Append(events[sock[fd].inc], "connected")]
      /\ issued' = [issued EXCEPT ![sock[fd].inc] = id]
      /\ UNCHANGED <<sock, wire>>
  BY DEF Added, NewConnection
<1> HIDE DEF id, new
<1> DEFINE i == sock[fd].inc
<1>1. TypedTable /\ Table /\ TypedRest /\ Hands /\ Fresh
  BY DEF Inv, TableInv
<1>2. Open(fd) /\ ~Tabled(fd) /\ Blank(i)
  BY <1>1 DEF Hands, Hand, Fresh
<1>3. i \in Incarnations
  BY <1>1, <1>2, ConstantFacts DEF TypedTable, Socket, Open
<1>4. id \in ConnectionIds /\ id = <<fd, NextSeq>>
  BY <1>0, <1>1, SeqFacts DEF NewId, ConnectionIds
<1>5. new \in Connection
  BY <1>0, <1>3, EmptySeq DEF Connection
<1>6. events' = [events EXCEPT ![i] = <<"connected">>] /\ <<"connected">> \in Alive
  BY <1>0, <1>2 DEF Blank, Alive
<1>7. Alive \subseteq Histories
  BY DEF Histories
<1>8. /\ events' \in [Incarnations -> Histories] /\ events'[i] = <<"connected">>
      /\ \A j \in Incarnations : j # i => events'[j] = events[j]
  BY <1>1, <1>3, <1>6, <1>7 DEF TypedTable
<1>9. /\ DOMAIN connections' = DOMAIN connections \cup {id} /\ connections'[id] = new
      /\ \A y \in DOMAIN connections : connections'[y] = connections[y]
      /\ connections' \in [DOMAIN connections' -> Connection]
  BY <1>0, <1>1, <1>5 DEF TypedTable
<1>10. /\ DOMAIN fd_to_id' = DOMAIN fd_to_id \cup {fd} /\ fd_to_id'[fd] = id
       /\ \A x \in DOMAIN fd_to_id : fd_to_id'[x] = fd_to_id[x]
       /\ fd_to_id' \in [DOMAIN fd_to_id' -> ConnectionIds]
  <2>1. fd \notin DOMAIN fd_to_id
    BY <1>2 DEF Tabled
  <2> QED
    BY <1>0, <1>1, <1>4, <2>1 DEF TypedTable
<1>11. new.fd = fd /\ new.inc = i /\ new.send_buffer = <<>> /\ new.taken = 0
       /\ new.read_paused = FALSE /\ new.write_pending = FALSE
  BY <1>0
<1>12. TypedTable'
  <2>1. DOMAIN connections' \subseteq ConnectionIds /\ DOMAIN fd_to_id' \subseteq Fds
    BY <1>1, <1>4, <1>9, <1>10 DEF TypedTable
  <2>2. filters' \subseteq Fds \X {"read", "write"}
    BY <1>0, <1>1 DEF TypedTable
  <2>3. sock' \in [Fds -> Socket] /\ wire' \in [Incarnations -> Seq(Nat)]
    BY <1>0, <1>1 DEF TypedTable
  <2> QED
    BY <1>8, <1>9, <1>10, <2>1, <2>2, <2>3 DEF TypedTable
<1>13. ASSUME NEW y \in DOMAIN connections
       PROVE  /\ connections[y].fd # fd /\ connections[y].inc # i
              /\ connections[y].fd \in Fds /\ connections[y].inc \in Incarnations
  <2>1. /\ connections[y].fd \in Fds /\ connections[y].inc \in Incarnations
        /\ Tabled(connections[y].fd) /\ sock[connections[y].fd].inc = connections[y].inc
    BY <1>1, TableFds
  <2>2. connections[y].fd # fd
    BY <1>2, <2>1
  <2> QED
    BY <1>1, <1>2, <2>1, <2>2 DEF Fresh, Open
<1> HIDE DEF i
<1>14. Table'
  <2>1. ASSUME NEW y \in DOMAIN connections'
        PROVE  /\ connections'[y].fd \in DOMAIN fd_to_id'
               /\ fd_to_id'[connections'[y].fd] = y
               /\ sock'[connections'[y].fd].inc = connections'[y].inc
    <3>1. CASE y = id
      BY <1>0, <1>9, <1>10, <1>11, <3>1 DEF i
    <3>2. CASE y \in DOMAIN connections
      BY <1>0, <1>1, <1>9, <1>10, <3>2 DEF Table, TableConsistent
    <3> QED
      BY <1>9, <3>1, <3>2
  <2>2. ASSUME NEW x \in DOMAIN fd_to_id'
        PROVE  fd_to_id'[x] \in DOMAIN connections' /\ connections'[fd_to_id'[x]].fd = x
    <3>1. CASE x = fd
      BY <1>9, <1>10, <1>11, <3>1
    <3>2. CASE x \in DOMAIN fd_to_id
      BY <1>0, <1>1, <1>9, <1>10, <3>2 DEF Table, TableConsistent
    <3> QED
      BY <1>10, <3>1, <3>2
  <2>3. ASSUME NEW f \in filters' PROVE f[1] \in DOMAIN fd_to_id'
    BY <1>0, <1>1, <1>10 DEF Table, TableConsistent
  <2> QED
    BY <2>1, <2>2, <2>3 DEF Table, TableConsistent
<1>15. Order'
  <2>1. ASSUME NEW y \in DOMAIN connections' PROVE events'[connections'[y].inc] \in Alive
    <3>1. CASE y = id
      BY <1>6, <1>8, <1>9, <1>11, <3>1
    <3>2. CASE y \in DOMAIN connections
      BY <1>8, <1>9, <1>13, <3>2 DEF Inv, TableInv, Order
    <3> QED
      BY <1>9, <3>1, <3>2
  <2> QED
    BY <2>1 DEF Order
<1>16. StreamInOrder'
  <2>1. ASSUME NEW y \in DOMAIN connections'
        PROVE  wire'[connections'[y].inc] \o connections'[y].send_buffer
                 = [k \in 1..connections'[y].taken |-> k]
    <3>1. CASE y = id
      <4>1. wire'[connections'[y].inc] = <<>> /\ connections'[y].send_buffer = <<>>
            /\ connections'[y].taken = 0
        BY <1>0, <1>2, <1>9, <1>11, <3>1 DEF Blank
      <4>2. <<>> \o <<>> = <<>>
        BY EmptySeq, ConcatEmptySeq
      <4>3. [k \in 1..0 |-> k] = <<>>
        OBVIOUS
      <4> QED
        BY <4>1, <4>2, <4>3
    <3>2. CASE y \in DOMAIN connections
      <4>1. connections'[y] = connections[y] /\ wire' = wire
        BY <1>0, <1>9, <3>2
      <4> QED
        BY <3>2, <4>1 DEF Inv, TableInv, StreamInOrder
    <3> QED
      BY <1>9, <3>1, <3>2
  <2> QED
    BY <2>1 DEF StreamInOrder
<1>17. BackpressureConsistent'
  <2>1. <<fd, "write">> \notin filters'
    <3>1. <<fd, "write">> \notin filters
      BY <1>1, <1>2 DEF Table, TableConsistent, Tabled
    <3> QED
      BY <1>0, <3>1
  <2>2. <<fd, "read">> \in filters'
    BY <1>0
  <2>3. ASSUME NEW y \in DOMAIN connections'
        PROVE  /\ connections'[y].write_pending <=> connections'[y].send_buffer # <<>>
               /\ connections'[y].write_pending <=> <<connections'[y].fd, "write">> \in filters'
               /\ connections'[y].read_paused <=> <<connections'[y].fd, "read">> \notin filters'
               /\ connections'[y].read_paused => Len(connections'[y].send_buffer) >= LowWater
    <3>1. CASE y = id
      BY <1>9, <1>11, <2>1, <2>2, <3>1
    <3>2. CASE y \in DOMAIN connections
      <4>1. connections'[y] = connections[y] /\ connections[y].fd # fd
        BY <1>9, <1>13, <3>2
      <4>2. /\ <<connections[y].fd, "read">> \in filters' <=> <<connections[y].fd, "read">> \in filters
            /\ <<connections[y].fd, "write">> \in filters' <=> <<connections[y].fd, "write">> \in filters
        BY <1>0, <4>1
      <4> QED
        BY <3>2, <4>1, <4>2 DEF Inv, TableInv, BackpressureConsistent
    <3> QED
      BY <1>9, <3>1, <3>2
  <2> QED
    BY <2>3 DEF BackpressureConsistent
<1>18. \A x \in Fds : Tabled(x)' <=> Tabled(x) \/ x = fd
  BY <1>10 DEF Tabled
<1>19. issued' \in [Incarnations -> ConnectionIds \cup {<<>>}]
  BY <1>0, <1>1, <1>4 DEF TypedRest
<1> QED
  BY <1>0, <1>3, <1>8, <1>12, <1>14, <1>15, <1>16, <1>17, <1>18, <1>19 DEF TableInv, i

\* A descriptor that is in no table changes: it is closed, opened, or its socket's state moves.
LEMMA SockInv ==
  ASSUME TableInv, sock' \in [Fds -> Socket],
         \A fd \in Fds : Tabled(fd) => sock'[fd].inc = sock[fd].inc,
         UNCHANGED <<connections, fd_to_id, filters, events, wire>>
  PROVE  TableInv'
<1>1. TypedTable' /\ Order' /\ StreamInOrder' /\ BackpressureConsistent'
  BY DEF TableInv, TypedTable, Order, StreamInOrder, BackpressureConsistent
<1>2. Table'
  <2>1. TypedTable /\ Table
    BY DEF TableInv
  <2>2. ASSUME NEW id \in DOMAIN connections
        PROVE  sock'[connections[id].fd].inc = connections[id].inc
    BY <2>1, TableFds
  <2> QED
    BY <2>1, <2>2 DEF Table, TableConsistent
<1> QED
  BY <1>1, <1>2 DEF TableInv

\* Descriptor fd leaves the queue, for the table or to be closed.
LEMMA LeavesQueue ==
  ASSUME Inv, NEW fd \in Fds, Queued(fd), OnceQueued', ~Queued(fd)',
         UNCHANGED <<call, is_running, left>>,
         \A x \in Fds : x # fd => (Queued(x)' <=> Queued(x)),
         \/ ~is_running /\ UNCHANGED tableVars
         \/ Added(fd) \/ Refused(fd)
  PROVE  TableInv' /\ Hands' /\ Fresh'
<1>1. TypedTable /\ Table /\ TypedRest /\ Hands /\ Fresh /\ TableInv
  BY DEF Inv, TableInv
<1>2. \A x \in Fds : Holds(x)' <=> Holds(x)
  BY SameCalls
<1>3. Open(fd) /\ ~Tabled(fd) /\ ~Holds(fd)
  BY <1>1 DEF Hands, Hand
<1>4. \A x \in Fds : Holds(x)' \/ Queued(x)' => (Holds(x) \/ Queued(x)) /\ x # fd
  BY <1>2, <1>3
<1>5. CASE ~is_running /\ UNCHANGED tableVars
  <2>1. TableInv'
    BY <1>1, <1>5, SameTable
  <2>2. ASSUME NEW x \in Fds PROVE Hand(x)'
    <3>1. (Open(x)' <=> Open(x)) /\ (Tabled(x)' <=> Tabled(x)) /\ Hand(x) /\ ~is_running'
      BY <1>1, <1>5 DEF Open, Tabled, tableVars, Hands
    <3>2. (Holds(x)' <=> Holds(x)) /\ (Queued(x)' => Queued(x))
      BY <1>2
    <3> QED
      BY <3>1, <3>2 DEF Hand
  <2>3. Hands'
    BY <2>2 DEF Hands
  <2>4. /\ TypedTable' /\ wire' = wire /\ events' = events
        /\ \A x \in Fds : sock'[x].inc = sock[x].inc
    BY <1>5, <2>1 DEF TableInv, tableVars
  <2> QED
    BY <1>1, <1>4, <2>1, <2>3, <2>4, FreshFrom
<1>6. CASE Refused(fd)
  <2>1. /\ sock' \in [Fds -> Socket] /\ sock'[fd].inc = 0
        /\ \A x \in Fds : x # fd => sock'[x] = sock[x]
    BY <1>1, <1>6, FreeSockFacts DEF Refused, CloseFd, TypedTable
  <2>2. TableInv'
    BY <1>1, <1>3, <1>6, <2>1, SockInv DEF Refused
  <2>3. ASSUME NEW x \in Fds PROVE Hand(x)'
    <3>1. (Tabled(x)' <=> Tabled(x)) /\ (Holds(x)' <=> Holds(x)) /\ Hand(x) /\ is_running' = is_running
      BY <1>1, <1>2, <1>6 DEF Refused, Tabled, Hands
    <3>2. CASE x = fd
      <4>1. ~Open(x)' /\ ~Queued(x)' /\ ~Tabled(x) /\ ~Holds(x)
        BY <1>3, <2>1, <3>2 DEF Open
      <4> QED
        BY <3>1, <4>1 DEF Hand
    <3>3. CASE x # fd
      <4>1. (Open(x)' <=> Open(x)) /\ (Queued(x)' <=> Queued(x))
        BY <2>1, <3>3 DEF Open
      <4> QED
        BY <3>1, <4>1 DEF Hand
    <3> QED
      BY <3>2, <3>3
  <2>4. Hands'
    BY <2>3 DEF Hands
  <2>5. /\ TypedTable' /\ wire' = wire /\ events' = events
        /\ \A x \in Fds : sock'[x].inc = sock[x].inc \/ sock'[x].inc = 0
    BY <1>6, <2>1, <2>2 DEF TableInv, Refused
  <2> QED
    BY <1>1, <1>4, <2>2, <2>4, <2>5, FreshFrom
<1>7. CASE Added(fd)
  <2> DEFINE i == sock[fd].inc
  <2>1. /\ TableInv' /\ i \in Incarnations
        /\ \A x \in Fds : Tabled(x)' <=> Tabled(x) \/ x = fd
        /\ \A j \in Incarnations : j # i => events'[j] = events[j]
        /\ sock' = sock /\ wire' = wire
    BY <1>7, AddedInv
  <2>2. ASSUME NEW x \in Fds PROVE Hand(x)'
    <3>1. /\ (Open(x)' <=> Open(x)) /\ (Holds(x)' <=> Holds(x)) /\ Hand(x)
          /\ is_running' = is_running /\ (Tabled(x)' <=> Tabled(x) \/ x = fd)
      BY <1>1, <1>2, <2>1 DEF Open, Hands
    <3>2. CASE x = fd
      <4>1. Open(x) /\ ~Queued(x)' /\ ~Holds(x) /\ Tabled(x)'
        BY <1>3, <3>1, <3>2
      <4> QED
        BY <3>1, <4>1 DEF Hand
    <3>3. CASE x # fd
      <4>1. (Tabled(x)' <=> Tabled(x)) /\ (Queued(x)' <=> Queued(x))
        BY <3>1, <3>3
      <4> QED
        BY <3>1, <4>1 DEF Hand
    <3> QED
      BY <3>2, <3>3
  <2>3. Hands'
    BY <2>2 DEF Hands
  <2>4. i <= Accepted /\ Accepted' = Accepted /\ Accepted \in Nat
    BY <1>1, ConstantFacts DEF Accepted, Fresh, TypedRest, OpTypes
  <2> HIDE DEF i
  <2>5. ASSUME NEW j \in Incarnations, j > Accepted PROVE Blank(j)'
    <3>1. j # i
      BY <2>1, <2>4, <2>5, ConstantFacts
    <3> QED
      BY <1>1, <2>1, <2>5, <3>1 DEF Fresh, Blank
  <2>6. ASSUME NEW x \in Fds, Holds(x)' \/ Queued(x)' PROVE Blank(sock[x].inc)'
    <3>1. (Holds(x) \/ Queued(x)) /\ x # fd
      BY <1>4, <2>6
    <3>2. Open(x) /\ Blank(sock[x].inc)
      BY <1>1, <3>1 DEF Hands, Hand, Fresh
    <3>3. sock[x].inc # i
      BY <1>1, <3>1, <3>2 DEF Fresh, i
    <3>4. sock[x].inc \in Incarnations
      BY <1>1, <3>2, ConstantFacts DEF TypedTable, Socket, Open
    <3> QED
      BY <2>1, <3>2, <3>3, <3>4 DEF Blank
  <2>7. /\ \A x, y \in Fds : Open(x)' /\ sock'[x].inc = sock'[y].inc => x = y
        /\ \A x \in Fds : sock'[x].inc <= Accepted'
    BY <1>1, <2>1, <2>4 DEF Fresh, Open
  <2>8. Fresh'
    BY <2>4, <2>5, <2>6, <2>7 DEF Fresh
  <2> QED
    BY <2>1, <2>3, <2>8
<1> QED
  BY <1>5, <1>6, <1>7

LEMMA DoAddConnectionInv ==
  ASSUME Inv, ops # <<>>, ops' = Tail(ops), Head(ops).type = "add",
         DoAddConnection(Head(ops)), UNCHANGED <<call, is_running, left>>
  PROVE  /\ TableInv' /\ Hands' /\ Fresh'
         /\ seq' \in 0..(SeqValues - 1)
         /\ issued' \in [Incarnations -> ConnectionIds \cup {<<>>}]
<1>1. PICK fd \in Fds : fd = Head(ops).fd
  BY QueueTail
<1>2. OnceQueued' /\ \A x \in Fds : IF fd = x THEN Queued(x) /\ ~Queued(x)'
                                     ELSE Queued(x)' <=> Queued(x)
  BY <1>1, QueueTail
<1>3. /\ Queued(fd) /\ ~Queued(fd)'
      /\ \A x \in Fds : x # fd => (Queued(x)' <=> Queued(x))
  BY <1>2
<1>4. \/ ~is_running /\ UNCHANGED <<tableVars, seq, issued>>
      \/ seq' = (NextSeq + 1) % SeqValues /\ (Added(fd) \/ Refused(fd))
  BY <1>1, AddOutcomes
<1>5. TableInv' /\ Hands' /\ Fresh'
  BY <1>2, <1>3, <1>4, LeavesQueue
<1>6. TypedRest
  BY DEF Inv
<1>7. seq' \in 0..(SeqValues - 1)
  BY <1>4, <1>6, SeqFacts DEF TypedRest
<1>8. issued' \in [Incarnations -> ConnectionIds \cup {<<>>}]
  <2>1. CASE Added(fd)
    BY <1>3, <2>1, AddedInv
  <2>2. CASE issued' = issued
    BY <1>6, <2>2 DEF TypedRest
  <2> QED
    BY <1>4, <2>1, <2>2 DEF Refused
<1> QED
  BY <1>5, <1>7, <1>8

-----------------------------------------------------------------------------
(* The steps of the calls                                                  *)

\* Neither the queue nor a call changes hands.
LEMMA QuietStep ==
  ASSUME Inv, TableInv', TableStep, UNCHANGED <<ops, call, left>>, is_running' => is_running
  PROVE  Roles' /\ Hands' /\ Fresh'
<1>1. Roles'
  BY DEF Inv, Roles, CallRoles, QueueRoles
<1>2. OnceQueued' /\ \A fd \in Fds : (Holds(fd)' <=> Holds(fd)) /\ (Queued(fd)' <=> Queued(fd))
  BY SameQueue, SameCalls
<1> QED
  BY <1>1, <1>2, OwnersKeep

LEMMA SameBatch ==
  ASSUME Inv, UNCHANGED <<batch, connections, fd_to_id>>
  PROVE  batch' \in Seq(KEvents) /\ NoStaleEvent'
BY DEF Inv, TypedRest, Batched, NoStaleEvent, Inc

\* A socket changes its state and stays the socket it was.
LEMMA SockStep ==
  ASSUME TableInv, sock' \in [Fds -> Socket], \A fd \in Fds : sock'[fd].inc = sock[fd].inc,
         UNCHANGED <<connections, fd_to_id, filters, events, wire>>
  PROVE  TableInv' /\ TableStep
<1>1. TableInv'
  BY SockInv
<1>2. TableStep
  BY DEF TableStep, Tabled
<1> QED
  BY <1>1, <1>2

\* One thread's call moves on.
LEMMA CallMoves ==
  ASSUME Inv, NEW t \in Callers, NEW r \in CallRecords, call' = [call EXCEPT ![t] = r],
         t # Acceptor => r.type # "add" /\ (r.pc # "idle" => r.type # "none"),
         t = Acceptor => (r.pc # "idle" => r.type = "add" /\ r.fd \in Fds)
  PROVE  /\ call' \in [Callers -> CallRecords] /\ CallRoles'
         /\ t # Acceptor => \A fd \in Fds : Holds(fd)' <=> Holds(fd)
         /\ t = Acceptor => call'[Acceptor] = r
<1>1. call \in [Callers -> CallRecords] /\ CallRoles
  BY DEF Inv, TypedRest, Roles
<1>2. /\ call' \in [Callers -> CallRecords] /\ call'[t] = r
      /\ \A u \in Callers : u # t => call'[u] = call[u]
  BY <1>1
<1>3. CallRoles'
  <2>1. ASSUME NEW u \in Users
        PROVE  call'[u].type # "add" /\ (call'[u].pc # "idle" => call'[u].type # "none")
    <3>1. u # Acceptor /\ u \in Callers
      BY ConstantFacts
    <3>2. CASE u = t
      BY <1>2, <3>1, <3>2
    <3>3. CASE u # t
      BY <1>1, <1>2, <3>1, <3>3 DEF CallRoles
    <3> QED
      BY <3>2, <3>3
  <2>2. call'[Acceptor].pc # "idle" => call'[Acceptor].type = "add" /\ call'[Acceptor].fd \in Fds
    <3>1. CASE Acceptor = t
      BY <1>2, <3>1
    <3>2. CASE Acceptor # t
      BY <1>1, <1>2, <3>2, ConstantFacts DEF CallRoles
    <3> QED
      BY <3>1, <3>2
  <2> QED
    BY <2>1, <2>2 DEF CallRoles
<1>4. t # Acceptor => call'[Acceptor] = call[Acceptor]
  BY <1>2, ConstantFacts
<1> QED
  BY <1>2, <1>3, <1>4 DEF Holds

LEMMA IdleFacts ==
  /\ Idle \in CallRecords /\ Idle.pc = "idle" /\ Idle.type = "none"
  /\ Idle.fd = 0 /\ Idle.id = <<>> /\ Idle.size = 0
BY DEF Idle, CallRecords, Places

LEMMA AcceptInv ==
  ASSUME Inv, NEW fd \in Fds, Accept(fd)
  PROVE  Inv'
<1> DEFINE n == Accepted + 1
           s == [FreeSock EXCEPT !.inc = n, !.writable = TRUE]
           r == [Idle EXCEPT !.pc = "check", !.type = "add", !.fd = fd]
<1>1. TypedTable /\ Table /\ TypedRest /\ Hands /\ Fresh /\ TableInv /\ Roles
  BY DEF Inv, TableInv
<1>2. /\ left \in [OpTypes -> Nat] /\ left["add"] <= Budget["add"] /\ left["add"] > 0
      /\ left["add"] \in Nat /\ left' = [left EXCEPT !["add"] = left["add"] - 1]
      /\ Budget["add"] \in Nat
  BY <1>1, ConstantFacts DEF Accept, Spend, TypedRest, OpTypes
<1>3. left'["add"] = left["add"] - 1
  BY <1>2 DEF OpTypes
<1>4. /\ left' \in [OpTypes -> Nat] /\ left'["add"] <= Budget["add"]
  BY <1>2, <1>3
<1>5. Accepted' = n /\ Accepted \in Nat /\ n \in Incarnations
  BY <1>2, <1>3, ConstantFacts DEF Accepted
<1>6. sock' = [sock EXCEPT ![fd] = s] /\ sock[fd].inc = 0
  BY DEF Accept, Accepted
<1> HIDE DEF n
<1>7. s \in Socket /\ s.inc = n
  <2>1. n \in 0..Budget["add"]
    BY <1>5, ConstantFacts
  <2> QED
    BY <2>1 DEF Socket, FreeSock
<1> HIDE DEF s
<1>8. /\ sock' \in [Fds -> Socket] /\ sock'[fd].inc = n
      /\ \A x \in Fds : x # fd => sock'[x] = sock[x]
  BY <1>1, <1>6, <1>7 DEF TypedTable
<1>9. UNCHANGED <<is_running, ops, ops_stopped, wakeup, connections, fd_to_id, seq, filters,
                  batch, loop, processed, stop, events, wire, issued>>
  BY DEF Accept, loopVars
<1>10. /\ call' = [call EXCEPT ![Acceptor] = r] /\ r \in CallRecords /\ r.pc = "check"
       /\ r.type = "add" /\ r.fd = fd
  BY IdleFacts DEF Accept, Idle, CallRecords, Places, OpTypes
<1> HIDE DEF r
<1>11. call' \in [Callers -> CallRecords] /\ CallRoles' /\ call'[Acceptor] = r
  BY <1>10, CallMoves, ConstantFacts
<1>12. \A x \in Fds : ~Holds(x) /\ (Holds(x)' <=> x = fd)
  BY <1>10, <1>11 DEF Holds, Accept
<1>13. OnceQueued' /\ \A x \in Fds : Queued(x)' <=> Queued(x)
  BY <1>9, SameQueue
<1>14. \A x \in Fds : Tabled(x)' <=> Tabled(x)
  BY <1>9 DEF Tabled
<1>15. ~Open(fd) /\ ~Queued(fd) /\ ~Tabled(fd)
  BY <1>1, <1>6 DEF Open, Hands, Hand
<1>16. TableInv'
  <2>1. \A x \in Fds : Tabled(x) => sock'[x].inc = sock[x].inc
    BY <1>8, <1>15
  <2> QED
    BY <1>1, <1>8, <1>9, <2>1, SockInv
<1>17. TypedRest'
  BY <1>1, <1>4, <1>9, <1>11 DEF TypedRest
<1>18. Roles'
  BY <1>1, <1>9, <1>11 DEF Roles, QueueRoles
<1>19. Open(fd)'
  BY <1>5, <1>8, ConstantFacts DEF Open
<1>20. Hands'
  <2>1. ASSUME NEW x \in Fds PROVE Hand(x)'
    <3>1. CASE x = fd
      BY <1>12, <1>13, <1>14, <1>15, <1>19, <3>1 DEF Hand
    <3>2. CASE x # fd
      <4>1. Hand(x) /\ (Open(x)' <=> Open(x)) /\ ~Holds(x)' /\ ~Holds(x) /\ is_running' = is_running
        BY <1>1, <1>8, <1>9, <1>12, <3>2 DEF Hands, Open
      <4> QED
        BY <1>13, <1>14, <4>1 DEF Hand
    <3> QED
      BY <3>1, <3>2
  <2> QED
    BY <1>13, <2>1 DEF Hands
<1>21. \A x \in Fds : sock[x].inc \in Int /\ sock[x].inc <= Accepted
  BY <1>1 DEF TypedTable, Socket, Fresh
<1>22. \A x \in Fds : x # fd => sock'[x].inc # n
  BY <1>5, <1>8, <1>21 DEF n
<1>23. Fresh'
  <2>1. ASSUME NEW x \in Fds, NEW y \in Fds, Open(x)', sock'[x].inc = sock'[y].inc PROVE x = y
    <3>1. CASE x = fd \/ y = fd
      BY <1>8, <1>22, <2>1, <3>1
    <3>2. CASE x # fd /\ y # fd
      BY <1>1, <1>8, <2>1, <3>2 DEF Fresh, Open
    <3> QED
      BY <3>1, <3>2
  <2>2. ASSUME NEW x \in Fds PROVE sock'[x].inc <= Accepted'
    <3>1. CASE x = fd
      BY <1>5, <1>8, <3>1 DEF n
    <3>2. CASE x # fd
      BY <1>5, <1>8, <1>21, <3>2 DEF n
    <3> QED
      BY <3>1, <3>2
  <2>3. ASSUME NEW i \in Incarnations, i > Accepted PROVE Blank(i)'
    BY <1>1, <1>9, <2>3 DEF Fresh, Blank
  <2>4. ASSUME NEW i \in Incarnations, i > Accepted' PROVE Blank(i)'
    BY <1>5, <2>3, <2>4, ConstantFacts DEF n
  <2>5. ASSUME NEW x \in Fds, Holds(x)' \/ Queued(x)' PROVE Blank(sock[x].inc)'
    <3>1. CASE x = fd
      <4>1. n > Accepted /\ sock'[x].inc = n
        BY <1>5, <1>8, <3>1 DEF n
      <4>2. wire'[n] = <<>> /\ events'[n] = <<>>
        BY <1>5, <2>3, <4>1 DEF Blank
      <4> QED
        BY <4>1, <4>2 DEF Blank
    <3>2. CASE x # fd
      <4>1. Blank(sock[x].inc) /\ sock'[x] = sock[x]
        BY <1>1, <1>8, <1>12, <1>13, <2>5, <3>2 DEF Fresh
      <4> QED
        BY <1>9, <4>1 DEF Blank
    <3> QED
      BY <3>1, <3>2
  <2> QED
    BY <2>1, <2>2, <2>4, <2>5 DEF Fresh
<1>24. Batched'
  BY <1>9, SameBatch DEF Inv, Batched
<1> QED
  BY <1>16, <1>17, <1>18, <1>20, <1>23, <1>24 DEF Inv

\* A call that leaves the tables and the queue alone.
LEMMA CallOnly ==
  ASSUME Inv, NEW t \in Callers, NEW r \in CallRecords, call' = [call EXCEPT ![t] = r],
         t # Acceptor => r.type # "add" /\ (r.pc # "idle" => r.type # "none"),
         t = Acceptor => (r.pc # "idle" => r.type = "add" /\ r.fd \in Fds),
         t = Acceptor => ((r.pc \in {"check", "enqueue"} <=> call[t].pc \in {"check", "enqueue"})
                          /\ (r.pc \in {"check", "enqueue"} => r.fd = call[t].fd)),
         wakeup' \in BOOLEAN, left' \in [OpTypes -> Nat], left'["add"] = left["add"],
         UNCHANGED <<is_running, ops, ops_stopped, tableVars, seq, loopVars, stop, issued>>
  PROVE  Inv'
<1>1. /\ call' \in [Callers -> CallRecords] /\ CallRoles'
      /\ t # Acceptor => \A fd \in Fds : Holds(fd)' <=> Holds(fd)
      /\ t = Acceptor => call'[Acceptor] = r
  BY CallMoves
<1>2. \A fd \in Fds : Holds(fd)' <=> Holds(fd)
  <2>1. CASE t = Acceptor
    BY <1>1, <2>1 DEF Holds
  <2> QED
    BY <1>1, <2>1
<1>3. OnceQueued' /\ \A fd \in Fds : Queued(fd)' <=> Queued(fd)
  BY SameQueue
<1>4. TableInv' /\ TableStep
  BY SameTable DEF Inv
<1>5. Hands' /\ Fresh'
  <2>1. TypedTable /\ TypedTable' /\ Table /\ TypedRest /\ Hands /\ Fresh
    BY <1>4 DEF Inv, TableInv
  <2>2. ASSUME NEW fd \in Fds PROVE Hand(fd)'
    <3>1. Hand(fd) /\ (Open(fd)' <=> Open(fd)) /\ (Tabled(fd)' <=> Tabled(fd)) /\ is_running' = is_running
      BY <2>1 DEF Hands, Open, Tabled, tableVars
    <3> QED
      BY <1>2, <1>3, <3>1 DEF Hand
  <2>3. Hands'
    BY <1>3, <2>2 DEF Hands
  <2>4. Accepted' = Accepted /\ UNCHANGED <<sock, wire, events>>
    BY DEF Accepted, tableVars
  <2>5. Fresh'
    BY <1>2, <1>3, <2>1, <2>4 DEF Fresh, Open, Blank
  <2> QED
    BY <2>3, <2>5
<1>6. TypedRest' /\ Roles'
  BY <1>1 DEF Inv, TypedRest, Roles, QueueRoles, loopVars
<1>7. Batched'
  BY SameBatch DEF Inv, Batched, loopVars, tableVars
<1> QED
  BY <1>4, <1>5, <1>6, <1>7 DEF Inv

\* AddConnection returned false: the acceptor closes the descriptor it holds.
LEMMA AcceptorFails ==
  ASSUME Inv, call[Acceptor].pc \in {"check", "enqueue"}, CallFails(Acceptor),
         UNCHANGED <<is_running, ops, ops_stopped, wakeup, connections, fd_to_id, seq, filters,
                     loopVars, stop, events, wire, issued, left>>
  PROVE  Inv'
<1>1. TypedTable /\ Table /\ TypedRest /\ Hands /\ Fresh /\ TableInv /\ Roles
  BY DEF Inv, TableInv
<1>2. call[Acceptor].type = "add" /\ call[Acceptor].fd \in Fds
  BY <1>1 DEF Roles, CallRoles
<1>3. PICK fd \in Fds : fd = call[Acceptor].fd
  BY <1>2
<1>4. call' = [call EXCEPT ![Acceptor] = Idle] /\ sock' = [sock EXCEPT ![fd] = FreeSock]
  BY <1>2, <1>3 DEF CallFails, Returns, CloseFd
<1>5. call' \in [Callers -> CallRecords] /\ CallRoles' /\ call'[Acceptor] = Idle
  BY <1>4, CallMoves, IdleFacts, ConstantFacts
<1>6. \A x \in Fds : ~Holds(x)' /\ (Holds(x) <=> x = fd)
  BY <1>3, <1>5, IdleFacts DEF Holds
<1>7. OnceQueued' /\ \A x \in Fds : Queued(x)' <=> Queued(x)
  BY SameQueue
<1>8. /\ sock' \in [Fds -> Socket] /\ sock'[fd].inc = 0
      /\ \A x \in Fds : x # fd => sock'[x] = sock[x]
  BY <1>1, <1>4, FreeSockFacts DEF TypedTable
<1>9. \A x \in Fds : Tabled(x)' <=> Tabled(x)
  BY DEF Tabled
<1>10. ~Queued(fd) /\ ~Tabled(fd)
  BY <1>1, <1>6 DEF Hands, Hand
<1>11. TableInv'
  <2>1. \A x \in Fds : Tabled(x) => sock'[x].inc = sock[x].inc
    BY <1>8, <1>10
  <2> QED
    BY <1>1, <1>8, <2>1, SockInv
<1>12. Hands'
  <2>1. ASSUME NEW x \in Fds PROVE Hand(x)'
    <3>1. CASE x = fd
      <4>1. ~Open(x)' /\ ~Queued(x)' /\ ~Tabled(x)' /\ ~Holds(x)'
        BY <1>6, <1>7, <1>8, <1>9, <1>10, <3>1 DEF Open
      <4> QED
        BY <4>1 DEF Hand
    <3>2. CASE x # fd
      <4>1. /\ Hand(x) /\ (Open(x)' <=> Open(x)) /\ ~Holds(x)' /\ ~Holds(x)
            /\ is_running' = is_running
        BY <1>1, <1>6, <1>8, <3>2 DEF Hands, Open
      <4> QED
        BY <1>7, <1>9, <4>1 DEF Hand
    <3> QED
      BY <3>1, <3>2
  <2> QED
    BY <1>7, <2>1 DEF Hands
<1>13. Fresh'
  <2>1. TypedTable' /\ \A x \in Fds : sock'[x].inc = sock[x].inc \/ sock'[x].inc = 0
    BY <1>8, <1>11 DEF TableInv
  <2>2. \A x \in Fds : Holds(x)' \/ Queued(x)' => Holds(x) \/ Queued(x)
    BY <1>6, <1>7
  <2> QED
    BY <1>1, <1>12, <2>1, <2>2, FreshFrom
<1>14. TypedRest' /\ Roles'
  BY <1>1, <1>5 DEF TypedRest, Roles, QueueRoles, loopVars
<1>15. Batched'
  BY SameBatch DEF Inv, Batched, loopVars
<1> QED
  BY <1>11, <1>12, <1>13, <1>14, <1>15 DEF Inv

\* A user's call fails: nothing but the call changes.
LEMMA UserFails ==
  ASSUME Inv, NEW t \in Users, CallFails(t),
         UNCHANGED <<is_running, ops, ops_stopped, wakeup, connections, fd_to_id, seq, filters,
                     loopVars, stop, events, wire, issued, left>>
  PROVE  Inv'
<1>1. t \in Callers /\ t # Acceptor /\ call[t].type # "add"
  BY ConstantFacts DEF Inv, Roles, CallRoles
<1>2. call' = [call EXCEPT ![t] = Idle] /\ UNCHANGED tableVars
  BY <1>1 DEF CallFails, Returns, tableVars
<1>3. wakeup' \in BOOLEAN /\ left' \in [OpTypes -> Nat]
  BY DEF Inv, TypedRest
<1> QED
  BY <1>1, <1>2, <1>3, CallOnly, IdleFacts

\* The record of a thread that goes on to pc.
LEMMA MovesOn ==
  ASSUME Inv, NEW t \in Callers, NEW pc \in Places, At(t, pc)
  PROVE  \E r \in CallRecords :
           /\ call' = [call EXCEPT ![t] = r] /\ r.pc = pc
           /\ r.type = call[t].type /\ r.fd = call[t].fd
<1>1. call \in [Callers -> CallRecords] /\ call[t] \in CallRecords
  BY DEF Inv, TypedRest
<1> DEFINE r == [call[t] EXCEPT !.pc = pc]
<1>2. /\ r \in CallRecords /\ r.pc = pc /\ r.type = call[t].type /\ r.fd = call[t].fd
  BY <1>1 DEF CallRecords
<1>3. call' = [call EXCEPT ![t] = r]
  BY DEF At
<1> QED
  BY <1>2, <1>3

LEMMA UserCallInv ==
  ASSUME Inv, NEW t \in Users, NEW type \in {"send", "remove", "query"}, NEW i \in Incarnations,
         NEW size \in Nat, UserCall(t, type, i, size)
  PROVE  Inv'
<1> DEFINE r == [Idle EXCEPT !.pc = "check", !.type = type, !.id = issued[i], !.size = size]
<1>1. t \in Callers /\ t # Acceptor
  BY ConstantFacts
<1>2. issued[i] \in ConnectionIds \cup {<<>>}
  BY DEF Inv, TypedRest
<1>3. r \in CallRecords /\ r.type = type /\ r.pc = "check"
  BY <1>2 DEF CallRecords, Idle, Places, OpTypes
<1>4. call' = [call EXCEPT ![t] = r]
  BY DEF UserCall
<1> HIDE DEF r
<1>5. wakeup' \in BOOLEAN
  BY DEF UserCall, Inv, TypedRest
<1>6. left' \in [OpTypes -> Nat] /\ left'["add"] = left["add"]
  BY DEF UserCall, Spend, Inv, TypedRest, OpTypes
<1>7. UNCHANGED <<is_running, ops, ops_stopped, tableVars, seq, loopVars, stop, issued>>
  BY DEF UserCall
<1> QED
  BY <1>1, <1>3, <1>4, <1>5, <1>6, <1>7, CallOnly

LEMMA CallCheckInv ==
  ASSUME Inv, NEW t \in Callers, CallCheck(t)
  PROVE  Inv'
<1>1. UNCHANGED <<is_running, ops, ops_stopped, wakeup, connections, fd_to_id, seq, filters,
                  loopVars, stop, events, wire, issued, left>> /\ call[t].pc = "check"
  BY DEF CallCheck
<1>2. CASE At(t, "enqueue") /\ UNCHANGED sock
  <2>1. PICK r \in CallRecords : /\ call' = [call EXCEPT ![t] = r] /\ r.pc = "enqueue"
                                 /\ r.type = call[t].type /\ r.fd = call[t].fd
    BY <1>2, MovesOn DEF Places
  <2>2. /\ t # Acceptor => r.type # "add" /\ r.type # "none"
        /\ t = Acceptor => r.type = "add" /\ r.fd \in Fds
    BY <1>1, <2>1 DEF Inv, Roles, CallRoles, Callers
  <2>3. wakeup' \in BOOLEAN /\ left' \in [OpTypes -> Nat] /\ UNCHANGED tableVars
    BY <1>1, <1>2 DEF Inv, TypedRest, tableVars
  <2> QED
    BY <1>1, <2>1, <2>2, <2>3, CallOnly
<1>3. CASE CallFails(t)
  <2>1. CASE t = Acceptor
    BY <1>1, <1>3, <2>1, AcceptorFails
  <2>2. CASE t \in Users
    BY <1>1, <1>3, <2>2, UserFails
  <2> QED
    BY <2>1, <2>2 DEF Callers
<1> QED
  BY <1>2, <1>3 DEF CallCheck

\* Enqueue puts the operation behind the others.
LEMMA QueueAppend ==
  ASSUME Inv, NEW op \in Operations, ops' = Append(ops, op), op.type = "add" => op.fd \in Fds
  PROVE  /\ ops' \in Seq(Operations) /\ QueueRoles'
         /\ \A fd \in Fds : ~(op.type = "add" /\ op.fd = fd) => Queue(fd)' = Queue(fd)
         /\ \A fd \in Fds : op.type = "add" /\ op.fd = fd => Queue(fd)' = Queue(fd) \cup {Len(ops) + 1}
<1>1. ops \in Seq(Operations) /\ QueueRoles
  BY DEF Inv, TypedRest, Roles
<1>2. /\ ops' \in Seq(Operations) /\ Len(ops') = Len(ops) + 1 /\ Len(ops) \in Nat
      /\ ops'[Len(ops) + 1] = op /\ \A k \in 1..Len(ops) : ops'[k] = ops[k]
  BY <1>1, AppendProperties, LenProperties
<1>3. 1..Len(ops') = (1..Len(ops)) \cup {Len(ops) + 1}
  BY <1>2
<1>4. QueueRoles'
  <2>1. ASSUME NEW k \in 1..Len(ops'), ops'[k].type = "add" PROVE ops'[k].fd \in Fds
    <3>1. CASE k \in 1..Len(ops)
      BY <1>1, <1>2, <2>1, <3>1 DEF QueueRoles
    <3>2. CASE k = Len(ops) + 1
      BY <1>2, <2>1, <3>2
    <3> QED
      BY <1>3, <3>1, <3>2
  <2> QED
    BY <2>1 DEF QueueRoles
<1>5. ASSUME NEW fd \in Fds
      PROVE  Queue(fd)' = Queue(fd) \cup (IF op.type = "add" /\ op.fd = fd THEN {Len(ops) + 1} ELSE {})
  <2>1. \A k \in 1..Len(ops) : k \in Queue(fd)' <=> k \in Queue(fd)
    BY <1>2, <1>3 DEF Queue
  <2>2. Len(ops) + 1 \in Queue(fd)' <=> op.type = "add" /\ op.fd = fd
    BY <1>2, <1>3 DEF Queue
  <2>3. Queue(fd)' \subseteq (1..Len(ops)) \cup {Len(ops) + 1} /\ Queue(fd) \subseteq 1..Len(ops)
    BY <1>3 DEF Queue
  <2> QED
    BY <2>1, <2>2, <2>3
<1> QED
  BY <1>2, <1>4, <1>5

LEMMA EnqueuedInv ==
  ASSUME Inv, NEW t \in Callers, call[t].pc = "enqueue", At(t, "trigger"),
         ops' = Append(ops, Operation(t)),
         UNCHANGED <<is_running, ops_stopped, wakeup, tableVars, seq,
                     loopVars, stop, issued, left>>
  PROVE  Inv'
<1>1. TypedTable /\ Table /\ TypedRest /\ Hands /\ Fresh /\ TableInv /\ Roles /\ TableInv'
  BY SameTable DEF Inv, TableInv
<1>2. PICK r \in CallRecords : /\ call' = [call EXCEPT ![t] = r] /\ r.pc = "trigger"
                               /\ r.type = call[t].type /\ r.fd = call[t].fd
  BY MovesOn DEF Places
<1>3. /\ t # Acceptor => r.type # "add" /\ r.type # "none"
      /\ t = Acceptor => r.type = "add" /\ r.fd \in Fds
  BY <1>1, <1>2 DEF Roles, CallRoles, Callers
<1>4. /\ call' \in [Callers -> CallRecords] /\ CallRoles'
      /\ t # Acceptor => \A fd \in Fds : Holds(fd)' <=> Holds(fd)
      /\ t = Acceptor => call'[Acceptor] = r
  BY <1>2, <1>3, CallMoves
<1>5. PICK op \in Operations : op = Operation(t) /\ op.type = r.type /\ op.fd = r.fd
  <2>1. call[t] \in CallRecords /\ call[t].type \in OpTypes
    BY <1>1, <1>2, <1>3 DEF TypedRest, CallRecords, OpTypes
  <2>2. Operation(t) \in Operations
    BY <2>1 DEF Operation, Operations, CallRecords
  <2> QED
    BY <1>2, <2>2 DEF Operation
<1>6. /\ ops' \in Seq(Operations) /\ QueueRoles'
      /\ \A fd \in Fds : ~(op.type = "add" /\ op.fd = fd) => Queue(fd)' = Queue(fd)
      /\ \A fd \in Fds : op.type = "add" /\ op.fd = fd => Queue(fd)' = Queue(fd) \cup {Len(ops) + 1}
  <2>1. op.type = "add" => op.fd \in Fds
    BY <1>3, <1>5
  <2> QED
    BY <1>5, <2>1, QueueAppend
<1>7. \A x \in Fds : (Open(x)' <=> Open(x)) /\ (Tabled(x)' <=> Tabled(x)) /\ Hand(x)
  BY <1>1 DEF Open, Tabled, tableVars, Hands
<1>8. ASSUME NEW x \in Fds
      PROVE  /\ \/ (Holds(x)' <=> Holds(x)) /\ Queue(x)' = Queue(x)
                \/ Holds(x) /\ ~Holds(x)' /\ Queue(x)' = Queue(x) \cup {Len(ops) + 1}
  <2>1. CASE t # Acceptor
    BY <1>3, <1>4, <1>5, <1>6, <2>1
  <2>2. CASE t = Acceptor /\ r.fd # x
    BY <1>2, <1>3, <1>4, <1>5, <1>6, <2>2 DEF Holds
  <2>3. CASE t = Acceptor /\ r.fd = x
    BY <1>2, <1>3, <1>4, <1>5, <1>6, <2>3 DEF Holds
  <2> QED
    BY <2>1, <2>2, <2>3
<1>9. Hands'
  <2>1. ASSUME NEW x \in Fds, NEW j \in Queue(x)', NEW k \in Queue(x)' PROVE j = k
    <3>1. CASE Queue(x)' = Queue(x)
      BY <1>1, <2>1, <3>1 DEF Hands, OnceQueued
    <3>2. CASE Holds(x) /\ Queue(x)' = Queue(x) \cup {Len(ops) + 1}
      <4>1. Queue(x) = {}
        BY <1>7, <3>2 DEF Hand, Queued
      <4> QED
        BY <2>1, <3>2, <4>1
    <3> QED
      BY <1>8, <3>1, <3>2
  <2>2. ASSUME NEW x \in Fds PROVE Hand(x)'
    <3>1. CASE (Holds(x)' <=> Holds(x)) /\ Queue(x)' = Queue(x)
      BY <1>7, <3>1 DEF Hand, Queued
    <3>2. CASE Holds(x) /\ ~Holds(x)' /\ Queue(x)' = Queue(x) \cup {Len(ops) + 1}
      <4>1. Queued(x)' /\ Hand(x) /\ Holds(x)
        BY <1>7, <3>2 DEF Queued
      <4> QED
        BY <1>7, <3>2, <4>1 DEF Hand
    <3> QED
      BY <1>8, <3>1, <3>2
  <2> QED
    BY <2>1, <2>2 DEF Hands, OnceQueued
<1>10. Fresh'
  <2>1. \A x \in Fds : Holds(x)' \/ Queued(x)' => Holds(x) \/ Queued(x)
    BY <1>8 DEF Queued
  <2>2. TypedTable' /\ UNCHANGED <<sock, wire, events, left>>
    BY <1>1 DEF TableInv, tableVars
  <2> QED
    BY <1>1, <1>9, <2>1, <2>2, FreshFrom
<1>11. TypedRest' /\ Roles'
  BY <1>1, <1>4, <1>6 DEF TypedRest, Roles, loopVars
<1>12. Batched'
  BY SameBatch DEF Inv, Batched, loopVars, tableVars
<1> QED
  BY <1>1, <1>9, <1>10, <1>11, <1>12 DEF Inv

LEMMA CallEnqueueInv ==
  ASSUME Inv, NEW t \in Callers, CallEnqueue(t)
  PROVE  Inv'
<1>1. call[t].pc = "enqueue"
      /\ UNCHANGED <<is_running, ops_stopped, wakeup, connections, fd_to_id, seq, filters,
                     loopVars, stop, events, wire, issued, left>>
  BY DEF CallEnqueue
<1>2. CASE CallFails(t) /\ UNCHANGED ops
  <2>1. CASE t = Acceptor
    BY <1>1, <1>2, <2>1, AcceptorFails
  <2>2. CASE t \in Users
    BY <1>1, <1>2, <2>2, UserFails
  <2> QED
    BY <2>1, <2>2 DEF Callers
<1>3. CASE At(t, "trigger") /\ ops' = Append(ops, Operation(t)) /\ UNCHANGED sock
  <2>1. UNCHANGED tableVars
    BY <1>1, <1>3 DEF tableVars
  <2> QED
    BY <1>1, <1>3, <2>1, EnqueuedInv
<1> QED
  BY <1>2, <1>3 DEF CallEnqueue

\* CallTrigger and QueryReturns: the call no longer holds a descriptor.
LEMMA LateCallInv ==
  ASSUME Inv, NEW t \in Callers, CallTrigger(t) \/ QueryReturns(t)
  PROVE  Inv'
<1>1. /\ call[t].pc \in {"trigger", "await"} /\ wakeup' \in BOOLEAN
      /\ left' \in [OpTypes -> Nat] /\ left' = left
      /\ UNCHANGED <<is_running, ops, ops_stopped, tableVars, seq, loopVars, stop, issued>>
  BY DEF CallTrigger, QueryReturns, Inv, TypedRest
<1>2. CASE Returns(t)
  BY <1>1, <1>2, CallOnly, IdleFacts DEF Returns
<1>3. CASE At(t, "await")
  <2>1. PICK r \in CallRecords : /\ call' = [call EXCEPT ![t] = r] /\ r.pc = "await"
                                 /\ r.type = call[t].type /\ r.fd = call[t].fd
    BY <1>3, MovesOn DEF Places
  <2>2. /\ t # Acceptor => r.type # "add" /\ r.type # "none"
        /\ t = Acceptor => r.type = "add" /\ r.fd \in Fds
    BY <1>1, <2>1 DEF Inv, Roles, CallRoles, Callers
  <2> QED
    BY <1>1, <2>1, <2>2, CallOnly
<1> QED
  BY <1>2, <1>3 DEF CallTrigger, QueryReturns

-----------------------------------------------------------------------------
(* The steps of the loop, of Stop and of the peers                         *)

\* A step that changes the tables, or the loop's own place and no more.
LEMMA LoopMoves ==
  ASSUME Inv, TableInv', TableStep, UNCHANGED <<ops, call, left, seq, issued>>,
         is_running' \in BOOLEAN, is_running' => is_running,
         ops_stopped' \in BOOLEAN, wakeup' \in BOOLEAN,
         loop' \in {"top", "ops", "timeouts", "wait", "events", "ops_after", "exited"},
         processed' \in 0..BatchOps,
         stop' \in {"no", "flagged", "notified", "joining", "done"},
         UNCHANGED batch \/ (batch # <<>> /\ batch' = Tail(batch)),
         batch' # <<>> => loop' = "events"
  PROVE  Inv'
<1>1. Roles' /\ Hands' /\ Fresh'
  BY QuietStep
<1>2. batch' \in Seq(KEvents) /\ NoStaleEvent'
  BY BatchKeeps
<1>3. TypedRest'
  BY <1>2 DEF Inv, TypedRest
<1> QED
  BY <1>1, <1>2, <1>3 DEF Inv, Batched

LEMMA ControlInv ==
  ASSUME Inv, LoopTop \/ OperationsDone \/ WaitTimesOut \/ WaitFails \/ BatchDone
              \/ StopBegin \/ StopNotify \/ StopTrigger
  PROVE  Inv'
<1>1. UNCHANGED <<tableVars, ops, call, left, seq, issued, batch>>
  BY DEF LoopTop, OperationsDone, WaitTimesOut, WaitFails, BatchDone, StopBegin, StopNotify,
         StopTrigger, loopVars
<1>2. TypedRest /\ Batched /\ BatchOps \in Nat
  BY ReactorAssumption DEF Inv
<1>3. TableInv' /\ TableStep
  BY <1>1, SameTable DEF Inv
<1>4. /\ is_running' \in BOOLEAN /\ (is_running' => is_running)
      /\ ops_stopped' \in BOOLEAN /\ wakeup' \in BOOLEAN
      /\ stop' \in {"no", "flagged", "notified", "joining", "done"}
  <2>1. is_running' = is_running \/ is_running' = FALSE
    BY DEF LoopTop, OperationsDone, WaitTimesOut, WaitFails, BatchDone, StopBegin, StopNotify,
           StopTrigger
  <2>2. ops_stopped' = ops_stopped \/ ops_stopped' = TRUE
    BY DEF LoopTop, OperationsDone, WaitTimesOut, WaitFails, BatchDone, StopBegin, StopNotify,
           StopTrigger
  <2>3. wakeup' = wakeup \/ wakeup' = TRUE
    BY DEF LoopTop, OperationsDone, WaitTimesOut, WaitFails, BatchDone, StopBegin, StopNotify,
           StopTrigger
  <2>4. stop' = stop \/ stop' \in {"flagged", "notified", "joining"}
    BY DEF LoopTop, OperationsDone, WaitTimesOut, WaitFails, BatchDone, StopBegin, StopNotify,
           StopTrigger
  <2>5. is_running \in BOOLEAN /\ ops_stopped \in BOOLEAN /\ wakeup \in BOOLEAN
    BY <1>2 DEF TypedRest
  <2>6. is_running' \in BOOLEAN /\ (is_running' => is_running)
    <3>1. CASE is_running' = is_running
      BY <2>5, <3>1
    <3>2. CASE is_running' = FALSE
      BY <3>2
    <3> QED
      BY <2>1, <3>1, <3>2
  <2>7. ops_stopped' \in BOOLEAN
    BY <2>2, <2>5, Zenon
  <2>8. wakeup' \in BOOLEAN
    BY <2>3, <2>5, Zenon
  <2>9. stop' \in {"no", "flagged", "notified", "joining", "done"}
    BY <1>2, <2>4 DEF TypedRest
  <2> QED
    BY <2>6, <2>7, <2>8, <2>9
<1>5. loop' \in {"top", "ops", "timeouts", "wait", "events", "ops_after", "exited"}
  BY <1>2 DEF LoopTop, OperationsDone, WaitTimesOut, WaitFails, BatchDone, StopBegin, StopNotify,
              StopTrigger, TypedRest, loopVars
<1>6. processed' \in 0..BatchOps
  BY <1>2 DEF LoopTop, OperationsDone, WaitTimesOut, WaitFails, BatchDone, StopBegin, StopNotify,
              StopTrigger, TypedRest, loopVars
<1>7. batch' # <<>> => loop' = "events"
  BY <1>1, <1>2 DEF LoopTop, OperationsDone, WaitTimesOut, WaitFails, BatchDone, StopBegin,
                    StopNotify, StopTrigger, Batched, InOps, loopVars
<1> QED
  BY <1>1, <1>3, <1>4, <1>5, <1>6, <1>7, LoopMoves

LEMMA CheckTimeoutsInv ==
  ASSUME Inv, CheckTimeouts
  PROVE  Inv'
<1>1. PICK S \in SUBSET DOMAIN connections : HandleConnectionClose(S)
  BY DEF CheckTimeouts
<1>2. TableInv' /\ TableStep
  <2>1. TableInv /\ Fresh /\ UNCHANGED wire /\ S \subseteq DOMAIN connections
    BY DEF Inv, CheckTimeouts
  <2> QED
    BY <1>1, <2>1, RemovalInv
<1>3. batch = <<>>
  BY DEF CheckTimeouts, Inv, Batched
<1>4. /\ UNCHANGED <<is_running, ops, ops_stopped, wakeup, seq, batch, processed, stop, call,
                     issued, left>>
      /\ loop' = "wait"
  BY DEF CheckTimeouts
<1>5. TypedRest
  BY DEF Inv
<1> QED
  BY <1>2, <1>3, <1>4, <1>5, LoopMoves DEF TypedRest

LEMMA ProcessKqueueEventInv ==
  ASSUME Inv, ProcessKqueueEvent
  PROVE  Inv'
<1>1. TableInv' /\ TableStep
  BY HandleEventInv DEF Inv, ProcessKqueueEvent
<1>2. /\ UNCHANGED <<is_running, ops, ops_stopped, wakeup, seq, loop, processed, stop, call,
                     issued, left>>
      /\ loop = "events" /\ batch # <<>> /\ batch' = Tail(batch)
  BY DEF ProcessKqueueEvent
<1>3. TypedRest
  BY DEF Inv
<1> QED
  BY <1>1, <1>2, <1>3, LoopMoves DEF TypedRest

LEMMA StopCleanupInv ==
  ASSUME Inv, StopCleanup
  PROVE  Inv'
<1>1. TableInv' /\ TableStep
  BY RemovalInv DEF Inv, StopCleanup, CleanupAllConnections
<1>2. /\ UNCHANGED <<is_running, ops, ops_stopped, wakeup, seq, loop, processed, batch, call,
                     issued, left>>
      /\ stop' = "done"
  BY DEF StopCleanup, loopVars
<1>3. TypedRest /\ Batched
  BY DEF Inv
<1> QED
  BY <1>1, <1>2, <1>3, LoopMoves DEF TypedRest, Batched

LEMMA PeerInv ==
  ASSUME Inv, NEW fd \in Fds,
         PeerSends(fd) \/ PeerShutsDown(fd) \/ PeerResets(fd) \/ SocketSpace(fd)
  PROVE  Inv'
<1>1. sock[fd] \in Socket /\ sock \in [Fds -> Socket]
  BY DEF Inv, TableInv, TypedTable
<1>2. PICK s \in Socket : PeerChanges(fd, s) /\ s.inc = sock[fd].inc
  <2>1. CASE PeerSends(fd)
    <3>1. [sock[fd] EXCEPT !.unread = TRUE] \in Socket
          /\ [sock[fd] EXCEPT !.unread = TRUE].inc = sock[fd].inc
      BY <1>1 DEF Socket
    <3> QED
      BY <2>1, <3>1 DEF PeerSends
  <2>2. CASE PeerShutsDown(fd)
    <3>1. [sock[fd] EXCEPT !.eof = TRUE] \in Socket
          /\ [sock[fd] EXCEPT !.eof = TRUE].inc = sock[fd].inc
      BY <1>1 DEF Socket
    <3> QED
      BY <2>2, <3>1 DEF PeerShutsDown
  <2>3. CASE PeerResets(fd)
    <3>1. [FreeSock EXCEPT !.inc = sock[fd].inc, !.reset = TRUE] \in Socket
          /\ [FreeSock EXCEPT !.inc = sock[fd].inc, !.reset = TRUE].inc = sock[fd].inc
      BY <1>1 DEF Socket, FreeSock
    <3> QED
      BY <2>3, <3>1 DEF PeerResets
  <2>4. CASE SocketSpace(fd)
    <3>1. [sock[fd] EXCEPT !.writable = ~sock[fd].writable] \in Socket
          /\ [sock[fd] EXCEPT !.writable = ~sock[fd].writable].inc = sock[fd].inc
      BY <1>1 DEF Socket
    <3> QED
      BY <2>4, <3>1 DEF SocketSpace
  <2> QED
    BY <2>1, <2>2, <2>3, <2>4
<1>3. sock' = [sock EXCEPT ![fd] = s]
      /\ UNCHANGED <<is_running, ops, ops_stopped, wakeup, connections, fd_to_id, seq,
                     filters, batch, loop, processed, stop, call, events, wire, issued, left>>
  BY <1>2 DEF PeerChanges, loopVars
<1>4. sock' \in [Fds -> Socket] /\ \A x \in Fds : sock'[x].inc = sock[x].inc
  BY <1>1, <1>2, <1>3
<1>5. TableInv' /\ TableStep
  BY <1>3, <1>4, SockStep DEF Inv
<1>6. TypedRest /\ Batched
  BY DEF Inv
<1> QED
  BY <1>3, <1>5, <1>6, LoopMoves DEF TypedRest, Batched

\* What kevent() reports is about the sockets as they are now.
LEMMA ReadyFacts ==
  ASSUME Inv
  PROVE  \A e \in Ready : /\ e \in KEvents
                          /\ e.fd \in DOMAIN fd_to_id => Inc(fd_to_id[e.fd]) = e.inc
<1>1. TypedTable /\ Table
  BY DEF Inv, TableInv
<1>2. UserEvent \in KEvents /\ UserEvent.fd \notin DOMAIN fd_to_id
  BY <1>1, ConstantFacts DEF UserEvent, KEvents, TypedTable
<1>3. ASSUME NEW fd \in Fds, NEW filter \in {"read", "write"},
             NEW flags \in SUBSET {"EV_EOF", "EV_ERROR"}
      PROVE  /\ Event(fd, filter, flags) \in KEvents
             /\ fd \in DOMAIN fd_to_id => Inc(fd_to_id[fd]) = Event(fd, filter, flags).inc
             /\ Event(fd, filter, flags).fd = fd
  <2>1. sock[fd].inc \in 0..Budget["add"]
    BY <1>1 DEF TypedTable, Socket
  <2>2. fd \in DOMAIN fd_to_id => Inc(fd_to_id[fd]) = sock[fd].inc
    BY <1>1 DEF Table, TableConsistent, Inc
  <2> QED
    BY <2>1, <2>2 DEF Event, KEvents
<1>4. ASSUME NEW e \in Ready, e # UserEvent
      PROVE  \E fd \in Fds, filter \in {"read", "write"}, flags \in SUBSET {"EV_EOF", "EV_ERROR"} :
               e = Event(fd, filter, flags)
  <2>1. PICK f \in filters, x \in {"EV_EOF", "EV_ERROR"} :
          e = Event(f[1], f[2], IF sock[f[1]].reset THEN {x}
                     ELSE IF f[2] = "read" /\ sock[f[1]].eof THEN {"EV_EOF"} ELSE {})
    BY <1>4 DEF Ready
  <2>2. f[1] \in Fds /\ f[2] \in {"read", "write"}
    BY <1>1 DEF TypedTable
  <2>3. (IF sock[f[1]].reset THEN {x}
         ELSE IF f[2] = "read" /\ sock[f[1]].eof THEN {"EV_EOF"} ELSE {})
          \in SUBSET {"EV_EOF", "EV_ERROR"}
    OBVIOUS
  <2> QED
    BY <2>1, <2>2, <2>3
<1>5. ASSUME NEW e \in Ready
      PROVE  e \in KEvents /\ (e.fd \in DOMAIN fd_to_id => Inc(fd_to_id[e.fd]) = e.inc)
  <2>1. CASE e = UserEvent
    BY <1>2, <2>1
  <2>2. CASE e # UserEvent
    <3>1. PICK fd \in Fds, filter \in {"read", "write"}, flags \in SUBSET {"EV_EOF", "EV_ERROR"} :
            e = Event(fd, filter, flags)
      BY <1>4, <2>2
    <3> QED
      BY <1>3, <3>1
  <2> QED
    BY <2>1, <2>2
<1> QED
  BY <1>5

LEMMA ReadyFinite ==
  ASSUME Inv
  PROVE  IsFiniteSet(ReadyFilters)
<1> DEFINE A == Fds \cup {0}
           B == {"read", "write", "user"}
<1>1. IsFiniteSet(Fds) /\ IsFiniteSet({0})
  BY ReactorAssumption, FS_Singleton
<1>2. IsFiniteSet(A)
  BY <1>1, FS_Union
<1>3. IsFiniteSet(B)
  <2>1. IsFiniteSet({"read"}) /\ IsFiniteSet({"write"}) /\ IsFiniteSet({"user"})
    BY FS_Singleton
  <2>2. IsFiniteSet({"read"} \cup {"write"})
    BY <2>1, FS_Union
  <2>3. IsFiniteSet(({"read"} \cup {"write"}) \cup {"user"})
    BY <2>1, <2>2, FS_Union
  <2>4. B = ({"read"} \cup {"write"}) \cup {"user"}
    OBVIOUS
  <2> HIDE DEF B
  <2> QED
    BY <2>3, <2>4
<1>4. IsFiniteSet(A \X B)
  BY <1>2, <1>3, FS_Product
<1>5. ReadyFilters \subseteq A \X B
  <2>1. ASSUME NEW e \in Ready PROVE <<e.fd, e.filter>> \in A \X B
    BY ReadyFacts DEF KEvents
  <2> QED
    BY <2>1 DEF ReadyFilters
<1> QED
  BY <1>4, <1>5, FS_Subset

LEMMA WaitEventsInv ==
  ASSUME Inv, WaitEvents
  PROVE  Inv'
<1>1. PICK s \in Batches : batch' = s /\ wakeup' = (wakeup /\ UserEvent \notin ToSet(s))
  BY DEF WaitEvents
<1>2. s \in [1..BatchSize -> Ready]
  BY DEF Batches
<1>3. \A e \in Ready : /\ e \in KEvents
                       /\ e.fd \in DOMAIN fd_to_id => Inc(fd_to_id[e.fd]) = e.inc
  BY ReadyFacts
<1>4. BatchSize \in Nat
  <2>1. Cardinality(ReadyFilters) \in Nat
    BY ReadyFinite, FS_CardinalityType
  <2> QED
    BY <2>1, ReactorAssumption DEF BatchSize
<1>5. s \in Seq(KEvents) /\ DOMAIN s = 1..BatchSize
  <2>1. s \in [1..BatchSize -> KEvents]
    BY <1>2, <1>3
  <2> QED
    BY <1>4, <2>1
<1>6. /\ UNCHANGED <<is_running, ops, ops_stopped, tableVars, seq, processed, stop, call, issued,
                     left>>
      /\ loop' = "events"
  BY DEF WaitEvents
<1>7. NoStaleEvent'
  <2>1. ASSUME NEW k \in DOMAIN batch', batch'[k].fd \in DOMAIN fd_to_id'
        PROVE  connections'[fd_to_id'[batch'[k].fd]].inc = batch'[k].inc
    <3>1. batch'[k] \in Ready /\ fd_to_id' = fd_to_id /\ connections' = connections
      BY <1>1, <1>2, <1>5, <1>6 DEF tableVars
    <3> QED
      BY <1>3, <2>1, <3>1 DEF Inc
  <2> QED
    BY <2>1 DEF NoStaleEvent, Inc
<1>8. TableInv' /\ TableStep
  BY <1>6, SameTable DEF Inv
<1>9. Roles' /\ Hands' /\ Fresh'
  BY <1>6, <1>8, QuietStep
<1>10. TypedRest'
  <2>1. wakeup' \in BOOLEAN
    BY <1>1
  <2> QED
    BY <1>1, <1>5, <1>6, <2>1 DEF Inv, TypedRest
<1> QED
  BY <1>6, <1>7, <1>8, <1>9, <1>10 DEF Inv, Batched

LEMMA ProcessOperationInv ==
  ASSUME Inv, ProcessOperation
  PROVE  Inv'
<1>1. /\ ops # <<>> /\ ops' = Tail(ops) /\ DoOperation(Head(ops)) /\ processed' = processed + 1
      /\ processed < BatchOps /\ loop \in {"ops", "ops_after"}
      /\ UNCHANGED <<is_running, ops_stopped, wakeup, batch, loop, stop, left>>
  BY DEF ProcessOperation, InOps
<1>2. TableInv /\ TypedRest /\ Roles /\ Fresh /\ Batched
  BY DEF Inv
<1>3. /\ Head(ops) \in Operations /\ ops' \in Seq(Operations) /\ OnceQueued'
      /\ QueueRoles'
      /\ \A fd \in Fds : ~(Head(ops).type = "add" /\ Head(ops).fd = fd)
                           => (Queued(fd)' <=> Queued(fd))
  BY <1>1, QueueTail DEF QueueRoles
<1>4. processed' \in 0..BatchOps
  BY <1>1, <1>2, ReactorAssumption DEF TypedRest
<1>5. Batched'
  <2>1. batch = <<>> /\ batch' = <<>>
    BY <1>1, <1>2 DEF Batched
  <2> QED
    BY <2>1 DEF Batched, NoStaleEvent
<1>6. /\ is_running' \in BOOLEAN /\ ops_stopped' \in BOOLEAN /\ wakeup' \in BOOLEAN
      /\ batch' \in Seq(KEvents)
      /\ loop' \in {"top", "ops", "timeouts", "wait", "events", "ops_after", "exited"}
      /\ stop' \in {"no", "flagged", "notified", "joining", "done"}
      /\ left' \in [OpTypes -> Nat] /\ left'["add"] <= Budget["add"]
  BY <1>1, <1>2 DEF TypedRest
<1>7. CASE Head(ops).type = "add" /\ DoAddConnection(Head(ops)) /\ UNCHANGED call
  <2>1. /\ TableInv' /\ Hands' /\ Fresh'
        /\ seq' \in 0..(SeqValues - 1)
        /\ issued' \in [Incarnations -> ConnectionIds \cup {<<>>}]
    BY <1>1, <1>7, DoAddConnectionInv
  <2>2. TypedRest'
    BY <1>2, <1>3, <1>4, <1>6, <1>7, <2>1 DEF TypedRest
  <2>3. Roles'
    BY <1>2, <1>3, <1>7 DEF Roles, CallRoles
  <2> QED
    BY <1>5, <2>1, <2>2, <2>3 DEF Inv
<1>8. CASE /\ Head(ops).type # "add" /\ UNCHANGED <<seq, issued, call>>
           /\ TableInv' /\ TableStep
  <2>1. \A fd \in Fds : (Holds(fd)' <=> Holds(fd)) /\ (Queued(fd)' <=> Queued(fd))
    BY <1>3, <1>8, SameCalls
  <2>2. Hands' /\ Fresh'
    BY <1>1, <1>3, <1>8, <2>1, OwnersKeep
  <2>3. TypedRest'
    BY <1>2, <1>3, <1>4, <1>6, <1>8 DEF TypedRest
  <2>4. Roles'
    BY <1>2, <1>3, <1>8 DEF Roles, CallRoles
  <2> QED
    BY <1>5, <1>8, <2>2, <2>3, <2>4 DEF Inv
<1>9. CASE Head(ops).type = "query" /\ AnswerQuery(Head(ops))
  <2>1. PICK t \in Callers : t = Head(ops).by
    BY <1>3 DEF Operations
  <2> DEFINE r == [call[t] EXCEPT !.answered = TRUE]
  <2>2. call[t] \in CallRecords
    BY <1>2 DEF TypedRest
  <2>3. /\ r \in CallRecords /\ r.pc = call[t].pc /\ r.type = call[t].type /\ r.fd = call[t].fd
    BY <2>2 DEF CallRecords
  <2>4. call' = [call EXCEPT ![t] = r] /\ UNCHANGED <<tableVars, seq, issued>>
    BY <1>9, <2>1 DEF AnswerQuery
  <2> HIDE DEF r
  <2>5. /\ t # Acceptor => r.type # "add" /\ (r.pc # "idle" => r.type # "none")
        /\ t = Acceptor => (r.pc # "idle" => r.type = "add" /\ r.fd \in Fds)
    BY <1>2, <2>3 DEF Roles, CallRoles, Callers
  <2>6. /\ call' \in [Callers -> CallRecords] /\ CallRoles'
        /\ t # Acceptor => \A fd \in Fds : Holds(fd)' <=> Holds(fd)
        /\ t = Acceptor => call'[Acceptor] = r
    BY <2>3, <2>4, <2>5, CallMoves
  <2>7. \A fd \in Fds : (Holds(fd)' <=> Holds(fd)) /\ (Queued(fd)' <=> Queued(fd))
    <3>1. CASE t = Acceptor
      BY <1>3, <1>9, <2>3, <2>6, <3>1 DEF Holds
    <3>2. CASE t # Acceptor
      BY <1>3, <1>9, <2>6, <3>2
    <3> QED
      BY <3>1, <3>2
  <2>8. TableInv' /\ TableStep
    BY <1>2, <2>4, SameTable
  <2>9. Hands' /\ Fresh'
    BY <1>1, <1>3, <2>7, <2>8, OwnersKeep
  <2>10. TypedRest' /\ Roles'
    BY <1>2, <1>3, <1>4, <1>6, <2>4, <2>6 DEF TypedRest, Roles
  <2> QED
    BY <1>5, <2>8, <2>9, <2>10 DEF Inv
<1>10. CASE Head(ops).type = "remove" /\ DoRemoveConnection(Head(ops)) /\ UNCHANGED call
  <2>1. TableInv' /\ TableStep
    BY <1>2, <1>10, DoRemoveConnectionInv
  <2>2. UNCHANGED <<seq, issued>>
    BY <1>10 DEF DoRemoveConnection
  <2> QED
    BY <1>8, <1>10, <2>1, <2>2
<1>11. CASE Head(ops).type = "send" /\ DoSendData(Head(ops)) /\ UNCHANGED call
  <2>1. Head(ops).size \in Nat
    BY <1>3 DEF Operations
  <2>2. TableInv' /\ TableStep
    BY <1>2, <1>11, <2>1, DoSendDataInv
  <2>3. UNCHANGED <<seq, issued>>
    BY <1>11 DEF DoSendData
  <2> QED
    BY <1>8, <1>11, <2>2, <2>3
<1> QED
  BY <1>1, <1>7, <1>9, <1>10, <1>11 DEF DoOperation

-----------------------------------------------------------------------------
(* The theorems                                                            *)

LEMMA InitInv == Init => Inv
<1> SUFFICES ASSUME Init PROVE Inv
  OBVIOUS
<1>1. DOMAIN connections = {} /\ DOMAIN fd_to_id = {} /\ Len(ops) = 0 /\ DOMAIN batch = {}
  BY DEF Init
<1>2. TableInv
  <2>1. <<>> \in Histories /\ <<>> \in Seq(Nat)
    BY DEF Histories
  <2>2. TypedTable
    <3>1. connections \in [DOMAIN connections -> Connection]
          /\ fd_to_id \in [DOMAIN fd_to_id -> ConnectionIds]
      BY <1>1 DEF Init
    <3>2. sock \in [Fds -> Socket]
      BY FreeSockFacts DEF Init
    <3>3. events \in [Incarnations -> Histories] /\ wire \in [Incarnations -> Seq(Nat)]
      BY <2>1 DEF Init
    <3>4. filters \subseteq Fds \X {"read", "write"}
      BY DEF Init
    <3> QED
      BY <1>1, <3>1, <3>2, <3>3, <3>4 DEF TypedTable
  <2>3. Table
    BY <1>1 DEF Init, Table, TableConsistent
  <2>4. Order /\ StreamInOrder /\ BackpressureConsistent
    BY <1>1 DEF Order, StreamInOrder, BackpressureConsistent
  <2> QED
    BY <2>2, <2>3, <2>4 DEF TableInv
<1>3. TypedRest
  <2>1. seq \in 0..(SeqValues - 1) /\ processed \in 0..BatchOps
    BY ReactorAssumption DEF Init
  <2>2. call \in [Callers -> CallRecords]
    BY IdleFacts DEF Init
  <2>3. left \in [OpTypes -> Nat] /\ left["add"] <= Budget["add"]
    BY ReactorAssumption, ConstantFacts DEF Init, OpTypes
  <2>4. issued \in [Incarnations -> ConnectionIds \cup {<<>>}]
    BY DEF Init
  <2>5. ops \in Seq(Operations) /\ batch \in Seq(KEvents)
    BY DEF Init
  <2> QED
    BY <2>1, <2>2, <2>3, <2>4, <2>5 DEF Init, TypedRest
<1>4. Roles
  BY <1>1, IdleFacts, ConstantFacts DEF Init, Roles, CallRoles, QueueRoles
<1>5. \A fd \in Fds : ~Open(fd) /\ ~Holds(fd) /\ Queue(fd) = {} /\ ~Tabled(fd) /\ sock[fd].inc = 0
  BY <1>1, IdleFacts, FreeSockFacts, ConstantFacts DEF Init, Open, Holds, Queue, Tabled
<1>6. Hands
  BY <1>5 DEF Hands, Hand, OnceQueued, Queued
<1>7. Fresh
  <2>1. Accepted = 0
    BY ConstantFacts DEF Init, Accepted
  <2>2. \A i \in Incarnations : Blank(i)
    BY DEF Init, Blank
  <2> QED
    BY <1>5, <2>1, <2>2 DEF Fresh, Queued
<1>8. Batched
  BY <1>1 DEF Init, Batched, NoStaleEvent
<1> QED
  BY <1>2, <1>3, <1>4, <1>6, <1>7, <1>8 DEF Inv

LEMMA NextInv == Inv /\ [Next]_vars => Inv'
<1> SUFFICES ASSUME Inv, [Next]_vars PROVE Inv'
  OBVIOUS
<1>1. CASE \E fd \in Fds : Accept(fd)
  BY <1>1, AcceptInv
<1>2. ASSUME NEW t \in Users, NEW i \in Incarnations,
             \/ \E n \in SendSizes : UserCall(t, "send", i, n)
             \/ UserCall(t, "remove", i, 0)
             \/ UserCall(t, "query", i, 0)
      PROVE  Inv'
  <2>1. SendSizes \subseteq Nat
    BY ReactorAssumption
  <2> QED
    BY <1>2, <2>1, UserCallInv
<1>3. ASSUME NEW t \in Callers, CallStep(t) PROVE Inv'
  BY <1>3, CallCheckInv, CallEnqueueInv, LateCallInv DEF CallStep
<1>4. CASE LoopStep
  BY <1>4, ControlInv, ProcessOperationInv, CheckTimeoutsInv, WaitEventsInv, ProcessKqueueEventInv
     DEF LoopStep
<1>5. CASE WaitFails \/ StopBegin \/ StopStep
  BY <1>5, ControlInv, StopCleanupInv DEF StopStep
<1>6. ASSUME NEW fd \in Fds,
             PeerSends(fd) \/ PeerShutsDown(fd) \/ PeerResets(fd) \/ SocketSpace(fd)
      PROVE  Inv'
  BY <1>6, PeerInv
<1>7. CASE UNCHANGED vars
  <2>1. UNCHANGED <<tableVars, ops, call, left, seq, issued, batch, is_running, ops_stopped, wakeup,
                    loop, processed, stop>>
    BY <1>7 DEF vars, tableVars
  <2>2. TableInv' /\ TableStep
    BY <2>1, SameTable DEF Inv
  <2>3. TypedRest /\ Batched
    BY DEF Inv
  <2> QED
    BY <2>1, <2>2, <2>3, LoopMoves DEF TypedRest, Batched
<1> QED
  BY <1>1, <1>2, <1>3, <1>4, <1>5, <1>6, <1>7 DEF Next

\* Every reachable state of the reactor satisfies the inductive invariant.
THEOREM Invariance == Spec => []Inv
BY InitInv, NextInv, PTL DEF Spec

LEMMA TypesHold == Inv => TypeOK
<1> SUFFICES ASSUME Inv PROVE TypeOK
  OBVIOUS
<1>1. TypedTable /\ TypedRest
  BY DEF Inv, TableInv
<1>2. \A t \in Callers : call[t].pc \in {"idle", "check", "enqueue", "trigger", "await"}
  BY <1>1 DEF TypedRest, CallRecords, Places
<1>3. \A id \in DOMAIN connections : connections[id] \in Connection
  BY <1>1 DEF TypedTable
<1> QED
  BY <1>1, <1>2, <1>3 DEF TypeOK, TypedTable, TypedRest

\* The reactor's variables keep their types: ids have a sequence number that is not 0,
\* and both tables hold only what DoAddConnection put there.
THEOREM ReactorTypes == Spec => []TypeOK
BY Invariance, TypesHold, PTL

\* connections_ and fd_to_connection_id_ stay inverse, and every connection's descriptor
\* is open and still the socket it was added with.
THEOREM TablesAlwaysConsistent == Spec => []TableConsistent
<1>1. Inv => TableConsistent
  BY DEF Inv, TableInv, Table
<1> QED
  BY <1>1, Invariance, PTL

\* An event of a batch is never applied to a connection that got the descriptor later.
THEOREM EventsNeverStale == Spec => []NoStaleEvent
<1>1. Inv => NoStaleEvent
  BY DEF Inv, Batched
<1> QED
  BY <1>1, Invariance, PTL

\* What went to the kernel followed by what is buffered is the data in the order sent.
THEOREM StreamsKeepOrder == Spec => []StreamInOrder
<1>1. Inv => StreamInOrder
  BY DEF Inv, TableInv
<1> QED
  BY <1>1, Invariance, PTL

\* The flags of backpressure, the fill of the buffer and the registered filters agree, so
\* that a paused connection always has a write event to come.
THEOREM BackpressureNeverStuck == Spec => []BackpressureConsistent
<1>1. Inv => BackpressureConsistent
  BY DEF Inv, TableInv
<1> QED
  BY <1>1, Invariance, PTL

LEMMA OwnersCounted ==
  ASSUME Inv, NEW fd \in Fds
  PROVE  IF sock[fd].inc = 0 THEN Owners(fd) = 0
         ELSE Owners(fd) <= 1 /\ (is_running => Owners(fd) = 1)
<1>1. TypedTable /\ Table /\ TypedRest /\ Roles /\ Hands /\ Hand(fd)
  BY DEF Inv, TableInv, Hands
<1>2. Cardinality(InCall(fd)) = IF Holds(fd) THEN 1 ELSE 0
  <2>1. InCall(fd) \subseteq {Acceptor}
    BY <1>1 DEF InCall, Roles, CallRoles, Callers
  <2>2. Acceptor \in InCall(fd) <=> Holds(fd)
    BY <1>1, ConstantFacts DEF InCall, Holds, Roles, CallRoles
  <2>3. InCall(fd) = IF Holds(fd) THEN {Acceptor} ELSE {}
    BY <2>1, <2>2
  <2> QED
    BY <2>3, FS_EmptySet, FS_Singleton
<1>3. Cardinality(InQueue(fd)) = IF Queued(fd) THEN 1 ELSE 0
  <2>1. InQueue(fd) = Queue(fd)
    <3>1. DOMAIN ops = 1..Len(ops)
      BY <1>1, LenProperties DEF TypedRest
    <3> QED
      BY <3>1 DEF InQueue, Queue
  <2>2. CASE Queued(fd)
    <3>1. PICK k \in Queue(fd) : TRUE
      BY <2>2 DEF Queued
    <3>2. Queue(fd) = {k}
      BY <1>1 DEF Hands, OnceQueued
    <3> QED
      BY <2>1, <2>2, <3>2, FS_Singleton
  <2>3. CASE ~Queued(fd)
    BY <2>1, <2>3, FS_EmptySet DEF Queued
  <2> QED
    BY <2>2, <2>3
<1>4. Cardinality(InTable(fd)) = IF Tabled(fd) THEN 1 ELSE 0
  <2>1. CASE Tabled(fd)
    <3>1. InTable(fd) = {fd_to_id[fd]}
      BY <1>1, <2>1 DEF InTable, Table, TableConsistent, Tabled
    <3> QED
      BY <2>1, <3>1, FS_Singleton
  <2>2. CASE ~Tabled(fd)
    <3>1. InTable(fd) = {}
      BY <1>1, <2>2 DEF InTable, Table, TableConsistent, Tabled
    <3> QED
      BY <2>2, <3>1, FS_EmptySet
  <2> QED
    BY <2>1, <2>2
<1>5. /\ Open(fd) <=> sock[fd].inc # 0
      /\ Holds(fd) \/ Queued(fd) \/ Tabled(fd) => Open(fd)
      /\ ~(Holds(fd) /\ Queued(fd)) /\ ~(Holds(fd) /\ Tabled(fd)) /\ ~(Queued(fd) /\ Tabled(fd))
      /\ is_running /\ Open(fd) => Holds(fd) \/ Queued(fd) \/ Tabled(fd)
  BY <1>1 DEF Open, Hand
<1>6. CASE Holds(fd)
  BY <1>2, <1>3, <1>4, <1>5, <1>6 DEF Owners
<1>7. CASE Queued(fd)
  BY <1>2, <1>3, <1>4, <1>5, <1>7 DEF Owners
<1>8. CASE Tabled(fd)
  BY <1>2, <1>3, <1>4, <1>5, <1>8 DEF Owners
<1>9. CASE ~Holds(fd) /\ ~Queued(fd) /\ ~Tabled(fd)
  BY <1>2, <1>3, <1>4, <1>5, <1>9 DEF Owners
<1> QED
  BY <1>6, <1>7, <1>8, <1>9

\* An accepted descriptor has one owner from accept() to close(): it is closed once, and it
\* is not forgotten while the reactor runs.
THEOREM AlwaysOneOwner == Spec => []OneOwner
<1>1. Inv => OneOwner
  BY OwnersCounted DEF OneOwner
<1> QED
  BY <1>1, Invariance, PTL

LEMMA FrontOfAppend ==
  ASSUME NEW S, NEW h \in Seq(S), NEW x \in S
  PROVE  /\ Append(h, x) # <<>> /\ Last(Append(h, x)) = x
         /\ Front(Append(h, x)) = h /\ Append(h, x) # h
<1>1. /\ Append(h, x) \in Seq(S) /\ Len(Append(h, x)) = Len(h) + 1 /\ Len(h) \in Nat
      /\ Append(h, x)[Len(h) + 1] = x /\ \A k \in 1..Len(h) : Append(h, x)[k] = h[k]
  BY AppendProperties, LenProperties
<1>2. Append(h, x) # <<>> /\ Append(h, x) # h
  BY <1>1
<1>3. Last(Append(h, x)) = x
  BY <1>1 DEF Last
<1>4. Front(Append(h, x)) = h
  BY <1>1 DEF Front
<1> QED
  BY <1>2, <1>3, <1>4

LEMMA HistoriesInOrder ==
  ASSUME NEW e \in Histories
  PROVE  LET body == IF e # <<>> /\ Last(e) = "disconnected" THEN Front(e) ELSE e
         IN  e = <<>> \/ body \in Alive \/ (e # body /\ body \in Failed)
<1> DEFINE body == IF e # <<>> /\ Last(e) = "disconnected" THEN Front(e) ELSE e
<1>1. CASE e = <<>>
  BY <1>1
<1>2. CASE e \in Alive
  <2>1. e # <<>> /\ Last(e) # "disconnected"
    BY <1>2 DEF Alive, Last
  <2> QED
    BY <1>2, <2>1
<1>3. ASSUME NEW h \in Alive \cup Failed, e = Append(h, "disconnected")
      PROVE  body \in Alive \/ (e # body /\ body \in Failed)
  <2>1. h \in Seq(Kinds) /\ "disconnected" \in Kinds
    <3>1. CASE h = <<"connected", "error">>
      BY <3>1 DEF Kinds
    <3>2. CASE h = <<"connected", "data", "error">>
      BY <3>2 DEF Kinds
    <3>3. CASE h \in Alive
      BY <3>3, AliveFacts DEF Kinds
    <3> QED
      BY <3>1, <3>2, <3>3 DEF Failed
  <2>2. /\ Append(h, "disconnected") # <<>> /\ Last(Append(h, "disconnected")) = "disconnected"
        /\ Front(Append(h, "disconnected")) = h /\ Append(h, "disconnected") # h
    BY <2>1, FrontOfAppend
  <2> QED
    BY <1>3, <2>2
<1> QED
  BY <1>1, <1>2, <1>3 DEF Histories

\* The worker is told of every connection as Connect, Data, [Error,] Disconnect: once each,
\* nothing before the first and nothing after the last.
THEOREM LifecyclesInOrder == Spec => []LifecycleOrder
<1>1. Inv => LifecycleOrder
  <2> SUFFICES ASSUME Inv, NEW i \in Incarnations
               PROVE  LET e == events[i]
                          body == IF e # <<>> /\ Last(e) = "disconnected" THEN Front(e) ELSE e
                      IN  e = <<>> \/ body \in Alive \/ (e # body /\ body \in Failed)
    BY DEF LifecycleOrder, Alive, Failed
  <2>1. events[i] \in Histories
    BY DEF Inv, TableInv, TypedTable
  <2> QED
    BY <2>1, HistoriesInOrder
<1> QED
  BY <1>1, Invariance, PTL
=============================================================================
