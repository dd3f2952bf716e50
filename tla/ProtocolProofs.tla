--------------------------- MODULE ProtocolProofs ---------------------------
(***************************************************************************)
(* Proofs about Protocol: a message with a CRC is delivered as it was sent *)
(* or not at all, a failure of the decoder is final, and without a fault   *)
(* nothing is lost.  The loop of TryDecode and the concatenation of the    *)
(* slices are recursive functions; what they compute is shown by induction *)
(* in the form of the least element of a set of natural numbers.           *)
(***************************************************************************)
EXTENDS Protocol, WellFoundedInduction, FiniteSetTheorems, SequenceTheorems, TLAPS

-----------------------------------------------------------------------------
(* Induction over the natural numbers, as a statement about sets. *)

\* A set of natural numbers that is not empty has a least element.
LEMMA LeastElement ==
  ASSUME NEW T \in SUBSET Nat, T # {}
  PROVE  \E n \in T : \A m \in T : n <= m
<1> DEFINE R == OpToRel(<, Nat)
<1>1. IsWellFoundedOn(R, Nat) BY NatLessThanWellFounded, Zenon
<1>2. \A x, y \in Nat : <<x, y>> \in R <=> x < y BY DEF OpToRel
<1> HIDE DEF R
<1>3. PICK x \in T : \A y \in T : ~ (<<y, x>> \in R) BY <1>1, WFMin
<1>4. \A y \in T : ~ (y < x) BY <1>2, <1>3
<1>5. \A y \in T : x <= y BY <1>4
<1> QED BY <1>5

\* A set of natural numbers with 0 and the successor of each member is Nat.
LEMMA NatsClosed ==
  ASSUME NEW S \in SUBSET Nat, 0 \in S, \A n \in S : n + 1 \in S
  PROVE  S = Nat
<1> DEFINE T == Nat \ S
<1> SUFFICES ASSUME T # {} PROVE FALSE OBVIOUS
<1>1. PICK n \in T : \A m \in T : n <= m BY LeastElement
<1>2. n # 0 /\ n - 1 \in Nat BY <1>1
<1>3. n - 1 \in S BY <1>1, <1>2
<1>4. (n - 1) + 1 \in S BY <1>3
<1> QED BY <1>1, <1>2, <1>4

-----------------------------------------------------------------------------
(* The loop of TryDecode. *)

\* The rounds of the loop exist, however many there are.
LEMMA RoundsExist ==
  ASSUME NEW d, NEW n \in Nat
  PROVE  \E g : g = [i \in 0..n |-> IF i = 0 THEN d ELSE Round(g[i - 1])]
<1> DEFINE Step(g, i) == IF i = 0 THEN d ELSE Round(g[i - 1])
           P(k) == \E g : g = [i \in 0..k |-> Step(g, i)]
           S == {k \in Nat : P(k)}
<1>1. 0 \in S
  <2> DEFINE g == [i \in 0..0 |-> d]
  <2>1. g = [i \in 0..0 |-> Step(g, i)] OBVIOUS
  <2>2. P(0) BY <2>1
  <2> QED BY <2>2
<1>2. ASSUME NEW k \in S PROVE k + 1 \in S
  <2>1. k \in Nat /\ P(k) OBVIOUS
  <2>2. PICK g : g = [i \in 0..k |-> Step(g, i)] BY <2>1
  <2> DEFINE h == [i \in 0..k + 1 |-> IF i = k + 1 THEN Round(g[k]) ELSE g[i]]
  <2>3. ASSUME NEW i \in 0..k + 1 PROVE h[i] = Step(h, i)
    <3>1. CASE i = k + 1 BY <2>1, <3>1
    <3>2. CASE i # k + 1
      <4>1. i \in 0..k BY <2>1, <3>2
      <4>2. h[i] = Step(g, i) BY <2>1, <2>2, <3>2, <4>1
      <4>3. i # 0 => h[i - 1] = g[i - 1] BY <2>1, <4>1
      <4> QED BY <4>2, <4>3
    <3> QED BY <3>1, <3>2
  <2>4. h = [i \in 0..k + 1 |-> Step(h, i)] BY <2>3
  <2>5. P(k + 1) BY <2>4
  <2> QED BY <2>1, <2>5
<1> HIDE DEF S, P
<1>3. S = Nat
  <2>1. S \subseteq Nat BY DEF S
  <2> QED BY <1>1, <1>2, <2>1, NatsClosed
<1>4. P(n) BY <1>3 DEF S
<1> QED BY <1>4 DEF P

\* Each round starts from the decoder as the round before left it.
LEMMA RoundsDef ==
  ASSUME NEW d, NEW n \in Nat
  PROVE  /\ Rounds(d, n)[0] = d
         /\ \A i \in 1..n : Rounds(d, n)[i] = Round(Rounds(d, n)[i - 1])
<1>1. Rounds(d, n) = [i \in 0..n |-> IF i = 0 THEN d ELSE Round(Rounds(d, n)[i - 1])]
  BY RoundsExist DEF Rounds
<1> HIDE DEF Rounds
<1> QED BY <1>1

-----------------------------------------------------------------------------
(* The slices of a message. *)

LEMMA Quotient ==
  ASSUME NEW a \in Nat, NEW b \in Nat \ {0}
  PROVE  /\ a \div b \in Nat
         /\ (a \div b) * b <= a
         /\ a < (a \div b) * b + b
OBVIOUS

LEMMA Remainder ==
  ASSUME NEW a \in Nat, NEW b \in Nat \ {0}
  PROVE  /\ a % b \in 0..b - 1
         /\ a % b <= a
         /\ a < b => a % b = a
         /\ a = b => a % b = 0
OBVIOUS

LEMMA SlicePayloadPositive ==
  ASSUME NEW crc \in BOOLEAN
  PROVE  /\ SlicePayload(crc) \in Nat \ {0}
         /\ MsgHeaderSize + SlicePayload(crc) + (IF crc THEN CrcSize ELSE 0) = MaxFramePayload
BY SizesAssumption DEF SlicePayload

LEMMA ProductMonotonic ==
  ASSUME NEW a \in Int, NEW b \in Int, NEW p \in Nat, a <= b
  PROVE  a * p <= b * p
<1>1. (b - a) * p >= 0 OBVIOUS
<1>2. (b - a) * p = b * p - a * p OBVIOUS
<1> QED BY <1>1, <1>2

\* The messages that the 16 bits of total_slices can count; one slice more is
\* refused, and beyond that the encoder cuts the message short.
Fits(length, crc) == length <= SliceLimit * SlicePayload(crc)

\* A message that is not refused has enough slices and no empty one.
LEMMA SliceCount ==
  ASSUME NEW length \in Nat, NEW crc \in BOOLEAN, ~Refused(length, crc)
  PROVE  /\ TotalSlices(length, crc) \in Nat \ {0}
         /\ Offset(TotalSlices(length, crc), crc) < length
         /\ Fits(length, crc) => length <= TotalSlices(length, crc) * SlicePayload(crc)
<1> DEFINE P == SlicePayload(crc)
           N == (length + P - 1) \div P
           T == TotalSlices(length, crc)
<1>1. P \in Nat \ {0} BY SlicePayloadPositive
<1>2. SliceLimit \in Nat \ {0} BY SizesAssumption
<1>3. T = N % SliceLimit BY DEF TotalSlices
<1>4. T \in 1..SliceLimit - 1 BY DEF Refused
<1>5. Offset(T, crc) = (T - 1) * P BY DEF Offset
<1>6. Fits(length, crc) <=> length <= SliceLimit * P BY DEF Fits
<1> HIDE DEF P, T
<1>7. length + P - 1 \in Nat BY <1>1
<1>8. N \in Nat /\ N * P <= length + P - 1 /\ length + P - 1 < N * P + P
  BY <1>1, <1>7, Quotient
<1> HIDE DEF N
<1>9. T <= N /\ (N < SliceLimit => T = N) /\ (N = SliceLimit => T = 0)
  BY <1>2, <1>3, <1>8, Remainder
<1>10. (T - 1) * P < length
  <2>1. (T - 1) * P <= (N - 1) * P
    <3>1. T - 1 \in Int /\ N - 1 \in Int /\ T - 1 <= N - 1 BY <1>2, <1>4, <1>8, <1>9
    <3> QED BY <3>1, <1>1, ProductMonotonic
  <2>2. (N - 1) * P = N * P - P BY <1>1, <1>8
  <2>3. N * P \in Int /\ (T - 1) * P \in Int BY <1>1, <1>2, <1>4, <1>8
  <2> HIDE DEF P
  <2> QED BY <2>1, <2>2, <2>3, <1>1, <1>8
<1>11. ASSUME length <= SliceLimit * P PROVE length <= T * P
  <2>1. N * P \in Int /\ SliceLimit * P \in Int BY <1>1, <1>2, <1>8
  <2>2. N <= SliceLimit
    <3> SUFFICES ASSUME ~(N <= SliceLimit) PROVE FALSE OBVIOUS
    <3>1. (SliceLimit + 1) * P <= N * P
      <4>1. SliceLimit + 1 \in Int /\ N \in Int /\ SliceLimit + 1 <= N BY <1>2, <1>8
      <4> QED BY <4>1, <1>1, ProductMonotonic
    <3>2. (SliceLimit + 1) * P = SliceLimit * P + P BY <1>1, <1>2
    <3> QED BY <3>1, <3>2, <2>1, <1>1, <1>8, <1>11
  <2>3. T = N BY <2>2, <1>2, <1>4, <1>8, <1>9
  <2> QED BY <2>1, <2>3, <1>1, <1>8
<1> QED BY <1>2, <1>4, <1>5, <1>6, <1>10, <1>11 DEF T, P

\* Each slice has a byte and starts where the one before it ends.
LEMMA ChunkSize ==
  ASSUME NEW length \in Nat, NEW crc \in BOOLEAN, ~Refused(length, crc),
         NEW n \in 1..TotalSlices(length, crc)
  PROVE  /\ Offset(n, crc) \in Nat
         /\ Chunk(n, length, crc) \in 1..SlicePayload(crc)
         /\ n # TotalSlices(length, crc) =>
              /\ Chunk(n, length, crc) = SlicePayload(crc)
              /\ Offset(n + 1, crc) = Offset(n, crc) + Chunk(n, length, crc)
         /\ n = TotalSlices(length, crc) /\ Fits(length, crc) =>
              Offset(n, crc) + Chunk(n, length, crc) = length
<1> DEFINE P == SlicePayload(crc)
           T == TotalSlices(length, crc)
           C == Chunk(n, length, crc)
           o == (n - 1) * P
<1>1. P \in Nat \ {0} BY SlicePayloadPositive
<1>2. /\ T \in Nat \ {0}
      /\ (T - 1) * P < length
      /\ Fits(length, crc) => length <= T * P
  BY SliceCount DEF Offset
<1>3. Offset(n, crc) = o /\ Offset(n + 1, crc) = n * P
  <2>1. n + 1 - 1 = n BY <1>2
  <2> QED BY <2>1 DEF Offset
<1>4. C = IF length - o < P THEN length - o ELSE P BY <1>3 DEF Chunk
<1> HIDE DEF P, T, C
<1>5. n \in Nat \ {0} /\ n <= T BY <1>2 DEF T
<1>6. o \in Nat
  <2>1. 0 * P <= (n - 1) * P BY <1>1, <1>5, ProductMonotonic
  <2> QED BY <2>1, <1>1, <1>5
<1>7. o <= (T - 1) * P
  <2>1. n - 1 \in Int /\ T - 1 \in Int /\ n - 1 <= T - 1 BY <1>2, <1>5
  <2> QED BY <2>1, <1>1, ProductMonotonic
<1>8. n * P = o + P BY <1>1, <1>5
<1>9. (T - 1) * P \in Int /\ T * P = (T - 1) * P + P BY <1>1, <1>2
<1>10. ASSUME n # T PROVE C = P
  <2>1. o + P <= (T - 1) * P
    <3>1. n \in Int /\ T - 1 \in Int /\ n <= T - 1 BY <1>2, <1>5, <1>10
    <3>2. n * P <= (T - 1) * P BY <3>1, <1>1, ProductMonotonic
    <3> QED BY <3>2, <1>8
  <2> HIDE DEF o
  <2> QED BY <2>1, <1>1, <1>2, <1>4, <1>6, <1>9
<1>11. C \in 1..P
  <2> HIDE DEF o
  <2> QED BY <1>1, <1>2, <1>4, <1>6, <1>7, <1>9
<1>12. ASSUME n = T, Fits(length, crc) PROVE o + C = length
  <2>1. o = (T - 1) * P BY <1>12
  <2> HIDE DEF o
  <2> QED BY <2>1, <1>1, <1>2, <1>4, <1>6, <1>9, <1>12
<1>13. n # T => n * P = o + C BY <1>8, <1>10
<1> HIDE DEF o
<1> QED BY <1>3, <1>6, <1>10, <1>11, <1>12, <1>13 DEF P, T, C

\* The first k bytes of message m.
Bytes(m, k) == [i \in 1..k |-> <<m, i>>]

\* A slice behind the bytes before it.
LEMMA JoinSlice ==
  ASSUME NEW m, NEW a \in Nat, NEW b \in Nat
  PROVE  Bytes(m, a) \o [i \in 1..b |-> <<m, a + i>>] = Bytes(m, a + b)
<1> DEFINE V == {m} \X Int
           s == Bytes(m, a)
           t == [i \in 1..b |-> <<m, a + i>>]
           u == Bytes(m, a + b)
<1>1. s \in Seq(V) /\ Len(s) = a
  <2>1. \A i \in 1..a : <<m, i>> \in V OBVIOUS
  <2> QED BY <2>1, IsASeq DEF Bytes
<1>2. t \in Seq(V) /\ Len(t) = b
  <2>1. \A i \in 1..b : <<m, a + i>> \in V OBVIOUS
  <2> QED BY <2>1, IsASeq
<1>3. u \in Seq(V) /\ Len(u) = a + b
  <2>1. \A i \in 1..a + b : <<m, i>> \in V OBVIOUS
  <2>2. a + b \in Nat OBVIOUS
  <2> QED BY <2>1, <2>2, IsASeq DEF Bytes
<1>4. \A i \in 1..a : s[i] = <<m, i>> BY DEF Bytes
<1>5. \A i \in 1..b : t[i] = <<m, a + i>> OBVIOUS
<1>6. \A i \in 1..a + b : u[i] = <<m, i>> BY DEF Bytes
<1> HIDE DEF V, s, t, u
<1>7. /\ s \o t \in Seq(V) /\ Len(s \o t) = a + b
      /\ \A i \in 1..a + b : (s \o t)[i] = IF i <= a THEN s[i] ELSE t[i - a]
  BY <1>1, <1>2, ConcatProperties
<1>8. ASSUME NEW i \in 1..a + b PROVE (s \o t)[i] = u[i]
  <2>1. CASE i <= a
    <3>1. i \in 1..a BY <2>1
    <3> QED BY <3>1, <2>1, <1>4, <1>6, <1>7
  <2>2. CASE ~(i <= a)
    <3>1. i - a \in 1..b /\ a + (i - a) = i BY <2>2
    <3> QED BY <3>1, <2>2, <1>5, <1>6, <1>7
  <2> QED BY <2>1, <2>2
<1>9. s \o t = u BY <1>3, <1>7, <1>8, SeqEqual
<1> QED BY <1>9 DEF s, t, u

\* The slices of a message, one behind the other, are the message.
LEMMA SlicesJoin ==
  ASSUME NEW m, NEW length \in Nat, NEW crc \in BOOLEAN,
         ~Refused(length, crc), Fits(length, crc), NEW slices,
         slices = [n \in 1..TotalSlices(length, crc) |-> Slice(m, n, length, crc)]
  PROVE  FlattenSeq(slices) = Bytes(m, length)
<1> DEFINE T == TotalSlices(length, crc)
           E(n) == Offset(n, crc) + Chunk(n, length, crc)
           Def(g, i) == IF i = 1 THEN slices[i] ELSE g[i - 1] \o slices[i]
           flatten == CHOOSE g : g = [i \in 1..T |-> Def(g, i)]
           w == [i \in 1..T |-> Bytes(m, E(i))]
<1>1. T \in Nat \ {0} BY SliceCount
<1>2. Len(slices) = T /\ \A n \in 1..T : slices[n] = Slice(m, n, length, crc)
  BY <1>1
<1>3. FlattenSeq(slices) = flatten[T] BY <1>1, <1>2 DEF FlattenSeq
<1>4. ASSUME NEW n \in 1..T
      PROVE  /\ E(n) \in Nat
             /\ n = 1 => slices[n] = Bytes(m, E(n))
             /\ n # 1 => n - 1 \in 1..T /\ Bytes(m, E(n - 1)) \o slices[n] = Bytes(m, E(n))
  <2>1. Offset(n, crc) \in Nat /\ Chunk(n, length, crc) \in Nat
    BY ChunkSize, SlicePayloadPositive
  <2>2. slices[n] = [i \in 1..Chunk(n, length, crc) |-> <<m, Offset(n, crc) + i>>]
    BY <1>2 DEF Slice
  <2>3. CASE n = 1
    <3>1. Offset(n, crc) = 0 BY <2>3, SlicePayloadPositive DEF Offset
    <3>2. \A i \in 1..Chunk(n, length, crc) : 0 + i = i BY <2>1
    <3> QED BY <3>1, <3>2, <2>1, <2>2, <2>3 DEF Bytes
  <2>4. CASE n # 1
    <3>1. n - 1 \in 1..T /\ n - 1 # T /\ n - 1 + 1 = n BY <1>1, <2>4
    <3>2. Offset(n, crc) = E(n - 1)
      <4>1. Offset(n - 1 + 1, crc) = Offset(n - 1, crc) + Chunk(n - 1, length, crc)
        BY <3>1, ChunkSize
      <4> QED BY <4>1, <3>1
    <3>3. Bytes(m, Offset(n, crc)) \o slices[n] = Bytes(m, E(n)) BY <2>1, <2>2, JoinSlice
    <3> QED BY <3>1, <3>2, <3>3, <2>1, <2>4
  <2> QED BY <2>3, <2>4
<1>5. E(T) = length BY <1>1, ChunkSize
<1> HIDE DEF E, T
<1>6. w = [i \in 1..T |-> Def(w, i)]
  <2>1. ASSUME NEW i \in 1..T PROVE w[i] = Def(w, i)
    <3>1. CASE i = 1 BY <3>1, <1>4
    <3>2. CASE i # 1
      <4>1. i - 1 \in 1..T /\ w[i - 1] = Bytes(m, E(i - 1)) BY <3>2, <1>4
      <4> QED BY <4>1, <3>2, <1>4
    <3> QED BY <3>1, <3>2
  <2> QED BY <2>1
<1>7. flatten = [i \in 1..T |-> Def(flatten, i)]
  <2>1. \E g : g = [i \in 1..T |-> Def(g, i)] BY <1>6
  <2> QED BY <2>1
<1> HIDE DEF flatten, w
<1>8. \A n \in Nat : n \in 1..T => flatten[n] = Bytes(m, E(n))
  <2> DEFINE S == {n \in Nat : n \in 1..T => flatten[n] = Bytes(m, E(n))}
  <2>1. 0 \in S OBVIOUS
  <2>2. ASSUME NEW n \in S PROVE n + 1 \in S
    <3> SUFFICES ASSUME n + 1 \in 1..T PROVE flatten[n + 1] = Bytes(m, E(n + 1))
      OBVIOUS
    <3>1. flatten[n + 1] = Def(flatten, n + 1) BY <1>7
    <3>2. PICK k \in 1..T : k = n + 1 OBVIOUS
    <3>3. n \in Nat /\ k - 1 = n BY <3>2
    <3>4. CASE k = 1 BY <3>1, <3>2, <3>4, <1>4
    <3>5. CASE k # 1
      <4>1. n \in 1..T BY <1>4, <3>3, <3>5
      <4>2. flatten[n] = Bytes(m, E(n)) BY <4>1
      <4>3. flatten[k] = flatten[n] \o slices[k] BY <3>1, <3>2, <3>3, <3>5
      <4>4. Bytes(m, E(n)) \o slices[k] = Bytes(m, E(k)) BY <3>3, <3>5, <1>4
      <4> QED BY <4>2, <4>3, <4>4, <3>2
    <3> QED BY <3>4, <3>5
  <2> HIDE DEF S
  <2>3. S = Nat
    <3>1. S \subseteq Nat BY DEF S
    <3> QED BY <3>1, <2>1, <2>2, NatsClosed
  <2> QED BY <2>3 DEF S
<1>9. T \in Nat /\ T \in 1..T BY <1>1
<1> QED BY <1>3, <1>5, <1>8, <1>9

-----------------------------------------------------------------------------
(* What the wire and the decoder hold.  p is the plan; ok says that there   *)
(* has been no fault.                                                       *)

Plans == [MsgIds -> [length : Lengths, crc : BOOLEAN]]

Total(p, m) == TotalSlices(p[m].length, p[m].crc)
SliceOf(p, m, n) == Slice(m, n, p[m].length, p[m].crc)
IsSent(p, m) == m \in MsgIds /\ ~Refused(p[m].length, p[m].crc)
FrameOf(p, m, n) == EncodeMessage(m, p[m].length, p[m].crc)[n]

IsMessageFrame(p, f) == \E m \in MsgIds : IsSent(p, m) /\ \E n \in 1..Total(p, m) : f = FrameOf(p, m, n)
IsStreamFrame(f) == \E s \in StreamIds : \E n \in 1..3 : f = EncodeStream(s)[n]

\* The frames that the encoder makes, and their bytes.
Frames(p) ==
  {f \in {FrameOf(p, m, n) : m \in MsgIds, n \in Nat}
           \cup {EncodeStream(s)[n] : s \in StreamIds, n \in 1..3} :
     IsMessageFrame(p, f) \/ IsStreamFrame(f)}

WireBytes(p, ok) ==
  {b \in [frame : Frames(p), k : Nat \ {0}, bad : BOOLEAN] :
     /\ b.k <= HeaderSize + b.frame.payload_len
     /\ ~Hurt(b)
     /\ ok => ~b.bad}

\* Whether what has been kept of a message must be what was sent.
Trusted(p, ok, m) == p[m].crc \/ ok

Data == (MsgIds \cup StreamIds) \X Int

Filled(slices) == {n \in DOMAIN slices : slices[n] # <<>>}

\* A partial message: the filled slots are counted and hold the slices sent.
IsAssembly(p, ok, m, a) ==
  /\ a = [slices |-> a.slices, received |-> a.received, first_seen |-> a.first_seen]
  /\ a.slices \in [1..Total(p, m) -> Seq(Data)]
  /\ a.received = Cardinality(Filled(a.slices))
  /\ Trusted(p, ok, m) =>
       \A n \in 1..Total(p, m) : a.slices[n] \in {<<>>, SliceOf(p, m, n)}

IsPartial(p, ok, m, a) ==
  IsSent(p, m) /\ IsAssembly(p, ok, m, a) /\ a.received # Total(p, m)

\* A delivered message.
Messages(p, ok) ==
  {c \in [id : MsgIds, data : {FlattenSeq(slices) : slices \in Seq(Seq(Data))}] :
     /\ IsSent(p, c.id)
     /\ Trusted(p, ok, c.id) /\ Fits(p[c.id].length, p[c.id].crc)
          => c.data = Bytes(c.id, p[c.id].length)}

EventSet == [type : {"StreamStart", "StreamChunk", "StreamEnd"}, id : StreamIds, offset : Int,
             data : Seq(Data)]

\* What the decoder finds in its buffer: the middle of a frame, and it throws; not
\* yet a frame; or a frame.
Stuck(b) == Len(b) >= HeaderSize /\ b[1].k # 1
Waiting(b) ==
  \/ Len(b) < HeaderSize
  \/ b[1].k = 1 /\ Len(b) < HeaderSize + b[1].frame.payload_len
Complete(b) == b[1].k = 1 /\ Len(b) >= HeaderSize + b[1].frame.payload_len

NextFrame(b) == b[1].frame
Payload(b) == SubSeq(b, HeaderSize + 1, HeaderSize + b[1].frame.payload_len)
Behind(b) == SubSeq(b, HeaderSize + b[1].frame.payload_len + 1, Len(b))

\* The decoder as a record of its fields.
Record(b, ms, c, e, n, done, fails) ==
  [buffer |-> b, messages |-> ms, completed |-> c, stream_events |-> e, frames |-> n,
   done |-> done, failed |-> fails]

AssembliesInv(p, ok, ms) ==
  /\ ms = [m \in DOMAIN ms |-> ms[m]]
  /\ \A m \in DOMAIN ms : IsPartial(p, ok, m, ms[m])

FieldsInv(p, ok, b, ms, c, e, n, done, fails) ==
  /\ b \in Seq(WireBytes(p, ok))
  /\ AssembliesInv(p, ok, ms)
  /\ c \in Seq(Messages(p, ok))
  /\ e \in Seq(EventSet)
  /\ n \in Nat
  /\ done \in BOOLEAN /\ fails \in BOOLEAN
  /\ fails => done /\ Stuck(b)

DecoderInv(p, ok, d) ==
  \E b, ms, c, e, n, done, fails :
    d = Record(b, ms, c, e, n, done, fails) /\ FieldsInv(p, ok, b, ms, c, e, n, done, fails)

-----------------------------------------------------------------------------
(* The frames of the encoder. *)

LEMMA MessageFrameShape ==
  ASSUME NEW p \in Plans, NEW m \in MsgIds, IsSent(p, m), NEW n \in 1..Total(p, m), NEW f,
         f = FrameOf(p, m, n)
  PROVE  /\ f = [type |-> "Message", id |-> m, total_slices |-> Total(p, m), sequence |-> n - 1,
                 data |-> SliceOf(p, m, n), flags |-> p[m].crc, sealed |-> p[m].crc,
                 payload_len |-> f.payload_len]
         /\ Total(p, m) \in Nat \ {0}
         /\ f.payload_len \in 1..MaxFramePayload
         /\ p[m].crc => f.payload_len >= CrcSize
         /\ SliceOf(p, m, n) \in Seq(Data)
         /\ Len(SliceOf(p, m, n)) > 0
<1>1. p[m].length \in Nat /\ p[m].crc \in BOOLEAN BY SizesAssumption DEF Plans
<1>2. ~Refused(p[m].length, p[m].crc) BY DEF IsSent
<1>3. Total(p, m) \in Nat \ {0} BY <1>1, <1>2, SliceCount DEF Total
<1> DEFINE L == p[m].length
           crc == p[m].crc
           C == Chunk(n, L, crc)
           o == Offset(n, crc)
<1>4. o \in Nat /\ C \in 1..SlicePayload(crc) BY <1>1, <1>2, ChunkSize DEF Total
<1>5. /\ SlicePayload(crc) \in Nat
      /\ MsgHeaderSize + SlicePayload(crc) + (IF crc THEN CrcSize ELSE 0) = MaxFramePayload
  BY <1>1, SlicePayloadPositive
<1>6. f = MakeFrame("Message", m, Total(p, m), n - 1, SliceOf(p, m, n), MsgHeaderSize + C, crc)
  BY DEF FrameOf, EncodeMessage, Total, SliceOf
<1>7. SliceOf(p, m, n) = [i \in 1..C |-> <<m, o + i>>] BY DEF SliceOf, Slice
<1> HIDE DEF C, o, crc
<1>8. f.payload_len = MsgHeaderSize + C + IF crc THEN CrcSize ELSE 0 BY <1>6 DEF MakeFrame
<1>9. f.payload_len \in 1..MaxFramePayload /\ (crc => f.payload_len >= CrcSize)
  <2>1. MsgHeaderSize \in Nat \ {0} /\ CrcSize \in Nat BY SizesAssumption
  <2>2. CASE crc
    <3>1. f.payload_len = MsgHeaderSize + C + CrcSize BY <2>2, <1>8
    <3>2. MsgHeaderSize + SlicePayload(crc) + CrcSize = MaxFramePayload BY <2>2, <1>5
    <3>3. f.payload_len \in 1..MaxFramePayload BY <3>1, <3>2, <2>1, <1>4, <1>5
    <3>4. f.payload_len >= CrcSize BY <3>1, <2>1, <1>4, <1>5
    <3> QED BY <3>3, <3>4
  <2>3. CASE ~crc BY <2>1, <2>3, <1>4, <1>5, <1>8
  <2> QED BY <2>2, <2>3
<1>10. SliceOf(p, m, n) \in Seq(Data) /\ Len(SliceOf(p, m, n)) = C
  <2>1. C \in Nat BY <1>4, <1>5
  <2>2. \A i \in 1..C : <<m, o + i>> \in Data BY <1>4 DEF Data
  <2> QED BY <2>1, <2>2, <1>7, IsASeq
<1>11. f = [type |-> "Message", id |-> m, total_slices |-> Total(p, m), sequence |-> n - 1,
            data |-> SliceOf(p, m, n), flags |-> crc, sealed |-> crc,
            payload_len |-> f.payload_len]
  BY <1>6 DEF MakeFrame
<1> QED BY <1>3, <1>4, <1>5, <1>9, <1>10, <1>11 DEF crc

LEMMA StreamFrameShape ==
  ASSUME NEW f, IsStreamFrame(f)
  PROVE  /\ f = [type |-> f.type, id |-> f.id, total_slices |-> 0, sequence |-> 0,
                 data |-> f.data, flags |-> FALSE, sealed |-> FALSE,
                 payload_len |-> f.payload_len]
         /\ f.type \in {"StreamStart", "StreamChunk", "StreamEnd"}
         /\ f.id \in StreamIds
         /\ f.data \in Seq(Data)
         /\ f.payload_len \in 1..MaxFramePayload
<1>1. PICK s \in StreamIds, n \in 1..3 : f = EncodeStream(s)[n] BY DEF IsStreamFrame
<1>2. MaxFramePayload \in Nat /\ MaxFramePayload > 2 BY SizesAssumption
<1>3. <<>> \in Seq(Data) /\ <<<<s, 0>>>> \in Seq(Data)
  <2>1. <<s, 0>> \in Data BY DEF Data
  <2> QED BY <2>1
<1>4. CASE n = 1
  <2>1. f = EncodeStreamStart(s) BY <1>1, <1>4 DEF EncodeStream
  <2> QED BY <2>1, <1>2, <1>3 DEF EncodeStreamStart, MakeFrame
<1>5. CASE n = 2
  <2>1. f = EncodeStreamChunk(s, 0) BY <1>1, <1>5 DEF EncodeStream
  <2> QED BY <2>1, <1>2, <1>3 DEF EncodeStreamChunk, MakeFrame
<1>6. CASE n = 3
  <2>1. f = EncodeStreamEnd(s) BY <1>1, <1>6 DEF EncodeStream
  <2> QED BY <2>1, <1>2, <1>3 DEF EncodeStreamEnd, MakeFrame
<1> QED BY <1>4, <1>5, <1>6

\* A frame with the flag ends in its CRC.
LEMMA FlaggedSealed ==
  ASSUME NEW p \in Plans, NEW f, IsMessageFrame(p, f) \/ IsStreamFrame(f), f.flags
  PROVE  f.sealed
<1>1. CASE IsMessageFrame(p, f)
  <2>0. PICK m \in MsgIds : IsSent(p, m) /\ \E n \in 1..Total(p, m) : f = FrameOf(p, m, n)
    BY <1>1 DEF IsMessageFrame
  <2>1. PICK n \in 1..Total(p, m) : IsSent(p, m) /\ f = FrameOf(p, m, n) BY <2>0
  <2>2. PICK l, o : l = f.payload_len /\ o = p[m].crc OBVIOUS
  <2>3. f = [type |-> "Message", id |-> m, total_slices |-> Total(p, m), sequence |-> n - 1,
             data |-> SliceOf(p, m, n), flags |-> o, sealed |-> o, payload_len |-> l]
    BY <2>1, <2>2, MessageFrameShape
  <2>4. f.flags = o /\ f.sealed = o BY <2>3
  <2> QED BY <2>4
<1>2. CASE IsStreamFrame(f)
  <2>1. PICK t, i, a, l : t = f.type /\ i = f.id /\ a = f.data /\ l = f.payload_len OBVIOUS
  <2>2. f = [type |-> t, id |-> i, total_slices |-> 0, sequence |-> 0,
             data |-> a, flags |-> FALSE, sealed |-> FALSE, payload_len |-> l]
    BY <1>2, <2>1, StreamFrameShape
  <2>3. f.flags = FALSE BY <2>2
  <2> QED BY <2>3
<1> QED BY <1>1, <1>2

\* What DecodeStep finds at the front of a buffer.
LEMMA FrontByte ==
  ASSUME NEW p \in Plans, NEW ok \in BOOLEAN, NEW b \in Seq(WireBytes(p, ok)), Len(b) >= HeaderSize
  PROVE  /\ b[1] \in WireBytes(p, ok)
         /\ b[1].frame.payload_len \in 1..MaxFramePayload
         /\ IsMessageFrame(p, b[1].frame) \/ IsStreamFrame(b[1].frame)
<1>1. HeaderSize \in Nat \ {0} BY SizesAssumption
<1>2. 1 \in 1..Len(b) BY <1>1
<1>3. b[1] \in WireBytes(p, ok) BY <1>2, ElementOfSeq
<1>4. IsMessageFrame(p, b[1].frame) \/ IsStreamFrame(b[1].frame) BY <1>3 DEF WireBytes, Frames
<1>5. CASE IsMessageFrame(p, b[1].frame)
  BY <1>3, <1>4, <1>5, MessageFrameShape DEF IsMessageFrame
<1>6. CASE IsStreamFrame(b[1].frame) BY <1>3, <1>4, <1>6, StreamFrameShape
<1> QED BY <1>4, <1>5, <1>6

\* The bytes behind the front, too, are bytes of the wire.
LEMMA PartOfBuffer ==
  ASSUME NEW V, NEW b \in Seq(V), NEW i \in Nat \ {0}, NEW j \in Nat, j <= Len(b)
  PROVE  /\ SubSeq(b, i, j) \in Seq(V)
         /\ Len(SubSeq(b, i, j)) = IF i <= j THEN j - i + 1 ELSE 0
         /\ \A n \in 1..Len(SubSeq(b, i, j)) : SubSeq(b, i, j)[n] = b[i + n - 1]
<1>1. SubSeq(b, i, j) \in Seq(V)
  <2>1. \A n \in i..j : b[n] \in V BY ElementOfSeq
  <2> QED BY <2>1, SubSeqProperties
<1> QED BY <1>1, SubSeqProperties

-----------------------------------------------------------------------------
(* One round of the loop. *)

LEMMA RecordFields ==
  ASSUME NEW b, NEW ms, NEW c, NEW e, NEW n, NEW done, NEW fails,
         NEW d, d = Record(b, ms, c, e, n, done, fails)
  PROVE  /\ d.buffer = b /\ d.messages = ms /\ d.completed = c /\ d.stream_events = e
         /\ d.frames = n /\ d.done = done /\ d.failed = fails
BY DEF Record

\* Unless a header is hurt, the decoder reads the frame that was sent.
LEMMA NothingHurt ==
  ASSUME NEW p \in Plans, NEW ok \in BOOLEAN, NEW b \in Seq(WireBytes(p, ok)), Len(b) >= HeaderSize
  PROVE  /\ Header(b) = NextFrame(b)
         /\ b[1].k = 1 => ~b[1].bad
         /\ Len(b) >= HeaderSize + NextFrame(b).payload_len =>
              Identified(NextFrame(b), Payload(b)) = NextFrame(b)
<1>1. HeaderSize \in Nat \ {0, 1} BY SizesAssumption
<1>2. \A i \in 1..Len(b) : ~Hurt(b[i])
  <2>1. \A v \in WireBytes(p, ok) : ~Hurt(v) BY DEF WireBytes
  <2>2. \A i \in 1..Len(b) : b[i] \in WireBytes(p, ok) BY ElementOfSeq
  <2> QED BY <2>1, <2>2
<1>3. Len(b) \in Nat /\ 1 \in 1..Len(b) /\ HeaderSize \in 1..Len(b) BY <1>1
<1>4. Header(b) = NextFrame(b) BY <1>2, <1>3 DEF Header, NextFrame
<1>5. b[1].k = 1 => ~b[1].bad
  <2>1. ~Hurt(b[1]) BY <1>2, <1>3
  <2> QED BY <1>1, <2>1 DEF Hurt, Uncovered
<1>6. ASSUME Len(b) >= HeaderSize + NextFrame(b).payload_len
      PROVE  Identified(NextFrame(b), Payload(b)) = NextFrame(b)
  <2>1. PICK l \in Nat \ {0} : l = NextFrame(b).payload_len
    BY FrontByte, SizesAssumption DEF NextFrame
  <2>2. Payload(b) = SubSeq(b, HeaderSize + 1, HeaderSize + l) BY <2>1 DEF Payload, NextFrame
  <2>3. /\ HeaderSize + 1 \in Nat \ {0} /\ HeaderSize + l \in Nat /\ HeaderSize + l <= Len(b)
        /\ HeaderSize + 1 <= HeaderSize + l /\ HeaderSize + 1 \in 1..Len(b)
    BY <1>1, <1>3, <1>6, <2>1
  <2>4. PICK i \in Nat \ {0}, j \in Nat : i = HeaderSize + 1 /\ j = HeaderSize + l BY <2>3
  <2>10. j <= Len(b) /\ i <= j BY <2>3, <2>4
  <2>5. /\ Len(SubSeq(b, i, j)) = IF i <= j THEN j - i + 1 ELSE 0
        /\ \A n \in 1..Len(SubSeq(b, i, j)) : SubSeq(b, i, j)[n] = b[i + n - 1]
    BY <2>10, PartOfBuffer
  <2>8. Payload(b) = SubSeq(b, i, j) BY <2>2, <2>4
  <2>9. 1 \in 1..Len(SubSeq(b, i, j)) /\ i + 1 - 1 = HeaderSize + 1 BY <1>1, <2>1, <2>4, <2>5, <2>10
  <2>6. Payload(b)[1] = b[HeaderSize + 1] BY <2>5, <2>8, <2>9
  <2>7. ~Hurt(Payload(b)[1]) BY <1>2, <2>3, <2>6
  <2> QED BY <2>7 DEF Identified
<1> QED BY <1>4, <1>5, <1>6

\* The branches of DecodeStep; frames of the encoder are neither too long nor
\* out of range.
LEMMA StepCases ==
  ASSUME NEW p \in Plans, NEW ok \in BOOLEAN, NEW d, DecoderInv(p, ok, d)
  PROVE  \/ Waiting(d.buffer) /\ DecodeStep(d) = [d EXCEPT !.done = TRUE]
         \/ Stuck(d.buffer) /\ DecodeStep(d) = Throw(d)
         \/ /\ Complete(d.buffer) /\ Len(d.buffer) >= HeaderSize
            /\ \/ /\ CrcMismatch(NextFrame(d.buffer), Payload(d.buffer))
                  /\ DecodeStep(d) = Erased(d, NextFrame(d.buffer))
               \/ /\ ~CrcMismatch(NextFrame(d.buffer), Payload(d.buffer))
                  /\ IsStreamFrame(NextFrame(d.buffer))
                  /\ DecodeStep(d) = WithStreamEvent(d, NextFrame(d.buffer), Payload(d.buffer))
               \/ /\ ~CrcMismatch(NextFrame(d.buffer), Payload(d.buffer))
                  /\ IsMessageFrame(p, NextFrame(d.buffer))
                  /\ DecodeStep(d) = WithMessage(d, NextFrame(d.buffer), Payload(d.buffer))
<1> DEFINE b == d.buffer
           f == NextFrame(b)
           bytes == Payload(b)
<1>1. b \in Seq(WireBytes(p, ok)) BY RecordFields DEF DecoderInv, FieldsInv
<1>2. HeaderSize \in Nat \ {0} /\ MaxFramePayload \in Nat BY SizesAssumption
<1>3. Len(b) \in Nat BY <1>1
<1>0. Len(b) >= HeaderSize =>
        /\ Header(b) = f /\ (b[1].k = 1 => ~b[1].bad)
        /\ Len(b) >= HeaderSize + f.payload_len => Identified(f, bytes) = f
  BY <1>1, NothingHurt
<1>4. DecodeStep(d) =
        IF Len(b) < HeaderSize THEN [d EXCEPT !.done = TRUE]
        ELSE IF b[1].k # 1 \/ f.payload_len > MaxFramePayload THEN Throw(d)
        ELSE IF Len(b) < HeaderSize + f.payload_len THEN [d EXCEPT !.done = TRUE]
        ELSE IF CrcMismatch(f, bytes) THEN Erased(d, f)
        ELSE IF f.type # "Message" THEN WithStreamEvent(d, f, bytes)
        ELSE IF f.sequence >= f.total_slices THEN Throw(d)
        ELSE WithMessage(d, f, bytes)
  <2>1. CASE Len(b) < HeaderSize BY <2>1 DEF DecodeStep
  <2>2. CASE ~(Len(b) < HeaderSize)
    <3>1. Len(b) >= HeaderSize BY <2>2, <1>2, <1>3
    <3>2. PICK h : h = f OBVIOUS
    <3>3. Header(b) = h /\ (b[1].k = 1 => ~b[1].bad) BY <1>0, <3>1, <3>2
    <3>4. PICK y : y = bytes OBVIOUS
    <3>5. SubSeq(b, HeaderSize + 1, HeaderSize + h.payload_len) = y
      BY <3>2, <3>4 DEF Payload, NextFrame
    <3>6. h.payload_len \in Nat
      <4>1. h.payload_len \in 1..MaxFramePayload BY <1>1, <3>1, <3>2, FrontByte DEF NextFrame
      <4> QED BY <4>1, <1>2
    <3>7. ~(Len(b) < HeaderSize + h.payload_len) => Identified(h, y) = h
      BY <1>0, <1>2, <1>3, <3>1, <3>2, <3>4, <3>6
    <3> HIDE DEF f, bytes
    <3> QED BY <2>2, <3>2, <3>3, <3>4, <3>5, <3>7, Zenon DEF DecodeStep
  <2> QED BY <2>1, <2>2
<1>5. CASE Len(b) < HeaderSize BY <1>4, <1>5 DEF Waiting
<1>6. CASE Len(b) >= HeaderSize
  <2>1. f.payload_len \in 1..MaxFramePayload /\ (IsMessageFrame(p, f) \/ IsStreamFrame(f))
    BY <1>1, <1>6, FrontByte DEF NextFrame
  <2>2. ~(Len(b) < HeaderSize) /\ ~(f.payload_len > MaxFramePayload)
    BY <1>2, <1>3, <1>6, <2>1
  <2>3. CASE b[1].k # 1 BY <1>4, <1>6, <2>2, <2>3 DEF Stuck
  <2>4. CASE b[1].k = 1
    <3>1. CASE Len(b) < HeaderSize + f.payload_len
      BY <1>4, <2>2, <2>4, <3>1 DEF Waiting, NextFrame
    <3>2. CASE ~(Len(b) < HeaderSize + f.payload_len)
      <4>1. Complete(b)
        <5>1. Len(b) >= HeaderSize + f.payload_len BY <1>2, <1>3, <2>1, <3>2
        <5> QED BY <5>1, <2>4 DEF Complete, NextFrame
      <4>2. CASE CrcMismatch(f, bytes) BY <1>4, <1>6, <2>2, <2>4, <3>2, <4>1, <4>2
      <4>3. CASE ~CrcMismatch(f, bytes) /\ IsStreamFrame(f)
        <5>1. f.type # "Message" BY <4>3, StreamFrameShape
        <5> QED BY <1>4, <1>6, <2>2, <2>4, <3>2, <4>1, <4>3, <5>1
      <4>4. CASE ~CrcMismatch(f, bytes) /\ IsMessageFrame(p, f)
        <5>1. PICK m \in MsgIds : IsSent(p, m) /\ \E n \in 1..Total(p, m) : f = FrameOf(p, m, n)
          BY <4>4 DEF IsMessageFrame
        <5>2. PICK n \in 1..Total(p, m) : f = FrameOf(p, m, n) BY <5>1
        <5>3. /\ f.type = "Message" /\ f.sequence = n - 1 /\ f.total_slices = Total(p, m)
              /\ Total(p, m) \in Nat
          BY <5>1, <5>2, MessageFrameShape
        <5>4. ~(f.sequence >= f.total_slices) BY <5>3
        <5> QED BY <1>4, <1>6, <2>2, <2>4, <3>2, <4>1, <4>4, <5>3, <5>4
      <4> QED BY <2>1, <4>2, <4>3, <4>4
    <3> QED BY <3>1, <3>2
  <2> QED BY <2>3, <2>4
<1> QED BY <1>2, <1>3, <1>5, <1>6

\* The frame that has been read is taken out of the buffer.
LEMMA ErasedFields ==
  ASSUME NEW b, NEW ms, NEW c, NEW e, NEW n, NEW done, NEW fails,
         NEW d, d = Record(b, ms, c, e, n, done, fails)
  PROVE  Erased(d, NextFrame(b)) = Record(Behind(b), ms, c, e, n + 1, done, fails)
<1>1. PICK r : r = Erased(d, NextFrame(b)) OBVIOUS
<1>2. d.buffer = b /\ d.frames = n BY RecordFields
<1>3. PICK x : x = Behind(b) OBVIOUS
<1>4. PICK y : y = n + 1 OBVIOUS
<1>5. r = [d EXCEPT !.buffer = x, !.frames = y]
  BY <1>1, <1>2, <1>3, <1>4, Zenon DEF Erased, Behind, NextFrame
<1>6. r = Record(x, ms, c, e, y, done, fails)
  <2>1. r = Record(r.buffer, r.messages, r.completed, r.stream_events, r.frames, r.done, r.failed)
    BY <1>5 DEF Record
  <2>2. /\ r.buffer = x /\ r.messages = ms /\ r.completed = c /\ r.stream_events = e
        /\ r.frames = y /\ r.done = done /\ r.failed = fails
    BY <1>5 DEF Record
  <2> QED BY <2>1, <2>2
<1> QED BY <1>1, <1>3, <1>4, <1>6

LEMMA BehindFront ==
  ASSUME NEW p \in Plans, NEW ok \in BOOLEAN, NEW b \in Seq(WireBytes(p, ok)),
         Len(b) >= HeaderSize, Complete(b)
  PROVE  /\ Behind(b) \in Seq(WireBytes(p, ok))
         /\ Len(Behind(b)) = Len(b) - (HeaderSize + NextFrame(b).payload_len)
         /\ \A j \in 1..Len(Behind(b)) : Behind(b)[j] = b[HeaderSize + NextFrame(b).payload_len + j]
         /\ Payload(b) \in Seq(WireBytes(p, ok))
         /\ NextFrame(b).payload_len \in 1..MaxFramePayload
         /\ IsMessageFrame(p, NextFrame(b)) \/ IsStreamFrame(NextFrame(b))
<1> DEFINE l == NextFrame(b).payload_len
           i == HeaderSize + l + 1
<1>1. HeaderSize \in Nat \ {0} /\ MaxFramePayload \in Nat BY SizesAssumption
<1>2. /\ l \in 1..MaxFramePayload
      /\ IsMessageFrame(p, NextFrame(b)) \/ IsStreamFrame(NextFrame(b))
  BY FrontByte DEF NextFrame
<1>3. Len(b) >= HeaderSize + l BY DEF Complete, NextFrame
<1>4. Behind(b) = SubSeq(b, i, Len(b)) /\ Payload(b) = SubSeq(b, HeaderSize + 1, HeaderSize + l)
  BY DEF Behind, Payload, NextFrame
<1> HIDE DEF l
<1>5. i \in Nat \ {0} /\ Len(b) \in Nat /\ Len(b) <= Len(b) /\ i <= Len(b) + 1
  BY <1>1, <1>2, <1>3
<1>6. /\ SubSeq(b, i, Len(b)) \in Seq(WireBytes(p, ok))
      /\ Len(SubSeq(b, i, Len(b))) = IF i <= Len(b) THEN Len(b) - i + 1 ELSE 0
      /\ \A j \in 1..Len(SubSeq(b, i, Len(b))) : SubSeq(b, i, Len(b))[j] = b[i + j - 1]
  BY <1>5, PartOfBuffer
<1>7. Len(SubSeq(b, i, Len(b))) = Len(b) - (HeaderSize + l)
  BY <1>1, <1>2, <1>5, <1>6
<1>8. \A j \in 1..Len(SubSeq(b, i, Len(b))) : i + j - 1 = HeaderSize + l + j
  BY <1>1, <1>2, <1>5, <1>7
<1>9. SubSeq(b, HeaderSize + 1, HeaderSize + l) \in Seq(WireBytes(p, ok))
  BY <1>1, <1>2, <1>3, PartOfBuffer
<1> QED BY <1>2, <1>4, <1>6, <1>7, <1>8, <1>9 DEF l

\* Without a fault no byte is damaged.
LEMMA NoDamage ==
  ASSUME NEW p, NEW bytes \in Seq(WireBytes(p, TRUE))
  PROVE  ~Damaged(bytes)
<1> SUFFICES ASSUME NEW i \in DOMAIN bytes, bytes[i].bad PROVE FALSE BY DEF Damaged
<1> DEFINE V == WireBytes(p, TRUE)
<1>1. \A v \in V : ~v.bad BY DEF WireBytes
<1>0. bytes \in Seq(V) OBVIOUS
<1> HIDE DEF V
<1>2. bytes[i] \in V
  <2>1. DOMAIN bytes = 1..Len(bytes) BY <1>0
  <2>2. \A j \in 1..Len(bytes) : bytes[j] \in V BY <1>0, ElementOfSeq
  <2> QED BY <2>1, <2>2
<1> QED BY <1>1, <1>2

\* The payload is what was sent or, damaged, of the same length.
LEMMA ReceivedData ==
  ASSUME NEW f, NEW bytes, f.data \in Seq(Data), f.id \in MsgIds \cup StreamIds
  PROVE  /\ Received(f, bytes) \in Seq(Data)
         /\ Len(Received(f, bytes)) = Len(f.data)
         /\ ~Damaged(bytes) => Received(f, bytes) = f.data
<1>1. CASE ~Damaged(bytes) BY <1>1 DEF Received
<1>2. CASE Damaged(bytes)
  <2>1. Received(f, bytes) = [i \in 1..Len(f.data) |-> <<f.id, 0>>] BY <1>2 DEF Received
  <2>2. <<f.id, 0>> \in Data BY DEF Data
  <2>3. Len(f.data) \in Nat OBVIOUS
  <2>4. PICK n \in Nat, v \in Data : n = Len(f.data) /\ v = <<f.id, 0>> BY <2>2, <2>3
  <2>5. [i \in 1..n |-> v] \in Seq(Data) /\ Len([i \in 1..n |-> v]) = n OBVIOUS
  <2>6. Received(f, bytes) = [i \in 1..n |-> v] BY <2>1, <2>4
  <2> QED BY <2>4, <2>5, <2>6, <1>2
<1> QED BY <1>1, <1>2

\* The assembly that a slice goes to: the one that is there or a new one.
LEMMA AssemblyFor ==
  ASSUME NEW p \in Plans, NEW ok \in BOOLEAN, NEW m \in MsgIds, IsSent(p, m), NEW d, NEW f,
         AssembliesInv(p, ok, d.messages), f.id = m, f.total_slices = Total(p, m),
         Total(p, m) \in Nat \ {0}
  PROVE  IsPartial(p, ok, m, Assembly(d, f))
<1>1. CASE m \in DOMAIN d.messages
  <2>1. Assembly(d, f) = d.messages[m] BY <1>1 DEF Assembly
  <2> QED BY <1>1, <2>1 DEF AssembliesInv
<1>2. CASE m \notin DOMAIN d.messages
  <2> DEFINE a == Assembly(d, f)
             T == Total(p, m)
  <2>1. a = [slices |-> [i \in 1..T |-> <<>>], received |-> 0, first_seen |-> d.frames]
    BY <1>2 DEF Assembly
  <2>2. a.slices = [i \in 1..T |-> <<>>] /\ a.received = 0 /\ a.first_seen = d.frames BY <2>1
  <2>3. <<>> \in Seq(Data) OBVIOUS
  <2>4. a.slices \in [1..T -> Seq(Data)] BY <2>2, <2>3
  <2>5. Cardinality(Filled(a.slices)) = 0
    <3>1. Filled(a.slices) = {} BY <2>2 DEF Filled
    <3> QED BY <3>1, FS_EmptySet
  <2>6. \A n \in 1..T : a.slices[n] = <<>> BY <2>2
  <2>7. IsAssembly(p, ok, m, a)
    <3>1. a = [slices |-> a.slices, received |-> a.received, first_seen |-> a.first_seen]
      BY <2>1, <2>2
    <3> HIDE DEF a, T
    <3> QED BY <3>1, <2>2, <2>4, <2>5, <2>6 DEF IsAssembly, T
  <2>8. a.received # T BY <2>2
  <2> QED BY <2>7, <2>8 DEF IsPartial
<1> QED BY <1>1, <1>2

\* The slots of an assembly can be counted.
LEMMA FilledFinite ==
  ASSUME NEW T \in Nat, NEW V, NEW slices \in [1..T -> V]
  PROVE  /\ IsFiniteSet(Filled(slices))
         /\ Cardinality(Filled(slices)) \in Nat
         /\ Cardinality(Filled(slices)) <= T
         /\ Cardinality(Filled(slices)) = T => Filled(slices) = 1..T
<1>1. Filled(slices) \subseteq 1..T BY DEF Filled
<1>2. IsFiniteSet(1..T) /\ Cardinality(1..T) = T BY FS_Interval
<1>3. /\ IsFiniteSet(Filled(slices)) /\ Cardinality(Filled(slices)) <= T
      /\ Cardinality(Filled(slices)) = T => Filled(slices) = 1..T
  BY <1>1, <1>2, FS_Subset
<1> QED BY <1>3, FS_CardinalityType

\* A slice that is stored fills its slot and is counted once.
LEMMA StoredSlice ==
  ASSUME NEW p \in Plans, NEW ok \in BOOLEAN, NEW m \in MsgIds, NEW a, IsAssembly(p, ok, m, a),
         Total(p, m) \in Nat, NEW n \in 1..Total(p, m), NEW f, f.sequence = n - 1,
         NEW data \in Seq(Data), Len(data) > 0,
         Trusted(p, ok, m) => data = SliceOf(p, m, n)
  PROVE  /\ IsAssembly(p, ok, m, Store(a, f, data))
         /\ Store(a, f, data).slices = IF a.slices[n] = <<>> THEN [a.slices EXCEPT ![n] = data]
                                                             ELSE a.slices
         /\ Store(a, f, data).received = IF a.slices[n] = <<>> THEN a.received + 1 ELSE a.received
<1> DEFINE T == Total(p, m)
           g == Store(a, f, data)
<1>1. f.sequence + 1 = n BY Zenon, SMT
<1>2. /\ a = [slices |-> a.slices, received |-> a.received, first_seen |-> a.first_seen]
      /\ a.slices \in [1..T -> Seq(Data)]
      /\ a.received = Cardinality(Filled(a.slices))
  BY DEF IsAssembly
<1>0. n \in DOMAIN a.slices BY <1>2
<1>3. CASE a.slices[n] # <<>>
  <2>1. g = a BY <1>1, <1>3 DEF Store
  <2> QED BY <2>1, <1>3
<1>4. CASE a.slices[n] = <<>>
  <2>1. g = [a EXCEPT !.slices[n] = data, !.received = @ + 1] BY <1>0, <1>1, <1>4 DEF Store
  <2>2. PICK sl, r, fs : sl = a.slices /\ r = a.received /\ fs = a.first_seen OBVIOUS
  <2>3. a = [slices |-> sl, received |-> r, first_seen |-> fs] BY <1>2, <2>2, Zenon
  <2>4. PICK h : h = [sl EXCEPT ![n] = data] OBVIOUS
  <2>5. PICK k : k = r + 1 OBVIOUS
  <2>6. g.slices = h /\ g.received = k /\ g.first_seen = fs BY <2>1, <2>3, <2>4, <2>5
  <2>7. g = [slices |-> g.slices, received |-> g.received, first_seen |-> g.first_seen]
    BY <2>1, <2>3
  <2>8. h \in [1..T -> Seq(Data)] /\ \A i \in 1..T : h[i] = IF i = n THEN data ELSE sl[i]
    BY <1>2, <2>2, <2>4
  <2>9. k = Cardinality(Filled(h))
    <3>1. data # <<>> OBVIOUS
    <3>2. n \notin Filled(sl) BY <1>4, <2>2 DEF Filled
    <3>3. Filled(h) = Filled(sl) \cup {n}
      <4>1. DOMAIN h = 1..T /\ DOMAIN sl = 1..T BY <1>2, <2>2, <2>8
      <4> QED BY <4>1, <2>8, <3>1 DEF Filled
    <3>4. IsFiniteSet(Filled(sl)) BY <1>2, <2>2, FilledFinite
    <3>5. Cardinality(Filled(sl) \cup {n}) = Cardinality(Filled(sl)) + 1
      BY <3>2, <3>4, FS_AddElement
    <3> QED BY <3>3, <3>5, <2>2, <2>5, <1>2
  <2>10. ASSUME Trusted(p, ok, m) PROVE \A i \in 1..T : h[i] \in {<<>>, SliceOf(p, m, i)}
    <3>1. \A i \in 1..T : sl[i] \in {<<>>, SliceOf(p, m, i)} BY <2>10, <2>2 DEF IsAssembly
    <3>2. data = SliceOf(p, m, n) BY <2>10
    <3> QED BY <3>1, <3>2, <2>8
  <2> HIDE DEF g
  <2>11. IsAssembly(p, ok, m, g) BY <2>6, <2>7, <2>8, <2>9, <2>10, Zenon DEF IsAssembly, T
  <2> QED BY <2>2, <2>4, <2>5, <2>6, <2>11, <1>4 DEF g
<1> QED BY <1>3, <1>4

\* A message whose slots are all filled is the message sent.
LEMMA FullAssembly ==
  ASSUME NEW p \in Plans, NEW ok \in BOOLEAN, NEW m \in MsgIds, IsSent(p, m), NEW a,
         IsAssembly(p, ok, m, a), Total(p, m) \in Nat, a.received = Total(p, m), NEW c,
         c = [id |-> m, data |-> FlattenSeq(a.slices)]
  PROVE  c \in Messages(p, ok)
<1> DEFINE T == Total(p, m)
<1>1. a.slices \in [1..T -> Seq(Data)] /\ a.received = Cardinality(Filled(a.slices))
  BY DEF IsAssembly
<1>2. Filled(a.slices) = 1..T BY <1>1, FilledFinite
<1>3. c.id = m /\ c.data = FlattenSeq(a.slices) OBVIOUS
<1>4. c \in [id : MsgIds, data : {FlattenSeq(slices) : slices \in Seq(Seq(Data))}]
  <2>1. PICK sl : sl = a.slices OBVIOUS
  <2>2. sl \in Seq(Seq(Data)) BY <1>1, <2>1
  <2>3. FlattenSeq(sl) \in {FlattenSeq(slices) : slices \in Seq(Seq(Data))} BY <2>2
  <2> QED BY <2>1, <2>3
<1>5. ASSUME Trusted(p, ok, m), Fits(p[m].length, p[m].crc)
      PROVE  c.data = Bytes(m, p[m].length)
  <2>1. \A n \in 1..T : a.slices[n] \in {<<>>, SliceOf(p, m, n)} BY <1>5 DEF IsAssembly
  <2>2. \A n \in 1..T : a.slices[n] # <<>> BY <1>2 DEF Filled
  <2>3. a.slices = [n \in 1..T |-> SliceOf(p, m, n)] BY <1>1, <2>1, <2>2
  <2>4. p[m].length \in Nat /\ p[m].crc \in BOOLEAN BY SizesAssumption DEF Plans
  <2>5. ~Refused(p[m].length, p[m].crc) BY DEF IsSent
  <2>6. PICK sl : sl = a.slices OBVIOUS
  <2>7. sl = [n \in 1..TotalSlices(p[m].length, p[m].crc) |-> Slice(m, n, p[m].length, p[m].crc)]
    BY <2>3, <2>6, Zenon DEF SliceOf, Total
  <2>8. FlattenSeq(sl) = Bytes(m, p[m].length) BY <2>4, <2>5, <2>7, <1>5, SlicesJoin
  <2> QED BY <2>6, <2>8, <1>3
<1> QED BY <1>3, <1>4, <1>5 DEF Messages

\* A frame of a stream becomes an event.
LEMMA StreamRound ==
  ASSUME NEW b, NEW ms, NEW c, NEW e, NEW n, NEW done, NEW fails,
         NEW d, d = Record(b, ms, c, e, n, done, fails), NEW bytes
  PROVE  WithStreamEvent(d, NextFrame(b), bytes) =
           Record(Behind(b), ms, c,
                  Append(e, [type |-> NextFrame(b).type, id |-> NextFrame(b).id,
                             offset |-> NextFrame(b).sequence, data |-> Received(NextFrame(b), bytes)]),
                  n + 1, done, fails)
<1>1. PICK h : h = Erased(d, NextFrame(b)) OBVIOUS
<1>2. PICK b1, n1 : b1 = Behind(b) /\ n1 = n + 1 OBVIOUS
<1>3. h = Record(b1, ms, c, e, n1, done, fails) BY <1>1, <1>2, ErasedFields
<1>4. h.stream_events = e BY <1>3 DEF Record
<1>5. PICK e1 : e1 = Append(e, [type |-> NextFrame(b).type, id |-> NextFrame(b).id,
                                offset |-> NextFrame(b).sequence, data |-> Received(NextFrame(b), bytes)])
  OBVIOUS
<1>6. WithStreamEvent(d, NextFrame(b), bytes) = [h EXCEPT !.stream_events = e1]
  BY <1>1, <1>4, <1>5, Zenon DEF WithStreamEvent
<1>7. [h EXCEPT !.stream_events = e1] = Record(b1, ms, c, e1, n1, done, fails)
  BY <1>3 DEF Record
<1> QED BY <1>2, <1>5, <1>6, <1>7

\* A slice of a message goes to its assembly, which is then delivered or kept.
Removed(ms, m) == [i \in DOMAIN ms \ {m} |-> ms[i]]
Kept(ms, m, a) == [i \in DOMAIN ms \cup {m} |-> IF i = m THEN a ELSE ms[i]]

StoredIn(d, b, bytes) == Store(Assembly(d, NextFrame(b)), NextFrame(b), Received(NextFrame(b), bytes))

AfterSlice(b, ms, c, e, n, done, fails, a) ==
  IF a.received = Len(a.slices)
  THEN Record(Behind(b), Removed(ms, NextFrame(b).id),
              Append(c, [id |-> NextFrame(b).id, data |-> FlattenSeq(a.slices)]),
              e, n + 1, done, fails)
  ELSE Record(Behind(b), Kept(ms, NextFrame(b).id, a), c, e, n + 1, done, fails)

LEMMA MessageRound ==
  ASSUME NEW b, NEW ms, NEW c, NEW e, NEW n, NEW done, NEW fails,
         NEW d, d = Record(b, ms, c, e, n, done, fails), NEW bytes
  PROVE  WithMessage(d, NextFrame(b), bytes) =
           AfterSlice(b, ms, c, e, n, done, fails, StoredIn(d, b, bytes))
<1>0. PICK a : a = StoredIn(d, b, bytes) OBVIOUS
<1>1. PICK h : h = Erased(d, NextFrame(b)) OBVIOUS
<1>2. PICK b1, n1 : b1 = Behind(b) /\ n1 = n + 1 OBVIOUS
<1>3. h = Record(b1, ms, c, e, n1, done, fails) BY <1>1, <1>2, ErasedFields
<1>4. h.completed = c /\ h.messages = ms BY <1>3 DEF Record
<1>5. CASE a.received = Len(a.slices)
  <2>1. PICK x : x = Append(c, [id |-> NextFrame(b).id, data |-> FlattenSeq(a.slices)]) OBVIOUS
  <2>2. PICK y : y = Removed(ms, NextFrame(b).id) OBVIOUS
  <2>3. PICK r : r = WithMessage(d, NextFrame(b), bytes) OBVIOUS
  <2>4. r = [h EXCEPT !.completed = x, !.messages = y]
    BY <1>1, <1>4, <1>5, <2>1, <2>2, <2>3, <1>0, Zenon DEF WithMessage, Removed, StoredIn
  <2>5. r = Record(r.buffer, r.messages, r.completed, r.stream_events, r.frames, r.done, r.failed)
    BY <1>3, <2>4 DEF Record
  <2>6. /\ r.buffer = b1 /\ r.messages = y /\ r.completed = x /\ r.stream_events = e
        /\ r.frames = n1 /\ r.done = done /\ r.failed = fails
    BY <1>3, <2>4 DEF Record
  <2>7. r = Record(b1, y, x, e, n1, done, fails) BY <2>5, <2>6
  <2> QED BY <1>0, <1>2, <1>5, <2>1, <2>2, <2>3, <2>7 DEF AfterSlice
<1>6. CASE ~(a.received = Len(a.slices))
  <2>1. PICK y : y = Kept(ms, NextFrame(b).id, a) OBVIOUS
  <2>2. WithMessage(d, NextFrame(b), bytes) = [h EXCEPT !.messages = y]
    BY <1>1, <1>4, <1>6, <2>1, <1>0, Zenon DEF WithMessage, Kept, StoredIn
  <2>3. [h EXCEPT !.messages = y] = Record(b1, y, c, e, n1, done, fails)
    BY <1>3 DEF Record
  <2> QED BY <1>0, <1>2, <1>6, <2>1, <2>2, <2>3 DEF AfterSlice
<1> QED BY <1>5, <1>6

-----------------------------------------------------------------------------
(* What one round does, in terms of the fields. *)

FilledSlots(ms, m) == IF m \in DOMAIN ms THEN Filled(ms[m].slices) ELSE {}

EventRound(ok, b, ms, c, e, n, r) ==
  /\ IsStreamFrame(NextFrame(b))
  /\ \E x \in EventSet : /\ x.id = NextFrame(b).id
                         /\ ok => x = EventOf(NextFrame(b))
                         /\ r = Record(Behind(b), ms, c, Append(e, x), n + 1, FALSE, FALSE)

SliceRound(p, ok, b, ms, c, e, n, r) ==
  \E m \in MsgIds : IsSent(p, m) /\ \E k \in 1..Total(p, m) : \E a :
    /\ NextFrame(b) = FrameOf(p, m, k)
    /\ IsAssembly(p, ok, m, a)
    /\ Filled(a.slices) = FilledSlots(ms, m) \cup {k}
    /\ \/ /\ a.received = Total(p, m)
          /\ \E x \in Messages(p, ok) :
               /\ x.id = m
               /\ r = Record(Behind(b), Removed(ms, m), Append(c, x), e, n + 1, FALSE, FALSE)
       \/ /\ a.received # Total(p, m)
          /\ r = Record(Behind(b), Kept(ms, m, a), c, e, n + 1, FALSE, FALSE)

RoundCases(p, ok, b, ms, c, e, n, r) ==
  \/ Waiting(b) /\ r = Record(b, ms, c, e, n, TRUE, FALSE)
  \/ Stuck(b) /\ r = Record(b, ms, c, e, n, TRUE, TRUE)
  \/ /\ Complete(b) /\ Len(b) >= HeaderSize
     /\ \/ ~ok /\ r = Record(Behind(b), ms, c, e, n + 1, FALSE, FALSE)
        \/ EventRound(ok, b, ms, c, e, n, r)
        \/ SliceRound(p, ok, b, ms, c, e, n, r)

LEMMA SliceCase ==
  ASSUME NEW p \in Plans, NEW ok \in BOOLEAN, NEW b, NEW ms, NEW c, NEW e, NEW n,
         FieldsInv(p, ok, b, ms, c, e, n, FALSE, FALSE),
         NEW d, d = Record(b, ms, c, e, n, FALSE, FALSE),
         Complete(b), Len(b) >= HeaderSize, IsMessageFrame(p, NextFrame(b)),
         ~CrcMismatch(NextFrame(b), Payload(b))
  PROVE  SliceRound(p, ok, b, ms, c, e, n, WithMessage(d, NextFrame(b), Payload(b)))
<1> DEFINE f == NextFrame(b)
           bytes == Payload(b)
<1>1. PICK m \in MsgIds : IsSent(p, m) /\ \E k \in 1..Total(p, m) : f = FrameOf(p, m, k)
  BY DEF IsMessageFrame
<1>2. PICK k \in 1..Total(p, m) : f = FrameOf(p, m, k) BY <1>1
<1>3. /\ f = [type |-> "Message", id |-> m, total_slices |-> Total(p, m), sequence |-> k - 1,
              data |-> SliceOf(p, m, k), flags |-> p[m].crc, sealed |-> p[m].crc,
                 payload_len |-> f.payload_len]
      /\ Total(p, m) \in Nat \ {0}
      /\ p[m].crc => f.payload_len >= CrcSize
      /\ SliceOf(p, m, k) \in Seq(Data)
      /\ Len(SliceOf(p, m, k)) > 0
  BY <1>1, <1>2, MessageFrameShape
<1>4. /\ f.id = m /\ f.total_slices = Total(p, m) /\ f.sequence = k - 1
      /\ f.data = SliceOf(p, m, k) /\ f.flags = p[m].crc
  <2> HIDE DEF f
  <2>1. PICK l : l = f.payload_len OBVIOUS
  <2>2. f = [type |-> "Message", id |-> m, total_slices |-> Total(p, m), sequence |-> k - 1,
             data |-> SliceOf(p, m, k), flags |-> p[m].crc, sealed |-> p[m].crc, payload_len |-> l]
    BY <1>3, <2>1, Zenon
  <2> QED BY <2>2
<1>5. b \in Seq(WireBytes(p, ok)) /\ AssembliesInv(p, ok, ms) BY DEF FieldsInv
<1>6. bytes \in Seq(WireBytes(p, ok)) BY <1>5, BehindFront
<1> DEFINE data == Received(f, bytes)
<1>7. data \in Seq(Data) /\ Len(data) > 0 /\ (~Damaged(bytes) => data = SliceOf(p, m, k))
  BY <1>3, <1>4, ReceivedData
<1>8. Trusted(p, ok, m) => ~Damaged(bytes)
  <2>1. CASE p[m].crc BY <2>1, <1>3, <1>4 DEF CrcMismatch
  <2>2. CASE ok
    <3>1. ok = TRUE BY <2>2
    <3> QED BY <3>1, <1>6, NoDamage
  <2> QED BY <2>1, <2>2 DEF Trusted
<1> DEFINE a0 == Assembly(d, f)
           a == Store(a0, f, data)
<1>9. d.messages = ms BY DEF Record
<1>10. IsPartial(p, ok, m, a0)
  <2>1. AssembliesInv(p, ok, d.messages) BY <1>5, <1>9
  <2> QED BY <2>1, <1>1, <1>3, <1>4, AssemblyFor
<1>11. Filled(a0.slices) = FilledSlots(ms, m)
  <2>1. CASE m \in DOMAIN ms
    <3>1. a0 = ms[m] BY <2>1, <1>4, <1>9 DEF Assembly
    <3> QED BY <2>1, <3>1 DEF FilledSlots
  <2>2. CASE m \notin DOMAIN ms
    <3>1. a0.slices = [i \in 1..Total(p, m) |-> <<>>] BY <2>2, <1>4, <1>9 DEF Assembly
    <3>2. Filled(a0.slices) = {} BY <3>1 DEF Filled
    <3> QED BY <2>2, <3>2 DEF FilledSlots
  <2> QED BY <2>1, <2>2
<1> HIDE DEF a0, data, f, bytes
<1>12. /\ IsAssembly(p, ok, m, a)
       /\ a.slices = IF a0.slices[k] = <<>> THEN [a0.slices EXCEPT ![k] = data] ELSE a0.slices
  <2>1. IsAssembly(p, ok, m, a0) BY <1>10 DEF IsPartial
  <2> QED BY <2>1, <1>1, <1>3, <1>4, <1>7, <1>8, StoredSlice
<1>13. a0.slices \in [1..Total(p, m) -> Seq(Data)] BY <1>10 DEF IsPartial, IsAssembly
<1> HIDE DEF a
<1>14. Filled(a.slices) = FilledSlots(ms, m) \cup {k}
  <2>1. data # <<>> BY <1>7
  <2>2. CASE a0.slices[k] = <<>>
    <3>1. /\ DOMAIN a.slices = 1..Total(p, m) /\ DOMAIN a0.slices = 1..Total(p, m)
          /\ \A i \in 1..Total(p, m) : a.slices[i] = IF i = k THEN data ELSE a0.slices[i]
      BY <1>12, <1>13, <2>2
    <3> QED BY <3>1, <2>1, <1>11 DEF Filled
  <2>3. CASE a0.slices[k] # <<>>
    <3>1. a.slices = a0.slices /\ k \in Filled(a0.slices) BY <1>12, <1>13, <2>3 DEF Filled
    <3> QED BY <3>1, <1>11
  <2> QED BY <2>2, <2>3
<1>15. Len(a.slices) = Total(p, m) BY <1>3, <1>12 DEF IsAssembly
<1>16. PICK r : r = WithMessage(d, NextFrame(b), Payload(b)) OBVIOUS
<1>17. r = IF a.received = Total(p, m)
           THEN Record(Behind(b), Removed(ms, m), Append(c, [id |-> m, data |-> FlattenSeq(a.slices)]),
                       e, n + 1, FALSE, FALSE)
           ELSE Record(Behind(b), Kept(ms, m, a), c, e, n + 1, FALSE, FALSE)
  <2>1. PICK v : v = a OBVIOUS
  <2>2. v = StoredIn(d, b, Payload(b)) BY <2>1, Zenon DEF a, a0, data, f, bytes, StoredIn
  <2>3. r = AfterSlice(b, ms, c, e, n, FALSE, FALSE, v)
    <3>1. PICK o, y : o = FALSE /\ y = Payload(b) OBVIOUS
    <3>2. d = Record(b, ms, c, e, n, o, o) BY <3>1
    <3>3. WithMessage(d, NextFrame(b), y) = AfterSlice(b, ms, c, e, n, o, o, StoredIn(d, b, y))
      BY ONLY <3>2, MessageRound
    <3> QED BY <3>1, <3>3, <1>16, <2>2
  <2>4. NextFrame(b).id = m BY <1>4 DEF f
  <2> QED BY <2>1, <2>3, <2>4, <1>15 DEF AfterSlice
<1>18. CASE a.received = Total(p, m)
  <2>1. PICK x : x = [id |-> m, data |-> FlattenSeq(a.slices)] OBVIOUS
  <2>2. x \in Messages(p, ok) /\ x.id = m BY <2>1, <1>1, <1>3, <1>12, <1>18, FullAssembly
  <2>3. r = Record(Behind(b), Removed(ms, m), Append(c, x), e, n + 1, FALSE, FALSE)
    BY <2>1, <1>17, <1>18
  <2> QED BY <2>2, <2>3, <1>1, <1>2, <1>12, <1>14, <1>16, <1>18 DEF SliceRound, f
<1>19. CASE a.received # Total(p, m)
  <2>1. r = Record(Behind(b), Kept(ms, m, a), c, e, n + 1, FALSE, FALSE) BY <1>17, <1>19
  <2> QED BY <2>1, <1>1, <1>2, <1>12, <1>14, <1>16, <1>19 DEF SliceRound, f
<1> QED BY <1>18, <1>19

LEMMA EventCase ==
  ASSUME NEW p \in Plans, NEW ok \in BOOLEAN, NEW b, NEW ms, NEW c, NEW e, NEW n,
         FieldsInv(p, ok, b, ms, c, e, n, FALSE, FALSE),
         NEW d, d = Record(b, ms, c, e, n, FALSE, FALSE),
         Complete(b), Len(b) >= HeaderSize, IsStreamFrame(NextFrame(b))
  PROVE  EventRound(ok, b, ms, c, e, n, WithStreamEvent(d, NextFrame(b), Payload(b)))
<1>1. PICK f, bytes, o : f = NextFrame(b) /\ bytes = Payload(b) /\ o = FALSE OBVIOUS
<1>2. d = Record(b, ms, c, e, n, o, o) BY <1>1
<1>3. PICK x : x = [type |-> f.type, id |-> f.id, offset |-> f.sequence,
                    data |-> Received(f, bytes)]
  OBVIOUS
<1>4. WithStreamEvent(d, NextFrame(b), bytes) =
        Record(Behind(b), ms, c,
               Append(e, [type |-> NextFrame(b).type, id |-> NextFrame(b).id,
                          offset |-> NextFrame(b).sequence, data |-> Received(NextFrame(b), bytes)]),
               n + 1, o, o)
  BY ONLY <1>2, StreamRound
<1>5. WithStreamEvent(d, NextFrame(b), Payload(b)) = Record(Behind(b), ms, c, Append(e, x), n + 1, FALSE, FALSE)
  BY <1>1, <1>3, <1>4
<1>6. /\ f.type \in {"StreamStart", "StreamChunk", "StreamEnd"}
      /\ f.id \in StreamIds
      /\ f.data \in Seq(Data)
      /\ f.sequence = 0
  <2>1. IsStreamFrame(f) BY <1>1
  <2>2. PICK ty, id, da, l : ty = f.type /\ id = f.id /\ da = f.data /\ l = f.payload_len OBVIOUS
  <2>3. f = [type |-> ty, id |-> id, total_slices |-> 0, sequence |-> 0,
             data |-> da, flags |-> FALSE, sealed |-> FALSE, payload_len |-> l]
    BY <2>1, <2>2, StreamFrameShape
  <2> QED BY <2>1, <2>3, StreamFrameShape
<1>7. Received(f, bytes) \in Seq(Data) /\ (~Damaged(bytes) => Received(f, bytes) = f.data)
  BY <1>6, ReceivedData
<1>8. x \in EventSet /\ x.id = f.id BY <1>3, <1>6, <1>7 DEF EventSet
<1>9. ok => x = EventOf(f)
  <2> SUFFICES ASSUME ok = TRUE PROVE x = EventOf(f) OBVIOUS
  <2>1. b \in Seq(WireBytes(p, ok)) BY DEF FieldsInv
  <2>2. bytes \in Seq(WireBytes(p, ok)) BY <2>1, <1>1, BehindFront
  <2>3. ~Damaged(bytes) BY <2>2, NoDamage
  <2> QED BY <2>3, <1>3, <1>7 DEF EventOf
<1> QED BY <1>1, <1>5, <1>8, <1>9 DEF EventRound

LEMMA OneRound ==
  ASSUME NEW p \in Plans, NEW ok \in BOOLEAN, NEW b, NEW ms, NEW c, NEW e, NEW n,
         FieldsInv(p, ok, b, ms, c, e, n, FALSE, FALSE),
         NEW d, d = Record(b, ms, c, e, n, FALSE, FALSE)
  PROVE  RoundCases(p, ok, b, ms, c, e, n, DecodeStep(d))
<1>1. PICK o : o = FALSE OBVIOUS
<1>2. d = Record(b, ms, c, e, n, o, o) BY <1>1
<1>3. d.buffer = b BY ONLY <1>2, RecordFields
<1>4. DecoderInv(p, ok, d) BY <1>1, <1>2 DEF DecoderInv
<1>5. CASE Waiting(b) /\ DecodeStep(d) = [d EXCEPT !.done = TRUE]
  <2>1. PICK x, r : x = TRUE /\ r = [d EXCEPT !.done = x] OBVIOUS
  <2>2. r = Record(r.buffer, r.messages, r.completed, r.stream_events, r.frames, r.done, r.failed)
    BY <1>2, <2>1 DEF Record
  <2>3. /\ r.buffer = b /\ r.messages = ms /\ r.completed = c /\ r.stream_events = e
        /\ r.frames = n /\ r.done = x /\ r.failed = o
    BY <1>2, <2>1 DEF Record
  <2>4. r = Record(b, ms, c, e, n, x, o) BY <2>2, <2>3
  <2> QED BY <2>1, <2>4, <1>1, <1>5 DEF RoundCases
<1>6. CASE Stuck(b) /\ DecodeStep(d) = Throw(d)
  <2>1. PICK x, r : x = TRUE /\ r = Throw(d) OBVIOUS
  <2>2. r = [d EXCEPT !.done = x, !.failed = x] BY <2>1, Zenon DEF Throw
  <2>3. r = Record(r.buffer, r.messages, r.completed, r.stream_events, r.frames, r.done, r.failed)
    BY <1>2, <2>2 DEF Record
  <2>4. /\ r.buffer = b /\ r.messages = ms /\ r.completed = c /\ r.stream_events = e
        /\ r.frames = n /\ r.done = x /\ r.failed = x
    BY <1>2, <2>2 DEF Record
  <2>5. r = Record(b, ms, c, e, n, x, x) BY <2>3, <2>4
  <2> QED BY <2>1, <2>5, <1>6 DEF RoundCases
<1>7. CASE /\ Complete(b) /\ Len(b) >= HeaderSize
           /\ CrcMismatch(NextFrame(b), Payload(b)) /\ DecodeStep(d) = Erased(d, NextFrame(b))
  <2>1. Erased(d, NextFrame(b)) = Record(Behind(b), ms, c, e, n + 1, o, o)
    BY ONLY <1>2, ErasedFields
  <2>2. ~ok
    <3> SUFFICES ASSUME ok = TRUE PROVE FALSE OBVIOUS
    <3>1. b \in Seq(WireBytes(p, ok)) BY DEF FieldsInv
    <3>2. Payload(b) \in Seq(WireBytes(p, ok)) BY <3>1, <1>7, BehindFront
    <3>3. ~Damaged(Payload(b)) BY <3>2, NoDamage
    <3>4. NextFrame(b).flags => NextFrame(b).sealed
      <4>1. IsMessageFrame(p, NextFrame(b)) \/ IsStreamFrame(NextFrame(b))
        BY <3>1, <1>7, BehindFront
      <4> QED BY <4>1, FlaggedSealed
    <3> QED BY <3>3, <3>4, <1>7 DEF CrcMismatch
  <2> QED BY <2>1, <2>2, <1>1, <1>7 DEF RoundCases
<1>8. CASE /\ Complete(b) /\ Len(b) >= HeaderSize /\ IsStreamFrame(NextFrame(b))
           /\ DecodeStep(d) = WithStreamEvent(d, NextFrame(b), Payload(b))
  <2>1. EventRound(ok, b, ms, c, e, n, WithStreamEvent(d, NextFrame(b), Payload(b)))
    BY <1>8, EventCase
  <2> QED BY <2>1, <1>8 DEF RoundCases
<1>9. CASE /\ Complete(b) /\ Len(b) >= HeaderSize /\ ~CrcMismatch(NextFrame(b), Payload(b))
           /\ IsMessageFrame(p, NextFrame(b))
           /\ DecodeStep(d) = WithMessage(d, NextFrame(b), Payload(b))
  <2>1. SliceRound(p, ok, b, ms, c, e, n, WithMessage(d, NextFrame(b), Payload(b)))
    BY <1>9, SliceCase
  <2> QED BY <2>1, <1>9 DEF RoundCases
<1>10. \/ Waiting(b) /\ DecodeStep(d) = [d EXCEPT !.done = TRUE]
       \/ Stuck(b) /\ DecodeStep(d) = Throw(d)
       \/ /\ Complete(b) /\ Len(b) >= HeaderSize
          /\ \/ /\ CrcMismatch(NextFrame(b), Payload(b))
                /\ DecodeStep(d) = Erased(d, NextFrame(b))
             \/ /\ ~CrcMismatch(NextFrame(b), Payload(b)) /\ IsStreamFrame(NextFrame(b))
                /\ DecodeStep(d) = WithStreamEvent(d, NextFrame(b), Payload(b))
             \/ /\ ~CrcMismatch(NextFrame(b), Payload(b)) /\ IsMessageFrame(p, NextFrame(b))
                /\ DecodeStep(d) = WithMessage(d, NextFrame(b), Payload(b))
  BY ONLY <1>3, <1>4, StepCases, p \in Plans, ok \in BOOLEAN, Zenon
<1> QED BY ONLY <1>5, <1>6, <1>7, <1>8, <1>9, <1>10, Zenon

LEMMA AssembliesChange ==
  ASSUME NEW p, NEW ok, NEW ms, AssembliesInv(p, ok, ms), NEW m
  PROVE  /\ AssembliesInv(p, ok, Removed(ms, m))
         /\ \A a : IsPartial(p, ok, m, a) => AssembliesInv(p, ok, Kept(ms, m, a))
<1>1. AssembliesInv(p, ok, Removed(ms, m))
  <2>1. PICK h : h = Removed(ms, m) OBVIOUS
  <2>2. h = [i \in DOMAIN ms \ {m} |-> ms[i]] BY <2>1, Zenon DEF Removed
  <2>3. h = [i \in DOMAIN h |-> h[i]] /\ \A i \in DOMAIN h : i \in DOMAIN ms /\ h[i] = ms[i]
    BY <2>2
  <2> QED BY <2>1, <2>3 DEF AssembliesInv
<1>2. ASSUME NEW a, IsPartial(p, ok, m, a) PROVE AssembliesInv(p, ok, Kept(ms, m, a))
  <2>1. PICK h : h = Kept(ms, m, a) OBVIOUS
  <2>2. h = [i \in DOMAIN ms \cup {m} |-> IF i = m THEN a ELSE ms[i]] BY <2>1, Zenon DEF Kept
  <2>3. /\ h = [i \in DOMAIN h |-> h[i]]
        /\ \A i \in DOMAIN h : (i = m /\ h[i] = a) \/ (i \in DOMAIN ms /\ h[i] = ms[i])
    BY <2>2
  <2> QED BY <1>2, <2>1, <2>3 DEF AssembliesInv
<1> QED BY <1>1, <1>2

\* A round keeps the invariant of the fields.
LEMMA CasesKeepFields ==
  ASSUME NEW p \in Plans, NEW ok \in BOOLEAN, NEW b, NEW ms, NEW c, NEW e, NEW n, NEW r,
         FieldsInv(p, ok, b, ms, c, e, n, FALSE, FALSE), RoundCases(p, ok, b, ms, c, e, n, r)
  PROVE  DecoderInv(p, ok, r)
<1>1. /\ b \in Seq(WireBytes(p, ok)) /\ AssembliesInv(p, ok, ms) /\ c \in Seq(Messages(p, ok))
      /\ e \in Seq(EventSet) /\ n \in Nat
  BY DEF FieldsInv
<1>2. n + 1 \in Nat BY <1>1
<1>3. CASE Waiting(b) /\ r = Record(b, ms, c, e, n, TRUE, FALSE)
  <2>1. FieldsInv(p, ok, b, ms, c, e, n, TRUE, FALSE) BY <1>1 DEF FieldsInv
  <2> QED BY <2>1, <1>3 DEF DecoderInv
<1>4. CASE Stuck(b) /\ r = Record(b, ms, c, e, n, TRUE, TRUE)
  <2>1. FieldsInv(p, ok, b, ms, c, e, n, TRUE, TRUE) BY <1>1, <1>4 DEF FieldsInv
  <2> QED BY <2>1, <1>4 DEF DecoderInv
<1>5. ASSUME Complete(b), Len(b) >= HeaderSize PROVE Behind(b) \in Seq(WireBytes(p, ok))
  BY <1>1, <1>5, BehindFront
<1>6. CASE /\ Complete(b) /\ Len(b) >= HeaderSize
           /\ r = Record(Behind(b), ms, c, e, n + 1, FALSE, FALSE)
  <2>1. FieldsInv(p, ok, Behind(b), ms, c, e, n + 1, FALSE, FALSE)
    BY <1>1, <1>2, <1>5, <1>6 DEF FieldsInv
  <2> QED BY <2>1, <1>6 DEF DecoderInv
<1>7. CASE Complete(b) /\ Len(b) >= HeaderSize /\ EventRound(ok, b, ms, c, e, n, r)
  <2>1. PICK x \in EventSet : r = Record(Behind(b), ms, c, Append(e, x), n + 1, FALSE, FALSE)
    BY <1>7 DEF EventRound
  <2>2. Append(e, x) \in Seq(EventSet) BY <1>1, AppendProperties
  <2>3. FieldsInv(p, ok, Behind(b), ms, c, Append(e, x), n + 1, FALSE, FALSE)
    BY <1>1, <1>2, <1>5, <1>7, <2>2 DEF FieldsInv
  <2> QED BY <2>1, <2>3 DEF DecoderInv
<1>8. CASE Complete(b) /\ Len(b) >= HeaderSize /\ SliceRound(p, ok, b, ms, c, e, n, r)
  <2>1. PICK m, k, a :
          /\ m \in MsgIds /\ IsSent(p, m) /\ IsAssembly(p, ok, m, a)
          /\ \/ /\ a.received = Total(p, m)
                /\ \E x \in Messages(p, ok) :
                     /\ x.id = m
                     /\ r = Record(Behind(b), Removed(ms, m), Append(c, x), e, n + 1, FALSE, FALSE)
             \/ /\ a.received # Total(p, m)
                /\ r = Record(Behind(b), Kept(ms, m, a), c, e, n + 1, FALSE, FALSE)
    BY <1>8 DEF SliceRound
  <2> m \in MsgIds BY <2>1
  <2>2. CASE \E x \in Messages(p, ok) :
               r = Record(Behind(b), Removed(ms, m), Append(c, x), e, n + 1, FALSE, FALSE)
    <3>1. PICK x \in Messages(p, ok) :
            r = Record(Behind(b), Removed(ms, m), Append(c, x), e, n + 1, FALSE, FALSE)
      BY <2>2
    <3>2. Append(c, x) \in Seq(Messages(p, ok)) BY <1>1, AppendProperties
    <3>3. AssembliesInv(p, ok, Removed(ms, m)) BY <1>1, AssembliesChange
    <3>4. FieldsInv(p, ok, Behind(b), Removed(ms, m), Append(c, x), e, n + 1, FALSE, FALSE)
      BY <1>1, <1>2, <1>5, <1>8, <3>2, <3>3 DEF FieldsInv
    <3> QED BY <3>1, <3>4 DEF DecoderInv
  <2>3. CASE /\ a.received # Total(p, m)
             /\ r = Record(Behind(b), Kept(ms, m, a), c, e, n + 1, FALSE, FALSE)
    <3>1. IsPartial(p, ok, m, a) BY <2>1, <2>3 DEF IsPartial
    <3>2. AssembliesInv(p, ok, Kept(ms, m, a)) BY <1>1, <3>1, AssembliesChange
    <3>3. FieldsInv(p, ok, Behind(b), Kept(ms, m, a), c, e, n + 1, FALSE, FALSE)
      BY <1>1, <1>2, <1>5, <1>8, <3>2 DEF FieldsInv
    <3> QED BY <2>3, <3>3 DEF DecoderInv
  <2> QED BY <2>1, <2>2, <2>3
<1> QED BY <1>3, <1>4, <1>6, <1>7, <1>8 DEF RoundCases

LEMMA RoundInv ==
  ASSUME NEW p \in Plans, NEW ok \in BOOLEAN, NEW d, DecoderInv(p, ok, d)
  PROVE  DecoderInv(p, ok, Round(d))
<1>1. PICK b, ms, c, e, n, done, fails :
        d = Record(b, ms, c, e, n, done, fails) /\ FieldsInv(p, ok, b, ms, c, e, n, done, fails)
  BY DEF DecoderInv
<1>2. d.done = done BY ONLY <1>1, RecordFields
<1>3. CASE d.done BY <1>3 DEF Round
<1>4. CASE ~d.done
  <2>1. done = FALSE /\ fails = FALSE BY <1>1, <1>2, <1>4 DEF FieldsInv
  <2>2. Round(d) = DecodeStep(d) BY <1>4 DEF Round
  <2>3. RoundCases(p, ok, b, ms, c, e, n, DecodeStep(d)) BY <1>1, <2>1, OneRound
  <2> QED BY <1>1, <2>1, <2>2, <2>3, CasesKeepFields
<1> QED BY <1>3, <1>4

\* The loop keeps the invariant.
LEMMA RoundsInv ==
  ASSUME NEW p \in Plans, NEW ok \in BOOLEAN, NEW d, DecoderInv(p, ok, d), NEW n \in Nat
  PROVE  \A i \in 0..n : DecoderInv(p, ok, Rounds(d, n)[i])
<1> DEFINE S == {i \in Nat : i \in 0..n => DecoderInv(p, ok, Rounds(d, n)[i])}
<1>1. 0 \in S BY RoundsDef
<1>2. ASSUME NEW i \in S PROVE i + 1 \in S
  <2> SUFFICES ASSUME i + 1 \in 0..n PROVE DecoderInv(p, ok, Rounds(d, n)[i + 1]) OBVIOUS
  <2>1. i \in 0..n /\ i + 1 \in 1..n /\ i + 1 - 1 = i OBVIOUS
  <2>2. DecoderInv(p, ok, Rounds(d, n)[i]) BY <2>1
  <2>3. Rounds(d, n)[i + 1] = Round(Rounds(d, n)[i]) BY <2>1, RoundsDef
  <2> QED BY <2>2, <2>3, RoundInv
<1> HIDE DEF S
<1>3. S = Nat
  <2>1. S \subseteq Nat BY DEF S
  <2> QED BY <1>1, <1>2, <2>1, NatsClosed
<1> QED BY <1>3 DEF S

-----------------------------------------------------------------------------
(* The inductive invariant. *)

Ok == faults = 0

Inv ==
  /\ plan \in Plans
  /\ faults \in Nat
  /\ unsent \in [MsgIds \cup StreamIds -> Seq(Frames(plan))]
  /\ wire \in Seq(WireBytes(plan, Ok))
  /\ FieldsInv(plan, Ok, buffer, messages, completed, stream_events, frames_received, FALSE, FALSE)
  /\ failed \in BOOLEAN /\ (failed => Stuck(buffer))
  /\ got \in [messages : Seq(Messages(plan, Ok)), events : Seq(EventSet)]

\* What holds without a fault holds after one in its weaker form.
LEMMA Weaker ==
  ASSUME NEW p, NEW ok \in BOOLEAN
  PROVE  /\ WireBytes(p, ok) \subseteq WireBytes(p, FALSE)
         /\ Messages(p, ok) \subseteq Messages(p, FALSE)
         /\ \A ms : AssembliesInv(p, ok, ms) => AssembliesInv(p, FALSE, ms)
<1>1. \A m : Trusted(p, FALSE, m) => Trusted(p, ok, m) BY DEF Trusted
<1>2. WireBytes(p, ok) \subseteq WireBytes(p, FALSE) BY DEF WireBytes
<1>3. Messages(p, ok) \subseteq Messages(p, FALSE) BY <1>1 DEF Messages
<1>4. \A m, a : IsPartial(p, ok, m, a) => IsPartial(p, FALSE, m, a)
  BY <1>1 DEF IsPartial, IsAssembly
<1>5. \A ms : AssembliesInv(p, ok, ms) => AssembliesInv(p, FALSE, ms)
  BY <1>4 DEF AssembliesInv
<1> QED BY <1>2, <1>3, <1>5

LEMMA SentFrames ==
  ASSUME NEW p \in Plans
  PROVE  /\ \A s \in StreamIds : EncodeStream(s) \in Seq(Frames(p))
         /\ \A m \in MsgIds : IsSent(p, m) =>
              EncodeMessage(m, p[m].length, p[m].crc) \in Seq(Frames(p))
<1>1. ASSUME NEW s \in StreamIds PROVE EncodeStream(s) \in Seq(Frames(p))
  <2>1. \A n \in 1..3 : EncodeStream(s)[n] \in Frames(p) BY DEF Frames, IsStreamFrame
  <2>2. EncodeStream(s)[1] \in Frames(p) /\ EncodeStream(s)[2] \in Frames(p)
          /\ EncodeStream(s)[3] \in Frames(p)
    BY <2>1
  <2>3. PICK x, y, z : x = EncodeStreamStart(s) /\ y = EncodeStreamChunk(s, 0)
                         /\ z = EncodeStreamEnd(s)
    OBVIOUS
  <2>4. EncodeStream(s) = <<x, y, z>> BY <2>3 DEF EncodeStream
  <2> QED BY <2>2, <2>4
<1>2. ASSUME NEW m \in MsgIds, IsSent(p, m)
      PROVE  EncodeMessage(m, p[m].length, p[m].crc) \in Seq(Frames(p))
  <2> DEFINE q == EncodeMessage(m, p[m].length, p[m].crc)
             T == Total(p, m)
  <2>1. p[m].length \in Nat /\ p[m].crc \in BOOLEAN BY SizesAssumption DEF Plans
  <2>2. T \in Nat BY <1>2, <2>1, SliceCount DEF Total, IsSent
  <2>3. \A n \in 1..T : q[n] \in Frames(p)
    <3> SUFFICES ASSUME NEW n \in 1..T PROVE q[n] \in Frames(p) OBVIOUS
    <3>1. q[n] = FrameOf(p, m, n) BY DEF FrameOf
    <3>2. IsMessageFrame(p, q[n]) BY <1>2, <3>1 DEF IsMessageFrame
    <3>3. n \in Nat BY <2>2
    <3> QED BY <3>1, <3>2, <3>3 DEF Frames
  <2>4. q = [n \in 1..T |-> q[n]] BY DEF EncodeMessage, Total
  <2> HIDE DEF q, T
  <2>5. q \in [1..T -> Frames(p)] BY <2>3, <2>4
  <2>6. q \in Seq(Frames(p)) BY <2>2, <2>5
  <2> QED BY <2>6 DEF q
<1> QED BY <1>1, <1>2

LEMMA SerializedBytes ==
  ASSUME NEW p \in Plans, NEW ok \in BOOLEAN, NEW f \in Frames(p)
  PROVE  /\ f.payload_len \in 1..MaxFramePayload
         /\ Serialize(f) \in Seq(WireBytes(p, ok))
         /\ Len(Serialize(f)) = HeaderSize + f.payload_len
         /\ \A k \in 1..HeaderSize + f.payload_len :
              Serialize(f)[k] = [frame |-> f, k |-> k, bad |-> FALSE]
<1>1. f.payload_len \in 1..MaxFramePayload
  <2>1. CASE IsMessageFrame(p, f) BY <2>1, MessageFrameShape DEF IsMessageFrame
  <2>2. CASE IsStreamFrame(f) BY <2>2, StreamFrameShape
  <2> QED BY <2>1, <2>2 DEF Frames
<1>2. PICK l \in Nat : l = HeaderSize + f.payload_len BY <1>1, SizesAssumption
<1>3. Serialize(f) = [k \in 1..l |-> [frame |-> f, k |-> k, bad |-> FALSE]]
  BY <1>2, Zenon DEF Serialize
<1>4. \A k \in 1..l : [frame |-> f, k |-> k, bad |-> FALSE] \in WireBytes(p, ok)
  BY <1>2 DEF WireBytes, Hurt
<1>5. Serialize(f) \in [1..l -> WireBytes(p, ok)] BY <1>3, <1>4
<1> QED BY <1>1, <1>2, <1>3, <1>5

LEMMA InitInv == Init => Inv
<1> SUFFICES ASSUME Init PROVE Inv OBVIOUS
<1>1. plan \in Plans /\ faults \in Nat BY DEF Init, Plans
<1>2. Ok = TRUE BY DEF Init, Ok
<1>3. unsent \in [MsgIds \cup StreamIds -> Seq(Frames(plan))]
  <2>1. ASSUME NEW x \in MsgIds \cup StreamIds PROVE unsent[x] \in Seq(Frames(plan))
    <3>1. CASE x \in StreamIds
      <4>1. unsent[x] = EncodeStream(x) BY <3>1 DEF Init
      <4> QED BY <3>1, <4>1, <1>1, SentFrames
    <3>2. CASE x \notin StreamIds /\ Refused(plan[x].length, plan[x].crc)
      <4>1. unsent[x] = <<>> BY <3>2 DEF Init
      <4> QED BY <4>1
    <3>3. CASE x \notin StreamIds /\ ~Refused(plan[x].length, plan[x].crc)
      <4>1. unsent[x] = EncodeMessage(x, plan[x].length, plan[x].crc) BY <3>3 DEF Init
      <4>2. IsSent(plan, x) BY <3>3 DEF IsSent
      <4> QED BY <3>3, <4>1, <4>2, <1>1, SentFrames
    <3> QED BY <3>1, <3>2, <3>3
  <2>2. unsent = [x \in MsgIds \cup StreamIds |-> unsent[x]] BY DEF Init
  <2> QED BY <2>1, <2>2
<1>4. wire \in Seq(WireBytes(plan, Ok)) BY DEF Init
<1>5. FieldsInv(plan, Ok, buffer, messages, completed, stream_events, frames_received, FALSE, FALSE)
  <2>1. AssembliesInv(plan, Ok, messages) BY DEF AssembliesInv, Init
  <2> QED BY <2>1 DEF Init, FieldsInv
<1>6. got \in [messages : Seq(Messages(plan, Ok)), events : Seq(EventSet)] BY DEF Init
<1> QED BY <1>1, <1>3, <1>4, <1>5, <1>6 DEF Inv, Init

\* A call of Feed, in terms of the fields: what was buffered and what arrived goes
\* through the loop.
Arrived(n) == buffer \o SubSeq(wire, 1, n)
Started(n) == Record(Arrived(n), messages, completed, stream_events, frames_received, FALSE, FALSE)

LEMMA FeedStarts ==
  ASSUME Inv, NEW n \in 1..Len(wire)
  PROVE  /\ FieldsInv(plan, Ok, Arrived(n), messages, completed, stream_events, frames_received,
                      FALSE, FALSE)
         /\ SubSeq(wire, 1, n) \in Seq(WireBytes(plan, Ok)) /\ Len(SubSeq(wire, 1, n)) = n
         /\ SubSeq(wire, n + 1, Len(wire)) \in Seq(WireBytes(plan, Ok))
         /\ Len(Arrived(n)) = Len(buffer) + n
         /\ \A i \in 1..Len(buffer) : Arrived(n)[i] = buffer[i]
         /\ MaxRounds(Started(n)) \in Nat \ {0}
<1>1. /\ wire \in Seq(WireBytes(plan, Ok)) /\ buffer \in Seq(WireBytes(plan, Ok))
      /\ FieldsInv(plan, Ok, buffer, messages, completed, stream_events, frames_received,
                   FALSE, FALSE)
  BY DEF Inv, FieldsInv
<1>2. n \in Nat \ {0} /\ n <= Len(wire) /\ Len(wire) \in Nat BY <1>1
<1>3. SubSeq(wire, 1, n) \in Seq(WireBytes(plan, Ok)) /\ Len(SubSeq(wire, 1, n)) = n
  BY <1>1, <1>2, PartOfBuffer
<1>4. SubSeq(wire, n + 1, Len(wire)) \in Seq(WireBytes(plan, Ok))
  <2>1. n + 1 \in Nat \ {0} /\ Len(wire) \in Nat /\ Len(wire) <= Len(wire) BY <1>2
  <2> QED BY <2>1, <1>1, PartOfBuffer
<1>5. /\ Arrived(n) \in Seq(WireBytes(plan, Ok))
      /\ Len(Arrived(n)) = Len(buffer) + n
      /\ \A i \in 1..Len(buffer) : Arrived(n)[i] = buffer[i]
  <2>1. PICK s : s = SubSeq(wire, 1, n) OBVIOUS
  <2>2. /\ buffer \o s \in Seq(WireBytes(plan, Ok)) /\ Len(buffer \o s) = Len(buffer) + Len(s)
        /\ \A i \in 1..Len(buffer) + Len(s) :
             (buffer \o s)[i] = IF i <= Len(buffer) THEN buffer[i] ELSE s[i - Len(buffer)]
    BY <1>1, <1>3, <2>1, ConcatProperties
  <2>3. Len(buffer) \in Nat /\ Len(s) = n BY <1>1, <1>3, <2>1
  <2>4. \A i \in 1..Len(buffer) : (buffer \o s)[i] = buffer[i] BY <2>2, <2>3, <1>2
  <2> QED BY <2>1, <2>2, <2>3, <2>4 DEF Arrived
<1>6. FieldsInv(plan, Ok, Arrived(n), messages, completed, stream_events, frames_received,
                FALSE, FALSE)
  BY <1>1, <1>5 DEF FieldsInv
<1>7. MaxRounds(Started(n)) \in Nat \ {0}
  <2>1. Started(n).buffer = Arrived(n) BY DEF Started, Record
  <2>2. Len(Arrived(n)) \in Nat /\ HeaderSize \in Nat \ {0} BY <1>5, SizesAssumption
  <2>3. Len(Arrived(n)) \div HeaderSize \in Nat BY <2>2, Quotient
  <2> QED BY <2>1, <2>3 DEF MaxRounds
<1> QED BY <1>3, <1>4, <1>5, <1>6, <1>7

LEMMA FeedEnds ==
  ASSUME Inv, NEW n \in 1..Len(wire), Feed(n)
  PROVE  /\ DecoderInv(plan, Ok, TryDecode(Started(n)))
         /\ buffer' = TryDecode(Started(n)).buffer
         /\ messages' = TryDecode(Started(n)).messages
         /\ completed' = TryDecode(Started(n)).completed
         /\ stream_events' = TryDecode(Started(n)).stream_events
         /\ frames_received' = TryDecode(Started(n)).frames
         /\ failed' = TryDecode(Started(n)).failed
<1>1. Started(n) = Decoding(Arrived(n), messages, completed, stream_events, frames_received)
  BY DEF Started, Record, Decoding
<1>2. PICK d : d = TryDecode(Started(n)) OBVIOUS
<1>3. /\ buffer' = d.buffer /\ messages' = d.messages /\ completed' = d.completed
      /\ stream_events' = d.stream_events /\ frames_received' = d.frames /\ failed' = d.failed
  BY <1>1, <1>2, Zenon DEF Feed, Arrived
<1>4. DecoderInv(plan, Ok, Started(n)) BY FeedStarts DEF DecoderInv, Started
<1>5. plan \in Plans /\ Ok \in BOOLEAN BY DEF Inv, Ok
<1>6. MaxRounds(Started(n)) \in Nat BY FeedStarts
<1>7. DecoderInv(plan, Ok, d)
  <2>1. \A i \in 0..MaxRounds(Started(n)) :
          DecoderInv(plan, Ok, Rounds(Started(n), MaxRounds(Started(n)))[i])
    BY <1>4, <1>5, <1>6, RoundsInv
  <2> QED BY <1>2, <1>6, <2>1 DEF TryDecode
<1> QED BY <1>2, <1>3, <1>7

LEMMA FeedInv ==
  ASSUME Inv, NEW n \in 1..Len(wire), Feed(n)
  PROVE  Inv'
<1>1. PICK d : d = TryDecode(Started(n)) OBVIOUS
<1>2. /\ DecoderInv(plan, Ok, d)
      /\ buffer' = d.buffer /\ messages' = d.messages /\ completed' = d.completed
      /\ stream_events' = d.stream_events /\ frames_received' = d.frames /\ failed' = d.failed
  BY <1>1, FeedEnds
<1>3. PICK b, ms, c, e, k, done, fails :
        d = Record(b, ms, c, e, k, done, fails)
          /\ FieldsInv(plan, Ok, b, ms, c, e, k, done, fails)
  BY <1>2 DEF DecoderInv
<1>4. /\ d.buffer = b /\ d.messages = ms /\ d.completed = c /\ d.stream_events = e
      /\ d.frames = k /\ d.failed = fails
  BY ONLY <1>3, RecordFields
<1>5. plan' = plan /\ unsent' = unsent /\ got' = got /\ faults' = faults
        /\ wire' = SubSeq(wire, n + 1, Len(wire))
  BY DEF Feed
<1>6. Ok' = Ok BY <1>5 DEF Ok
<1>7. FieldsInv(plan, Ok, b, ms, c, e, k, FALSE, FALSE) BY <1>3 DEF FieldsInv
<1>8. FieldsInv(plan', Ok', buffer', messages', completed', stream_events', frames_received',
                FALSE, FALSE)
  BY <1>2, <1>4, <1>5, <1>6, <1>7
<1>9. failed' \in BOOLEAN /\ (failed' => Stuck(buffer')) BY <1>2, <1>3, <1>4 DEF FieldsInv
<1>10. wire' \in Seq(WireBytes(plan, Ok)) BY <1>5, FeedStarts
<1> QED BY <1>5, <1>6, <1>8, <1>9, <1>10 DEF Inv

\* A fault leaves the weaker invariant.
LEMMA FaultInv ==
  ASSUME Inv
  PROVE  /\ wire \in Seq(WireBytes(plan, FALSE)) /\ buffer \in Seq(WireBytes(plan, FALSE))
         /\ AssembliesInv(plan, FALSE, messages)
         /\ FieldsInv(plan, FALSE, buffer, messages, completed, stream_events, frames_received,
                      FALSE, FALSE)
         /\ got \in [messages : Seq(Messages(plan, FALSE)), events : Seq(EventSet)]
<1>1. PICK ok \in BOOLEAN : ok = Ok BY DEF Ok
<1>2. /\ WireBytes(plan, ok) \subseteq WireBytes(plan, FALSE)
      /\ Messages(plan, ok) \subseteq Messages(plan, FALSE)
      /\ AssembliesInv(plan, ok, messages) => AssembliesInv(plan, FALSE, messages)
  BY Weaker
<1>3. /\ Seq(WireBytes(plan, ok)) \subseteq Seq(WireBytes(plan, FALSE))
      /\ Seq(Messages(plan, ok)) \subseteq Seq(Messages(plan, FALSE))
  <2>1. \A A, B : A \subseteq B => Seq(A) \subseteq Seq(B) BY SeqMonotonic
  <2> QED BY <1>2, <2>1
<1>4. /\ wire \in Seq(WireBytes(plan, ok)) /\ buffer \in Seq(WireBytes(plan, ok))
      /\ AssembliesInv(plan, ok, messages) /\ completed \in Seq(Messages(plan, ok))
      /\ stream_events \in Seq(EventSet) /\ frames_received \in Nat
      /\ got \in [messages : Seq(Messages(plan, ok)), events : Seq(EventSet)]
  BY <1>1 DEF Inv, FieldsInv
<1> QED BY <1>2, <1>3, <1>4 DEF FieldsInv

LEMMA SendFrameInv ==
  ASSUME Inv, NEW x \in MsgIds \cup StreamIds, SendFrame(x)
  PROVE  Inv'
<1>1. plan' = plan /\ faults' = faults /\ got' = got /\ Ok' = Ok /\ decoder' = decoder
  BY DEF SendFrame, Ok
<1>2. unsent[x] \in Seq(Frames(plan)) /\ unsent[x] # <<>> BY DEF Inv, SendFrame
<1>3. Head(unsent[x]) \in Frames(plan) /\ Tail(unsent[x]) \in Seq(Frames(plan)) BY <1>2
<1>4. unsent' \in [MsgIds \cup StreamIds -> Seq(Frames(plan))] BY <1>3 DEF Inv, SendFrame
<1>5. PICK ok \in BOOLEAN : ok = Ok BY DEF Ok
<1>6. Serialize(Head(unsent[x])) \in Seq(WireBytes(plan, ok)) BY <1>3, SerializedBytes DEF Inv
<1>7. wire \in Seq(WireBytes(plan, ok)) BY <1>5 DEF Inv
<1>8. wire' \in Seq(WireBytes(plan, ok)) BY <1>6, <1>7 DEF SendFrame
<1>9. /\ FieldsInv(plan', Ok', buffer', messages', completed', stream_events', frames_received',
                   FALSE, FALSE)
      /\ failed' \in BOOLEAN /\ (failed' => Stuck(buffer'))
  <2>1. /\ buffer' = buffer /\ messages' = messages /\ completed' = completed
        /\ stream_events' = stream_events /\ frames_received' = frames_received
        /\ failed' = failed
    BY <1>1 DEF decoder
  <2> QED BY <1>1, <2>1 DEF Inv
<1> QED BY <1>1, <1>4, <1>5, <1>8, <1>9 DEF Inv

LEMMA DamageInv ==
  ASSUME Inv, Damage, ~uncovered'
  PROVE  Inv'
<1>1. plan' = plan /\ unsent' = unsent /\ got' = got /\ decoder' = decoder /\ faults' = faults + 1
  BY DEF Damage
<1>2. faults' \in Nat /\ Ok' = FALSE BY <1>1 DEF Inv, Ok
<1>3. PICK i \in DOMAIN wire : /\ \E y \in DamagedByte(wire[i]) : wire' = [wire EXCEPT ![i] = y]
                               /\ uncovered' = (uncovered \/ Uncovered(wire[i]))
  BY DEF Damage
<1>4. PICK V : V = WireBytes(plan, FALSE) OBVIOUS
<1>5. wire \in Seq(V) BY <1>4, FaultInv
<1>6. PICK v : v \in DamagedByte(wire[i]) /\ wire' = [wire EXCEPT ![i] = v] BY <1>3
<1>7. wire[i] \in V BY <1>5
<1>0. ~Uncovered(wire[i]) BY <1>3
<1>8. v \in V
  <2>1. PICK y : y = wire[i] OBVIOUS
  <2>2. /\ y \in [frame : Frames(plan), k : Nat \ {0}, bad : BOOLEAN]
        /\ y.k <= HeaderSize + y.frame.payload_len
    BY <1>4, <1>7, <2>1 DEF WireBytes
  <2>3. ~(y.k <= HeaderSize) /\ y.frame.flags BY <1>0, <2>1 DEF Uncovered
  <2>4. y.k # HeaderSize BY <2>2, <2>3, SizesAssumption
  <2>5. PICK f : f = y.frame OBVIOUS
  <2>6. v = [frame |-> f, k |-> y.k, bad |-> TRUE]
    BY <1>6, <2>1, <2>3, <2>4, <2>5 DEF DamagedByte
  <2>7. v.frame = f /\ v.k = y.k BY <2>6
  <2>8. v \in [frame : Frames(plan), k : Nat \ {0}, bad : BOOLEAN] BY <2>2, <2>5, <2>6
  <2>9. ~Hurt(v) BY <2>3, <2>5, <2>7 DEF Hurt, Uncovered
  <2> QED BY <2>2, <2>5, <2>7, <2>8, <2>9, <1>4 DEF WireBytes
<1>9. wire' = [wire EXCEPT ![i] = v] BY <1>6
<1>10. wire' \in Seq(V) BY <1>5, <1>8, <1>9
<1>11. /\ FieldsInv(plan', FALSE, buffer', messages', completed', stream_events',
                    frames_received', FALSE, FALSE)
       /\ failed' \in BOOLEAN /\ (failed' => Stuck(buffer'))
  <2>1. /\ buffer' = buffer /\ messages' = messages /\ completed' = completed
        /\ stream_events' = stream_events /\ frames_received' = frames_received
        /\ failed' = failed
    BY <1>1 DEF decoder
  <2> QED BY <1>1, <2>1, FaultInv DEF Inv
<1> QED BY <1>1, <1>2, <1>4, <1>10, <1>11, FaultInv DEF Inv

LEMMA GetMessageInv ==
  ASSUME Inv, GetMessage
  PROVE  Inv'
<1>1. /\ UNCHANGED <<plan, unsent, wire, buffer, messages, stream_events, frames_received, failed,
                     faults>>
      /\ completed' = Tail(completed)
      /\ got' = [got EXCEPT !.messages = Append(@, Head(completed))]
  BY DEF GetMessage
<1>2. Ok' = Ok BY <1>1 DEF Ok
<1>3. PICK V : V = Messages(plan, Ok) OBVIOUS
<1>4. completed \in Seq(V) /\ completed # <<>> BY <1>3 DEF Inv, FieldsInv, GetMessage
<1>5. Head(completed) \in V /\ Tail(completed) \in Seq(V) BY <1>4
<1>6. got \in [messages : Seq(V), events : Seq(EventSet)] BY <1>3 DEF Inv
<1>7. got' \in [messages : Seq(V), events : Seq(EventSet)]
  <2>1. Append(got.messages, Head(completed)) \in Seq(V) BY <1>5, <1>6
  <2> QED BY <1>1, <1>6, <2>1
<1>8. FieldsInv(plan, Ok, buffer, messages, completed', stream_events, frames_received,
                FALSE, FALSE)
  BY <1>1, <1>3, <1>5 DEF Inv, FieldsInv
<1> QED BY <1>1, <1>2, <1>3, <1>7, <1>8 DEF Inv

LEMMA GetStreamEventInv ==
  ASSUME Inv, GetStreamEvent
  PROVE  Inv'
<1>1. /\ UNCHANGED <<plan, unsent, wire, buffer, messages, completed, frames_received, failed,
                     faults>>
      /\ stream_events' = Tail(stream_events)
      /\ got' = [got EXCEPT !.events = Append(@, Head(stream_events))]
  BY DEF GetStreamEvent
<1>2. Ok' = Ok BY <1>1 DEF Ok
<1>3. PICK V : V = EventSet OBVIOUS
<1>4. stream_events \in Seq(V) /\ stream_events # <<>> BY <1>3 DEF Inv, FieldsInv, GetStreamEvent
<1>5. Head(stream_events) \in V /\ Tail(stream_events) \in Seq(V) BY <1>4
<1>6. PICK W : W = Seq(Messages(plan, Ok)) OBVIOUS
<1>7. got \in [messages : W, events : Seq(V)] BY <1>3, <1>6 DEF Inv
<1>8. got' \in [messages : W, events : Seq(V)]
  <2>1. Append(got.events, Head(stream_events)) \in Seq(V) BY <1>5, <1>7
  <2> QED BY <1>1, <1>7, <2>1
<1>9. FieldsInv(plan, Ok, buffer, messages, completed, stream_events', frames_received,
                FALSE, FALSE)
  BY <1>1, <1>3, <1>5 DEF Inv, FieldsInv
<1> QED BY <1>1, <1>2, <1>3, <1>6, <1>8, <1>9 DEF Inv

LEMMA CleanupInv ==
  ASSUME Inv, NEW when, CleanupTimeoutMessages(when)
  PROVE  Inv'
<1>1. /\ UNCHANGED <<plan, unsent, wire, buffer, completed, stream_events, frames_received,
                     failed, got>>
      /\ messages' = [m \in {x \in DOMAIN messages : messages[x].first_seen > when} |-> messages[m]]
      /\ faults' = faults + 1
  BY DEF CleanupTimeoutMessages
<1>2. faults' \in Nat /\ Ok' = FALSE BY <1>1 DEF Inv, Ok
<1>3. AssembliesInv(plan, FALSE, messages) BY FaultInv
<1>4. /\ messages' = [m \in DOMAIN messages' |-> messages'[m]]
      /\ \A m \in DOMAIN messages' : m \in DOMAIN messages /\ messages'[m] = messages[m]
  BY <1>1
<1>5. AssembliesInv(plan, FALSE, messages') BY <1>3, <1>4 DEF AssembliesInv
<1>6. FieldsInv(plan, FALSE, buffer, messages', completed, stream_events, frames_received,
                FALSE, FALSE)
  BY <1>5, FaultInv DEF FieldsInv
<1> QED BY <1>1, <1>2, <1>6, FaultInv DEF Inv

LEMMA ResetInv ==
  ASSUME Inv, Reset
  PROVE  Inv'
<1>1. /\ UNCHANGED <<plan, unsent, wire, got>>
      /\ buffer' = <<>> /\ completed' = <<>> /\ stream_events' = <<>> /\ frames_received' = 0
      /\ messages' = [x \in {} |-> {}] /\ failed' = FALSE /\ faults' = faults + 1
  BY DEF Reset
<1>2. faults' \in Nat /\ Ok' = FALSE BY <1>1 DEF Inv, Ok
<1>3. AssembliesInv(plan, FALSE, messages') BY <1>1 DEF AssembliesInv
<1>4. FieldsInv(plan, FALSE, buffer', messages', completed', stream_events', frames_received',
                FALSE, FALSE)
  <2>1. \A V : <<>> \in Seq(V) OBVIOUS
  <2> QED BY <1>1, <1>3, <2>1 DEF FieldsInv
<1> QED BY <1>1, <1>2, <1>4, FaultInv DEF Inv

LEMMA NextInv == Inv /\ [Next]_vars => uncovered' \/ Inv'
<1> SUFFICES ASSUME Inv, [Next]_vars, ~uncovered' PROVE Inv' OBVIOUS
<1>1. CASE \E x \in MsgIds \cup StreamIds : SendFrame(x) BY <1>1, SendFrameInv
<1>2. CASE Damage BY <1>2, DamageInv
<1>3. CASE \E n \in 1..Len(wire) : Feed(n) BY <1>3, FeedInv
<1>4. CASE GetMessage BY <1>4, GetMessageInv
<1>5. CASE GetStreamEvent BY <1>5, GetStreamEventInv
<1>6. CASE \E when \in 0..frames_received : CleanupTimeoutMessages(when) BY <1>6, CleanupInv
<1>7. CASE Reset BY <1>7, ResetInv
<1>8. CASE UNCHANGED vars BY <1>8 DEF vars, Inv, Ok
<1> QED BY <1>1, <1>2, <1>3, <1>4, <1>5, <1>6, <1>7, <1>8 DEF Next

\* Damage that no CRC covers is a fault, and it is not forgotten.
Exposed == faults \in Nat /\ uncovered \in BOOLEAN /\ (uncovered => faults # 0)

LEMMA NextExposed == Exposed /\ [Next]_vars => Exposed' /\ (uncovered => uncovered')
<1> SUFFICES ASSUME Exposed, [Next]_vars PROVE Exposed' /\ (uncovered => uncovered') OBVIOUS
<1>1. CASE Damage
  <2>1. faults' = faults + 1 /\ (uncovered => uncovered') /\ uncovered' \in BOOLEAN
    BY <1>1 DEF Damage, Exposed
  <2> QED BY <2>1 DEF Exposed
<1>2. CASE \E when \in 0..frames_received : CleanupTimeoutMessages(when)
  <2>1. faults' = faults + 1 /\ uncovered' = uncovered BY <1>2 DEF CleanupTimeoutMessages
  <2> QED BY <2>1 DEF Exposed
<1>3. CASE Reset
  <2>1. faults' = faults + 1 /\ uncovered' = uncovered BY <1>3 DEF Reset
  <2> QED BY <2>1 DEF Exposed
<1>4. CASE faults' = faults /\ uncovered' = uncovered BY <1>4 DEF Exposed
<1>5. \A n : Feed(n) => faults' = faults /\ uncovered' = uncovered BY Zenon DEF Feed
<1>6. \A x : SendFrame(x) => faults' = faults /\ uncovered' = uncovered BY DEF SendFrame
<1>7. GetMessage \/ GetStreamEvent => faults' = faults /\ uncovered' = uncovered
  BY DEF GetMessage, GetStreamEvent
<1>8. UNCHANGED vars => faults' = faults /\ uncovered' = uncovered BY DEF vars
<1> QED BY <1>1, <1>2, <1>3, <1>4, <1>5, <1>6, <1>7, <1>8 DEF Next

LEMMA InvAlways == Spec => [](Exposed /\ (uncovered \/ Inv))
<1>1. Init => Exposed /\ (uncovered \/ Inv)
  <2>1. Init => faults = 0 /\ uncovered = FALSE BY DEF Init
  <2>2. Init => Exposed
    <3>1. ASSUME faults = 0, uncovered = FALSE PROVE Exposed BY <3>1 DEF Exposed
    <3> QED BY <2>1, <3>1
  <2> QED BY ONLY <2>2, InitInv, Zenon
<1>2. Exposed /\ (uncovered \/ Inv) /\ [Next]_vars => (Exposed /\ (uncovered \/ Inv))'
  BY NextInv, NextExposed
<1> QED BY <1>1, <1>2, PTL DEF Spec

-----------------------------------------------------------------------------
(* Safety. *)

\* The lengths of messages that 16 bits of slices hold.
LengthsFit == \A length \in Lengths : Fits(length, TRUE)

LEMMA InvIntact ==
  ASSUME LengthsFit, Inv
  PROVE  CheckedMessagesIntact
<1>1. PICK V : V = Messages(plan, Ok) OBVIOUS
<1>2. got.messages \in Seq(V) /\ completed \in Seq(V) BY <1>1 DEF Inv, FieldsInv
<1>3. PICK s : s = Delivered OBVIOUS
<1>4. s \in Seq(V) BY <1>2, <1>3 DEF Delivered
<1>5. ASSUME NEW i \in DOMAIN s, plan[s[i].id].crc PROVE s[i].data = Content(s[i].id)
  <2>1. s[i] \in V BY <1>4
  <2>2. PICK m \in MsgIds : m = s[i].id BY <1>1, <2>1 DEF Messages
  <2>3. plan[m].length \in Lengths /\ plan[m].crc = TRUE BY <1>5, <2>2 DEF Inv, Plans
  <2>4. Fits(plan[m].length, plan[m].crc) BY <2>3 DEF LengthsFit
  <2>5. Trusted(plan, Ok, m) BY <2>3 DEF Trusted
  <2>6. s[i].data = Bytes(m, plan[m].length) BY <1>1, <2>1, <2>2, <2>4, <2>5 DEF Messages
  <2> QED BY <2>2, <2>6 DEF Bytes, Content
<1> QED BY <1>3, <1>5 DEF CheckedMessagesIntact

\* As long as all damage is to bytes that a CRC covers, a message that was sent with
\* a CRC is delivered as it was sent or not at all, for any sizes of headers and
\* frames, any number of messages and streams, and any number of damaged bytes,
\* clean-ups and resets (Decoder::TryDecode).  The messages are those whose slices
\* 16 bits can number (LengthsFit): the encoder takes longer ones, too, and sends
\* only a part of them, see Encoder::EncodeMessage.
THEOREM CheckedMessagesStayIntact ==
  ASSUME LengthsFit
  PROVE  Spec => []CheckedMessagesIntact
<1>1. uncovered \/ Inv => CheckedMessagesIntact BY InvIntact DEF CheckedMessagesIntact
<1> QED BY <1>1, InvAlways, PTL

-----------------------------------------------------------------------------
(* A decoder that has thrown. *)

IsSeq(s) == \E V : s \in Seq(V)
HasLength(f) == "payload_len" \in DOMAIN f /\ f.payload_len \in Nat
IsBytes(s) == IsSeq(s) /\ \A i \in 1..Len(s) : HasLength(s[i].frame)

\* The frame in front of a buffer as the decoder reads it, hurt or not.
PayloadRead(b) == SubSeq(b, HeaderSize + 1, HeaderSize + Header(b).payload_len)
FrontFrame(b) == Identified(Header(b), PayloadRead(b))

\* What makes a round throw depends on nothing but the front of the buffer.
BadIndex(f, bytes) == ~CrcMismatch(f, bytes) /\ f.type = "Message" /\ f.sequence >= f.total_slices
Unreadable(b) ==
  /\ Len(b) >= HeaderSize
  /\ \/ b[1].k # 1 \/ b[1].bad
     \/ Header(b).payload_len > MaxFramePayload
     \/ /\ Len(b) >= HeaderSize + Header(b).payload_len
        /\ BadIndex(FrontFrame(b), PayloadRead(b))

LEMMA HeaderLength ==
  ASSUME NEW b, IsBytes(b), Len(b) >= HeaderSize
  PROVE  HasLength(Header(b)) /\ Len(b) \in Nat /\ 1 \in 1..Len(b) /\ HeaderSize \in 1..Len(b)
<1>1. PICK V : b \in Seq(V) BY DEF IsBytes, IsSeq
<1>2. Len(b) \in Nat /\ HeaderSize \in Nat \ {0, 1} BY <1>1, SizesAssumption
<1>3. 1 \in 1..Len(b) /\ HeaderSize \in 1..Len(b) BY <1>2
<1>4. HasLength(b[1].frame) /\ HasLength(b[HeaderSize].frame) BY <1>3 DEF IsBytes
<1> QED BY <1>2, <1>3, <1>4 DEF Header

\* Bytes that arrive behind it do not change what is in front.
LEMMA StaysUnreadable ==
  ASSUME NEW b, NEW s, IsBytes(b), IsSeq(s), Unreadable(b)
  PROVE  Unreadable(b \o s)
<1>1. PICK V : b \in Seq(V) /\ s \in Seq(V)
  <2>1. PICK V : b \in Seq(V) BY DEF IsBytes, IsSeq
  <2>2. PICK W : s \in Seq(W) BY DEF IsSeq
  <2>3. PICK U : U = V \cup W OBVIOUS
  <2>4. V \subseteq U /\ W \subseteq U BY <2>3
  <2>5. b \in Seq(U) /\ s \in Seq(U) BY <2>1, <2>2, <2>4, SeqMonotonic
  <2> QED BY <2>5
<1>2. PICK t : t = b \o s OBVIOUS
<1>3. /\ t \in Seq(V) /\ Len(t) = Len(b) + Len(s)
      /\ \A i \in 1..Len(b) + Len(s) : t[i] = IF i <= Len(b) THEN b[i] ELSE s[i - Len(b)]
  BY <1>1, <1>2, ConcatProperties
<1>4. Len(b) \in Nat /\ Len(s) \in Nat /\ HeaderSize \in Nat /\ Len(b) >= HeaderSize
  BY <1>1, SizesAssumption DEF Unreadable
<1>5. \A i \in 1..Len(b) : t[i] = b[i] BY <1>3, <1>4
<1>6. 1 \in 1..Len(b) /\ HeaderSize \in 1..Len(b) /\ HasLength(Header(b)) BY <1>4, HeaderLength
<1>7. Header(t) = Header(b) /\ t[1] = b[1] BY <1>5, <1>6 DEF Header
<1>8. Len(t) >= HeaderSize BY <1>3, <1>4
<1>9. CASE b[1].k # 1 \/ b[1].bad \/ Header(b).payload_len > MaxFramePayload
  BY <1>2, <1>7, <1>8, <1>9 DEF Unreadable
<1>10. CASE Len(b) >= HeaderSize + Header(b).payload_len /\ BadIndex(FrontFrame(b), PayloadRead(b))
  <2>1. PICK i \in Nat \ {0}, j \in Nat :
          i = HeaderSize + 1 /\ j = HeaderSize + Header(b).payload_len /\ j <= Len(b) /\ j <= Len(t)
    <3>1. HeaderSize + Header(b).payload_len \in Nat BY <1>4, <1>6 DEF HasLength
    <3>2. HeaderSize + Header(b).payload_len <= Len(b) BY <1>4, <1>10, <3>1
    <3>3. Len(b) <= Len(t) /\ Len(t) \in Nat BY <1>3, <1>4
    <3>4. HeaderSize + Header(b).payload_len <= Len(t) BY <1>4, <3>1, <3>2, <3>3
    <3>5. PICK i \in Nat \ {0} : i = HeaderSize + 1 BY <1>4
    <3>6. PICK j \in Nat : j = HeaderSize + Header(b).payload_len BY <3>1
    <3> QED BY <3>2, <3>4, <3>5, <3>6
  <2>2. PayloadRead(b) = SubSeq(b, i, j) /\ PayloadRead(t) = SubSeq(t, i, j)
    BY <1>7, <2>1 DEF PayloadRead
  <2>3. SubSeq(t, i, j) = SubSeq(b, i, j)
    <3>1. PICK x, y : x = SubSeq(b, i, j) /\ y = SubSeq(t, i, j) OBVIOUS
    <3>2. /\ x \in Seq(V) /\ Len(x) = (IF i <= j THEN j - i + 1 ELSE 0)
          /\ \A n \in 1..Len(x) : x[n] = b[i + n - 1]
      BY <1>1, <2>1, <3>1, PartOfBuffer
    <3>3. /\ y \in Seq(V) /\ Len(y) = (IF i <= j THEN j - i + 1 ELSE 0)
          /\ \A n \in 1..Len(y) : y[n] = t[i + n - 1]
      <4>1. t \in Seq(V) /\ j <= Len(t) BY <1>3, <2>1
      <4> QED BY ONLY <4>1, <3>1, i \in Nat \ {0}, j \in Nat, PartOfBuffer
    <3>4. Len(x) = Len(y) BY <3>2, <3>3
    <3>5. \A n \in 1..Len(x) : i + n - 1 \in 1..Len(b)
      BY <3>2, <2>1, <1>4
    <3>6. \A n \in 1..Len(x) : x[n] = y[n] BY <3>2, <3>3, <3>4, <3>5, <1>5
    <3> QED BY <3>1, <3>2, <3>3, <3>4, <3>6, SeqEqual
  <2>4. PayloadRead(t) = PayloadRead(b) BY <2>2, <2>3
  <2>5. FrontFrame(t) = FrontFrame(b) BY <2>4, <1>7 DEF FrontFrame
  <2>6. Len(t) >= HeaderSize + Header(t).payload_len BY <1>3, <1>7, <2>1
  <2> QED BY <1>2, <1>8, <1>10, <2>4, <2>5, <2>6 DEF Unreadable
<1> QED BY <1>9, <1>10 DEF Unreadable

\* The decoder as a record, with no more said of it than that.
IsDecoder(d) ==
  \E b, ms, c, e, n, done, fails :
    /\ d = Record(b, ms, c, e, n, done, fails)
    /\ IsBytes(b) /\ IsSeq(c) /\ IsSeq(e)
    /\ done \in BOOLEAN /\ fails \in BOOLEAN
    /\ fails => done /\ Unreadable(b)

\* A frame that is read is taken out of the buffer, and what it carries is
\* appended somewhere.
ConsumedAs(d, f, r, ms, x, c, e, n) ==
  /\ c \in {d.completed, Append(d.completed, x)}
  /\ e \in {d.stream_events, Append(d.stream_events, x)}
  /\ r = Record(SubSeq(d.buffer, HeaderSize + f.payload_len + 1, Len(d.buffer)), ms, c, e, n,
                d.done, d.failed)
Consumed(d, f, r) == \E ms, x, c, e, n : ConsumedAs(d, f, r, ms, x, c, e, n)

LEMMA ReadsConsume ==
  ASSUME NEW b, NEW ms, NEW c, NEW e, NEW n, NEW done, NEW fails,
         NEW d, d = Record(b, ms, c, e, n, done, fails), NEW f, NEW bytes
  PROVE  /\ Consumed(d, f, Erased(d, f))
         /\ Consumed(d, f, WithStreamEvent(d, f, bytes))
         /\ Consumed(d, f, WithMessage(d, f, bytes))
<1>1. /\ d.buffer = b /\ d.messages = ms /\ d.completed = c /\ d.stream_events = e
      /\ d.frames = n /\ d.done = done /\ d.failed = fails
  BY RecordFields
<1>2. PICK b1 : b1 = SubSeq(d.buffer, HeaderSize + f.payload_len + 1, Len(d.buffer)) OBVIOUS
<1>3. PICK n1 : n1 = d.frames + 1 OBVIOUS
<1>4. PICK h : h = Erased(d, f) OBVIOUS
<1>5. h = [d EXCEPT !.buffer = b1, !.frames = n1] BY <1>2, <1>3, <1>4, Zenon DEF Erased
<1>6. h = Record(b1, ms, c, e, n1, done, fails)
  <2>1. h = Record(h.buffer, h.messages, h.completed, h.stream_events, h.frames, h.done, h.failed)
    BY <1>5 DEF Record
  <2>2. /\ h.buffer = b1 /\ h.messages = ms /\ h.completed = c /\ h.stream_events = e
        /\ h.frames = n1 /\ h.done = done /\ h.failed = fails
    BY <1>5 DEF Record
  <2> QED BY <2>1, <2>2
<1>7. \A ms1, x, c1, e1 :
        c1 \in {c, Append(c, x)} /\ e1 \in {e, Append(e, x)} =>
          Consumed(d, f, Record(b1, ms1, c1, e1, n1, done, fails))
  <2> TAKE ms1, x, c1, e1
  <2> HAVE c1 \in {c, Append(c, x)} /\ e1 \in {e, Append(e, x)}
  <2>1. PICK r : r = Record(b1, ms1, c1, e1, n1, done, fails) OBVIOUS
  <2>2. /\ c1 \in {d.completed, Append(d.completed, x)}
        /\ e1 \in {d.stream_events, Append(d.stream_events, x)}
    BY <1>1
  <2>3. r = Record(SubSeq(d.buffer, HeaderSize + f.payload_len + 1, Len(d.buffer)), ms1, c1, e1, n1,
                   d.done, d.failed)
    BY <1>1, <1>2, <2>1
  <2>4. ConsumedAs(d, f, r, ms1, x, c1, e1, n1) BY ONLY <2>2, <2>3, Zenon DEF ConsumedAs
  <2>5. Consumed(d, f, r) BY ONLY <2>4, Zenon DEF Consumed
  <2> QED BY <2>1, <2>5
<1>8. Consumed(d, f, Erased(d, f)) BY <1>4, <1>6, <1>7
<1>9. h.completed = c /\ h.stream_events = e /\ h.messages = ms BY <1>6 DEF Record
<1>10. Consumed(d, f, WithStreamEvent(d, f, bytes))
  <2>1. PICK x : x = [type |-> f.type, id |-> f.id, offset |-> f.sequence, data |-> Received(f, bytes)]
    OBVIOUS
  <2>2. PICK e1 : e1 = Append(e, x) OBVIOUS
  <2>3. WithStreamEvent(d, f, bytes) = [h EXCEPT !.stream_events = e1]
    BY <1>4, <1>9, <2>1, <2>2, Zenon DEF WithStreamEvent
  <2>4. [h EXCEPT !.stream_events = e1] = Record(b1, ms, c, e1, n1, done, fails)
    BY <1>6 DEF Record
  <2>5. c \in {c, Append(c, x)} /\ e1 \in {e, Append(e, x)} BY <2>2
  <2>6. Consumed(d, f, Record(b1, ms, c, e1, n1, done, fails)) BY ONLY <1>7, <2>5, Zenon
  <2> QED BY <2>3, <2>4, <2>6
<1>11. Consumed(d, f, WithMessage(d, f, bytes))
  <2>1. PICK m : m = Store(Assembly(d, f), f, Received(f, bytes)) OBVIOUS
  <2>2. PICK x, c1, m1, m2 :
          /\ x = [id |-> f.id, data |-> FlattenSeq(m.slices)] /\ c1 = Append(c, x)
          /\ m1 = [i \in DOMAIN ms \ {f.id} |-> ms[i]]
          /\ m2 = [i \in DOMAIN ms \cup {f.id} |-> IF i = f.id THEN m ELSE ms[i]]
    OBVIOUS
  <2>3. CASE m.received = Len(m.slices)
    <3>1. WithMessage(d, f, bytes) = [h EXCEPT !.completed = c1, !.messages = m1]
      BY <1>4, <1>9, <2>1, <2>2, <2>3, Zenon DEF WithMessage
    <3>2. PICK r : r = [h EXCEPT !.completed = c1, !.messages = m1] OBVIOUS
    <3>3. r = Record(r.buffer, r.messages, r.completed, r.stream_events, r.frames, r.done, r.failed)
      BY <1>6, <3>2 DEF Record
    <3>4. /\ r.buffer = b1 /\ r.messages = m1 /\ r.completed = c1 /\ r.stream_events = e
          /\ r.frames = n1 /\ r.done = done /\ r.failed = fails
      BY <1>6, <3>2 DEF Record
    <3>5. r = Record(b1, m1, c1, e, n1, done, fails) BY <3>3, <3>4
    <3>6. c1 \in {c, Append(c, x)} /\ e \in {e, Append(e, x)} BY <2>2
    <3>7. Consumed(d, f, Record(b1, m1, c1, e, n1, done, fails)) BY ONLY <1>7, <3>6, Zenon
    <3> QED BY <3>1, <3>2, <3>5, <3>7
  <2>4. CASE ~(m.received = Len(m.slices))
    <3>1. WithMessage(d, f, bytes) = [h EXCEPT !.messages = m2]
      BY <1>4, <1>9, <2>1, <2>2, <2>4, Zenon DEF WithMessage
    <3>2. [h EXCEPT !.messages = m2] = Record(b1, m2, c, e, n1, done, fails) BY <1>6 DEF Record
    <3>3. c \in {c, Append(c, x)} /\ e \in {e, Append(e, x)} OBVIOUS
    <3>4. Consumed(d, f, Record(b1, m2, c, e, n1, done, fails)) BY ONLY <1>7, <3>3, Zenon
    <3> QED BY <3>1, <3>2, <3>4
  <2> QED BY <2>3, <2>4
<1> QED BY <1>8, <1>10, <1>11

LEMMA StepShape ==
  ASSUME NEW d, IsBytes(d.buffer)
  PROVE  /\ Unreadable(d.buffer) => DecodeStep(d) = Throw(d)
         /\ \/ Unreadable(d.buffer)
            \/ DecodeStep(d) = [d EXCEPT !.done = TRUE]
            \/ \E f, bytes : /\ HasLength(f) /\ Len(d.buffer) >= HeaderSize + f.payload_len
                             /\ \/ DecodeStep(d) = Erased(d, f)
                                \/ DecodeStep(d) = WithStreamEvent(d, f, bytes)
                                \/ DecodeStep(d) = WithMessage(d, f, bytes)
<1>1. PICK b, h, y, f : b = d.buffer /\ h = Header(b) /\ y = PayloadRead(b) /\ f = FrontFrame(b)
  OBVIOUS
<1>2. PICK V : b \in Seq(V) BY <1>1 DEF IsBytes, IsSeq
<1>3. Len(b) \in Nat /\ HeaderSize \in Nat BY <1>2, SizesAssumption
<1>4. DecodeStep(d) =
        IF Len(b) < HeaderSize THEN [d EXCEPT !.done = TRUE]
        ELSE IF b[1].k # 1 \/ b[1].bad \/ h.payload_len > MaxFramePayload THEN Throw(d)
        ELSE IF Len(b) < HeaderSize + h.payload_len THEN [d EXCEPT !.done = TRUE]
        ELSE IF CrcMismatch(f, y) THEN Erased(d, f)
        ELSE IF f.type # "Message" THEN WithStreamEvent(d, f, y)
        ELSE IF f.sequence >= f.total_slices THEN Throw(d)
        ELSE WithMessage(d, f, y)
  BY <1>1, Zenon DEF DecodeStep, PayloadRead, FrontFrame
<1>5. CASE Len(b) < HeaderSize
  <2>1. ~Unreadable(b) BY <1>3, <1>5 DEF Unreadable
  <2> QED BY <1>1, <1>4, <1>5, <2>1
<1>6. CASE ~(Len(b) < HeaderSize)
  <2>1. Len(b) >= HeaderSize BY <1>3, <1>6
  <2>2. HasLength(h) BY <1>1, <2>1, HeaderLength
  <2>3. HasLength(f) /\ f.payload_len = h.payload_len
    BY <1>1, <2>2 DEF HasLength, FrontFrame, Identified
  <2>4. CASE b[1].k # 1 \/ b[1].bad \/ h.payload_len > MaxFramePayload
    <3>1. Unreadable(b) BY <1>1, <2>1, <2>4 DEF Unreadable
    <3> QED BY <1>1, <1>4, <1>6, <2>4, <3>1
  <2>5. CASE ~(b[1].k # 1 \/ b[1].bad \/ h.payload_len > MaxFramePayload)
    <3>1. h.payload_len \in Nat BY <2>2 DEF HasLength
    <3>2. CASE Len(b) < HeaderSize + h.payload_len
      <4>1. ~(Len(b) >= HeaderSize + h.payload_len) BY <1>3, <3>1, <3>2
      <4>2. ~Unreadable(b) BY <1>1, <2>5, <4>1 DEF Unreadable
      <4> QED BY <1>1, <1>4, <1>6, <2>5, <3>2, <4>2
    <3>3. CASE ~(Len(b) < HeaderSize + h.payload_len)
      <4>1. Len(b) >= HeaderSize + h.payload_len BY <1>3, <3>1, <3>3
      <4>2. Unreadable(b) <=> BadIndex(f, y) BY <1>1, <2>1, <2>5, <4>1, Zenon DEF Unreadable
      <4>3. DecodeStep(d) = IF CrcMismatch(f, y) THEN Erased(d, f)
                            ELSE IF f.type # "Message" THEN WithStreamEvent(d, f, y)
                            ELSE IF f.sequence >= f.total_slices THEN Throw(d)
                            ELSE WithMessage(d, f, y)
        BY <1>4, <1>6, <2>5, <3>3, Zenon
      <4>4. Len(b) >= HeaderSize + f.payload_len BY <2>3, <4>1
      <4>5. CASE BadIndex(f, y)
        <5>1. DecodeStep(d) = Throw(d) BY <4>3, <4>5, Zenon DEF BadIndex
        <5> QED BY <1>1, <4>2, <4>5, <5>1
      <4>6. CASE ~BadIndex(f, y)
        <5>1. \/ DecodeStep(d) = Erased(d, f)
              \/ DecodeStep(d) = WithStreamEvent(d, f, y)
              \/ DecodeStep(d) = WithMessage(d, f, y)
          BY <4>3, <4>6, Zenon DEF BadIndex
        <5> QED BY <1>1, <2>3, <4>2, <4>4, <4>6, <5>1
      <4> QED BY <4>5, <4>6
    <3> QED BY <3>2, <3>3
  <2> QED BY <2>4, <2>5
<1> QED BY <1>5, <1>6

LEMMA SeqAppends ==
  ASSUME NEW s, IsSeq(s), NEW x
  PROVE  IsSeq(Append(s, x))
<1>1. PICK V : s \in Seq(V) BY DEF IsSeq
<1>2. PICK U : U = V \cup {x} OBVIOUS
<1>3. V \subseteq U /\ x \in U BY <1>2
<1>4. s \in Seq(U) BY <1>1, <1>3, SeqMonotonic
<1>5. Append(s, x) \in Seq(U) BY <1>3, <1>4, AppendProperties
<1> QED BY <1>5 DEF IsSeq

LEMMA BytesCut ==
  ASSUME NEW s, IsBytes(s), NEW i \in Nat \ {0}, NEW j \in Nat, j <= Len(s)
  PROVE  IsBytes(SubSeq(s, i, j))
<1>1. PICK V : s \in Seq(V) BY DEF IsBytes, IsSeq
<1>2. PICK t : t = SubSeq(s, i, j) OBVIOUS
<1>3. /\ t \in Seq(V) /\ Len(t) = (IF i <= j THEN j - i + 1 ELSE 0)
      /\ \A n \in 1..Len(t) : t[n] = s[i + n - 1]
  BY <1>1, <1>2, PartOfBuffer
<1>4. Len(s) \in Nat BY <1>1
<1>5. \A n \in 1..Len(t) : i + n - 1 \in 1..Len(s) BY <1>3, <1>4
<1>6. \A n \in 1..Len(t) : HasLength(t[n].frame) BY <1>3, <1>5 DEF IsBytes
<1> QED BY <1>2, <1>3, <1>6 DEF IsBytes, IsSeq

LEMMA BytesJoin ==
  ASSUME NEW s, NEW t, IsBytes(s), IsBytes(t)
  PROVE  IsBytes(s \o t)
<1>1. PICK V : s \in Seq(V) BY DEF IsBytes, IsSeq
<1>2. PICK W : t \in Seq(W) BY DEF IsBytes, IsSeq
<1>3. PICK U : U = V \cup W OBVIOUS
<1>4. V \subseteq U /\ W \subseteq U BY <1>3
<1>5. s \in Seq(U) /\ t \in Seq(U) BY <1>1, <1>2, <1>4, SeqMonotonic
<1>6. PICK r : r = s \o t OBVIOUS
<1>7. /\ r \in Seq(U) /\ Len(r) = Len(s) + Len(t)
      /\ \A i \in 1..Len(s) + Len(t) : r[i] = IF i <= Len(s) THEN s[i] ELSE t[i - Len(s)]
  BY <1>5, <1>6, ConcatProperties
<1>8. Len(s) \in Nat /\ Len(t) \in Nat BY <1>5
<1>9. ASSUME NEW i \in 1..Len(r) PROVE HasLength(r[i].frame)
  <2>1. CASE i <= Len(s)
    <3>1. i \in 1..Len(s) /\ r[i] = s[i] BY <1>7, <1>8, <2>1
    <3> QED BY <3>1 DEF IsBytes
  <2>2. CASE ~(i <= Len(s))
    <3>1. i - Len(s) \in 1..Len(t) /\ r[i] = t[i - Len(s)] BY <1>7, <1>8, <2>2
    <3> QED BY <3>1 DEF IsBytes
  <2> QED BY <2>1, <2>2
<1> QED BY <1>6, <1>7, <1>9 DEF IsBytes, IsSeq

\* A round throws only in front of what it cannot read.
LEMMA RoundIsDecoder ==
  ASSUME NEW d, IsDecoder(d)
  PROVE  IsDecoder(Round(d))
<1>1. PICK b, ms, c, e, n, done, fails :
        /\ d = Record(b, ms, c, e, n, done, fails)
        /\ IsBytes(b) /\ IsSeq(c) /\ IsSeq(e)
        /\ done \in BOOLEAN /\ fails \in BOOLEAN
        /\ fails => done /\ Unreadable(b)
  BY DEF IsDecoder
<1>2. /\ d.buffer = b /\ d.messages = ms /\ d.completed = c /\ d.stream_events = e
      /\ d.frames = n /\ d.done = done /\ d.failed = fails
  BY ONLY <1>1, RecordFields
<1>3. CASE d.done BY <1>3 DEF Round
<1>4. CASE ~d.done
  <2>1. PICK r : r = Round(d) OBVIOUS
  <2>2. r = DecodeStep(d) BY <1>4, <2>1 DEF Round
  <2>3. done = FALSE /\ fails = FALSE BY <1>1, <1>2, <1>4
  <2>4. CASE Unreadable(b)
    <3>1. r = Throw(d) BY <1>1, <1>2, <2>2, <2>4, StepShape
    <3>2. PICK x : x = TRUE OBVIOUS
    <3>3. r = [d EXCEPT !.done = x, !.failed = x] BY <3>1, <3>2, Zenon DEF Throw
    <3>4. r = Record(r.buffer, r.messages, r.completed, r.stream_events, r.frames, r.done, r.failed)
      BY <1>1, <3>3 DEF Record
    <3>5. /\ r.buffer = b /\ r.messages = ms /\ r.completed = c /\ r.stream_events = e
          /\ r.frames = n /\ r.done = x /\ r.failed = x
      BY <1>1, <3>3 DEF Record
    <3>6. r = Record(b, ms, c, e, n, x, x) BY <3>4, <3>5
    <3>7. x \in BOOLEAN /\ x BY <3>2
    <3> QED BY <2>1, <2>4, <3>6, <3>7, <1>1 DEF IsDecoder
  <2>5. CASE r = [d EXCEPT !.done = TRUE]
    <3>1. PICK x : x = TRUE OBVIOUS
    <3>2. r = [d EXCEPT !.done = x] BY <2>5, <3>1
    <3>4. r = Record(r.buffer, r.messages, r.completed, r.stream_events, r.frames, r.done, r.failed)
      BY <1>1, <3>2 DEF Record
    <3>5. /\ r.buffer = b /\ r.messages = ms /\ r.completed = c /\ r.stream_events = e
          /\ r.frames = n /\ r.done = x /\ r.failed = fails
      BY <1>1, <3>2 DEF Record
    <3>6. r = Record(b, ms, c, e, n, x, fails) BY <3>4, <3>5
    <3>7. x \in BOOLEAN BY <3>1
    <3> QED BY <2>1, <2>3, <3>6, <3>7, <1>1 DEF IsDecoder
  <2>6. ASSUME NEW f, HasLength(f), Len(b) >= HeaderSize + f.payload_len, Consumed(d, f, r)
        PROVE  IsDecoder(r)
    <3>1. PICK ms1, x, c1, e1, n1 :
            /\ c1 \in {c, Append(c, x)} /\ e1 \in {e, Append(e, x)}
            /\ r = Record(SubSeq(b, HeaderSize + f.payload_len + 1, Len(b)), ms1, c1, e1, n1,
                          done, fails)
      BY <1>2, <2>6 DEF Consumed, ConsumedAs
    <3>2. IsSeq(c1) /\ IsSeq(e1) BY <1>1, <3>1, SeqAppends
    <3>3. PICK V : b \in Seq(V) BY <1>1 DEF IsBytes, IsSeq
    <3>4. PICK i \in Nat \ {0} : i = HeaderSize + f.payload_len + 1
      BY <2>6, SizesAssumption DEF HasLength
    <3>5. Len(b) \in Nat /\ Len(b) <= Len(b) BY <3>3
    <3>6. IsBytes(SubSeq(b, i, Len(b))) BY <1>1, <3>5, BytesCut
    <3> QED BY <1>1, <2>3, <3>1, <3>2, <3>4, <3>6 DEF IsDecoder
  <2>7. \/ Unreadable(b)
        \/ r = [d EXCEPT !.done = TRUE]
        \/ \E f, bytes : /\ HasLength(f) /\ Len(b) >= HeaderSize + f.payload_len
                         /\ \/ r = Erased(d, f)
                            \/ r = WithStreamEvent(d, f, bytes)
                            \/ r = WithMessage(d, f, bytes)
    BY <1>1, <1>2, <2>2, StepShape
  <2>8. \A f, bytes : /\ Consumed(d, f, Erased(d, f)) /\ Consumed(d, f, WithStreamEvent(d, f, bytes))
                      /\ Consumed(d, f, WithMessage(d, f, bytes))
    BY <1>1, ReadsConsume
  <2> QED BY <2>1, <2>4, <2>5, <2>6, <2>7, <2>8
<1> QED BY <1>3, <1>4

LEMMA RoundsAreDecoders ==
  ASSUME NEW d, IsDecoder(d), NEW n \in Nat
  PROVE  \A i \in 0..n : IsDecoder(Rounds(d, n)[i])
<1> DEFINE S == {i \in Nat : i \in 0..n => IsDecoder(Rounds(d, n)[i])}
<1>1. 0 \in S BY RoundsDef
<1>2. ASSUME NEW i \in S PROVE i + 1 \in S
  <2> SUFFICES ASSUME i + 1 \in 0..n PROVE IsDecoder(Rounds(d, n)[i + 1]) OBVIOUS
  <2>1. i \in 0..n /\ i + 1 \in 1..n /\ i + 1 - 1 = i OBVIOUS
  <2>2. IsDecoder(Rounds(d, n)[i]) BY <2>1
  <2>3. Rounds(d, n)[i + 1] = Round(Rounds(d, n)[i]) BY <2>1, RoundsDef
  <2> QED BY <2>2, <2>3, RoundIsDecoder
<1> HIDE DEF S
<1>3. S = Nat
  <2>1. S \subseteq Nat BY DEF S
  <2> QED BY <1>1, <1>2, <2>1, NatsClosed
<1> QED BY <1>3 DEF S

ThrownAfter(d, k, b, ms, c, e, n) == Rounds(d, k)[k] = Record(b, ms, c, e, n, TRUE, TRUE)

\* In front of what it cannot read the first round throws, and the others do
\* nothing.
LEMMA ThrownRounds ==
  ASSUME NEW b, NEW ms, NEW c, NEW e, NEW n, IsBytes(b), Unreadable(b),
         NEW d, d = Record(b, ms, c, e, n, FALSE, FALSE), NEW k \in Nat \ {0}
  PROVE  ThrownAfter(d, k, b, ms, c, e, n)
<1>1. PICK r : r = Record(b, ms, c, e, n, TRUE, TRUE) OBVIOUS
<1>2. Round(d) = r
  <2>1. ~d.done /\ d.buffer = b BY DEF Record
  <2>2. Round(d) = Throw(d) BY <2>1, StepShape DEF Round
  <2>3. PICK x, o : x = TRUE /\ o = FALSE OBVIOUS
  <2>4. PICK u : u = [d EXCEPT !.done = x, !.failed = x] OBVIOUS
  <2>5. Throw(d) = u BY <2>3, <2>4, Zenon DEF Throw
  <2>6. d = Record(b, ms, c, e, n, o, o) BY <2>3
  <2>7. u = Record(u.buffer, u.messages, u.completed, u.stream_events, u.frames, u.done, u.failed)
    BY <2>4, <2>6 DEF Record
  <2>8. /\ u.buffer = b /\ u.messages = ms /\ u.completed = c /\ u.stream_events = e
        /\ u.frames = n /\ u.done = x /\ u.failed = x
    BY <2>4, <2>6 DEF Record
  <2>9. u = Record(b, ms, c, e, n, x, x) BY <2>7, <2>8
  <2> QED BY <1>1, <2>2, <2>3, <2>5, <2>9
<1>3. Round(r) = r
  <2>1. r.done BY <1>1 DEF Record
  <2> QED BY <2>1 DEF Round
<1>0. PICK g : g = Rounds(d, k) OBVIOUS
<1>4. g[0] = d /\ \A i \in 1..k : g[i] = Round(g[i - 1])
  <2>1. k \in Nat OBVIOUS
  <2> QED BY ONLY <1>0, <2>1, RoundsDef
<1> DEFINE S == {i \in Nat : i \in 1..k => g[i] = r}
<1>5. 0 \in S OBVIOUS
<1>6. ASSUME NEW i \in S PROVE i + 1 \in S
  <2> SUFFICES ASSUME i + 1 \in 1..k PROVE g[i + 1] = r OBVIOUS
  <2>1. g[i + 1] = Round(g[i])
    <3>1. PICK j \in 1..k : j = i + 1 /\ j - 1 = i OBVIOUS
    <3>2. g[j] = Round(g[j - 1]) BY <1>4
    <3> QED BY <3>1, <3>2
  <2>2. CASE i = 0 BY <1>2, <1>4, <2>1, <2>2
  <2>3. CASE i # 0
    <3>1. i \in 1..k BY <2>3
    <3>2. g[i] = r BY <3>1
    <3> QED BY <1>3, <2>1, <3>2
  <2> QED BY <2>2, <2>3
<1>7. S = Nat
  <2> HIDE DEF S
  <2>1. S \in SUBSET Nat BY DEF S
  <2> QED BY <1>5, <1>6, <2>1, NatsClosed
<1>8. k \in S /\ k \in 1..k BY ONLY <1>7, k \in Nat \ {0}
<1>9. g[k] = r BY <1>8
<1> QED BY <1>0, <1>1, <1>9 DEF ThrownAfter

\* A decoder has thrown only when it stands in front of what it cannot read,
\* whatever the damage.
ThrowInv ==
  /\ plan \in Plans
  /\ unsent \in [MsgIds \cup StreamIds -> Seq(Frames(plan))]
  /\ IsBytes(wire) /\ IsBytes(buffer)
  /\ IsSeq(completed) /\ IsSeq(stream_events)
  /\ failed \in BOOLEAN /\ (failed => Unreadable(buffer))

LEMMA InitThrow == Init => ThrowInv
<1> SUFFICES ASSUME Init PROVE ThrowInv OBVIOUS
<1>1. plan \in Plans /\ unsent \in [MsgIds \cup StreamIds -> Seq(Frames(plan))]
  BY InitInv DEF Inv
<1>2. IsSeq(<<>>) /\ Len(<<>>) = 0
  <2>1. <<>> \in Seq({}) OBVIOUS
  <2> QED BY <2>1 DEF IsSeq
<1>3. IsBytes(<<>>) BY <1>2 DEF IsBytes
<1> QED BY <1>1, <1>2, <1>3 DEF Init, ThrowInv

LEMMA FrameHasLength ==
  ASSUME NEW p \in Plans, NEW f \in Frames(p)
  PROVE  HasLength(f)
<1>1. PICK l : l = f.payload_len OBVIOUS
<1>2. l \in Nat
  <2>1. l \in 1..MaxFramePayload BY <1>1, SerializedBytes
  <2> QED BY <2>1, SizesAssumption
<1>3. CASE IsMessageFrame(p, f)
  <2>0. PICK m \in MsgIds : IsSent(p, m) /\ \E n \in 1..Total(p, m) : f = FrameOf(p, m, n)
    BY <1>3 DEF IsMessageFrame
  <2>1. PICK n \in 1..Total(p, m) : IsSent(p, m) /\ f = FrameOf(p, m, n) BY <2>0
  <2>2. f = [type |-> "Message", id |-> m, total_slices |-> Total(p, m), sequence |-> n - 1,
             data |-> SliceOf(p, m, n), flags |-> p[m].crc, sealed |-> p[m].crc, payload_len |-> l]
    BY <1>1, <2>1, MessageFrameShape
  <2> QED BY <1>1, <1>2, <2>2 DEF HasLength
<1>4. CASE IsStreamFrame(f)
  <2>1. PICK t, i, a : t = f.type /\ i = f.id /\ a = f.data OBVIOUS
  <2>2. f = [type |-> t, id |-> i, total_slices |-> 0, sequence |-> 0,
             data |-> a, flags |-> FALSE, sealed |-> FALSE, payload_len |-> l]
    BY <1>1, <1>4, <2>1, StreamFrameShape
  <2> QED BY <1>1, <1>2, <2>2 DEF HasLength
<1> QED BY <1>3, <1>4 DEF Frames

LEMMA SendThrow ==
  ASSUME ThrowInv, NEW x \in MsgIds \cup StreamIds, SendFrame(x)
  PROVE  ThrowInv'
<1>1. plan' = plan /\ decoder' = decoder /\ unsent[x] # <<>>
        /\ unsent' = [unsent EXCEPT ![x] = Tail(@)] /\ wire' = wire \o Serialize(Head(unsent[x]))
  BY DEF SendFrame
<1>2. unsent[x] \in Seq(Frames(plan)) BY DEF ThrowInv
<1>3. PICK f \in Frames(plan) : f = Head(unsent[x]) BY <1>1, <1>2
<1>4. Tail(unsent[x]) \in Seq(Frames(plan)) BY <1>1, <1>2
<1>5. unsent' \in [MsgIds \cup StreamIds -> Seq(Frames(plan))] BY <1>1, <1>4 DEF ThrowInv
<1>6. IsBytes(Serialize(f))
  <2>1. plan \in Plans /\ TRUE \in BOOLEAN BY DEF ThrowInv
  <2>2. /\ Serialize(f) \in Seq(WireBytes(plan, TRUE))
        /\ Len(Serialize(f)) = HeaderSize + f.payload_len
        /\ \A k \in 1..HeaderSize + f.payload_len :
             Serialize(f)[k] = [frame |-> f, k |-> k, bad |-> FALSE]
    BY <2>1, SerializedBytes
  <2>3. HasLength(f) BY <2>1, FrameHasLength
  <2>4. \A k \in 1..Len(Serialize(f)) : Serialize(f)[k].frame = f
    <3>1. PICK s : s = Serialize(f) OBVIOUS
    <3>2. \A k \in 1..Len(s) : s[k] = [frame |-> f, k |-> k, bad |-> FALSE] BY <2>2, <3>1
    <3>3. \A k : [frame |-> f, k |-> k, bad |-> FALSE].frame = f OBVIOUS
    <3>4. \A k \in 1..Len(s) : s[k].frame = f BY <3>2, <3>3
    <3> QED BY <3>1, <3>4
  <2> QED BY <2>2, <2>3, <2>4 DEF IsBytes, IsSeq
<1>7. IsBytes(wire') BY <1>1, <1>3, <1>6, BytesJoin DEF ThrowInv
<1>8. /\ buffer' = buffer /\ completed' = completed /\ stream_events' = stream_events
      /\ failed' = failed
  BY <1>1 DEF decoder
<1> QED BY <1>1, <1>5, <1>7, <1>8 DEF ThrowInv

\* Whatever damage makes of a header, it has a length.
LEMMA DamagedLength ==
  ASSUME NEW y, HasLength(y.frame), NEW v \in DamagedByte(y)
  PROVE  HasLength(v.frame)
<1>1. PICK f : f = y.frame OBVIOUS
<1>2. v.frame \in MisreadHeader(f) \cup MisreadPayload(f) \cup {f} BY <1>1 DEF DamagedByte
<1>3. \A type, flags, size : size \in Nat => HasLength(ReadAs(f, type, flags, size))
  <2> SUFFICES ASSUME NEW type, NEW flags, NEW size \in Nat
               PROVE  HasLength(ReadAs(f, type, flags, size))
    OBVIOUS
  <2>1. PICK s, d : /\ s = (f.sealed /\ size = f.payload_len)
                    /\ d = [i \in 1..size - MsgHeaderSize - (IF flags THEN CrcSize ELSE 0) |->
                              IF i <= Len(f.data) THEN f.data[i] ELSE <<f.id, 0>>]
    OBVIOUS
  <2>2. PICK h : h = [f EXCEPT !.type = type, !.flags = flags, !.payload_len = size,
                               !.sealed = s, !.data = d]
    OBVIOUS
  <2>3. ReadAs(f, type, flags, size) = h BY <2>1, <2>2, Zenon DEF ReadAs
  <2>4. "payload_len" \in DOMAIN h /\ h.payload_len = size BY <1>1, <2>2 DEF HasLength
  <2> QED BY <2>3, <2>4 DEF HasLength
<1>4. ASSUME NEW g \in MisreadHeader(f) PROVE HasLength(g)
  <2>1. f.payload_len \in Nat BY <1>1 DEF HasLength
  <2>2. \A size \in MsgHeaderSize..MaxFramePayload + 1 : size \in Nat BY SizesAssumption
  <2>3. PICK type, flags, size :
          /\ g = ReadAs(f, type, flags, size)
          /\ size = f.payload_len \/ size \in MsgHeaderSize..MaxFramePayload + 1
    BY <1>4, Zenon DEF MisreadHeader
  <2> QED BY <1>3, <2>1, <2>2, <2>3
<1>5. ASSUME NEW g \in MisreadPayload(f) PROVE HasLength(g)
  <2>1. \A x : HasLength([f EXCEPT !.id = x]) BY <1>1 DEF HasLength
  <2>2. \A x : HasLength([f EXCEPT !.total_slices = x]) BY <1>1 DEF HasLength
  <2>3. \A x : HasLength([f EXCEPT !.sequence = x]) BY <1>1 DEF HasLength
  <2> QED BY <1>5, <2>1, <2>2, <2>3 DEF MisreadPayload
<1> QED BY <1>1, <1>2, <1>4, <1>5

LEMMA DamageThrow ==
  ASSUME ThrowInv, Damage
  PROVE  ThrowInv'
<1>1. plan' = plan /\ unsent' = unsent /\ decoder' = decoder BY DEF Damage
<1>2. PICK i \in DOMAIN wire : \E y \in DamagedByte(wire[i]) : wire' = [wire EXCEPT ![i] = y]
  BY DEF Damage
<1>3. PICK v \in DamagedByte(wire[i]) : wire' = [wire EXCEPT ![i] = v] BY <1>2
<1>4. PICK V : wire \in Seq(V) BY DEF ThrowInv, IsBytes, IsSeq
<1>5. Len(wire) \in Nat /\ DOMAIN wire = 1..Len(wire) BY <1>4
<1>6. HasLength(wire[i].frame) BY <1>5 DEF ThrowInv, IsBytes
<1>7. HasLength(v.frame) BY <1>6, DamagedLength
<1>8. PICK U : U = V \cup {v} OBVIOUS
<1>9. wire \in Seq(U)
  <2>1. V \subseteq U BY <1>8
  <2> QED BY <1>4, <2>1, SeqMonotonic
<1>10. v \in U BY <1>8
<1>11. wire' \in Seq(U) /\ Len(wire') = Len(wire) BY <1>3, <1>5, <1>9, <1>10
<1>12. \A j \in 1..Len(wire) : wire'[j] = IF j = i THEN v ELSE wire[j] BY <1>3, <1>5
<1>13. \A j \in 1..Len(wire') : HasLength(wire'[j].frame)
  BY <1>7, <1>11, <1>12 DEF ThrowInv, IsBytes
<1>14. IsBytes(wire') BY <1>11, <1>13 DEF IsBytes, IsSeq
<1>15. /\ buffer' = buffer /\ completed' = completed /\ stream_events' = stream_events
       /\ failed' = failed
  BY <1>1 DEF decoder
<1> QED BY <1>1, <1>14, <1>15 DEF ThrowInv

\* Feed, of any bytes.
LEMMA FeedThrow ==
  ASSUME ThrowInv, NEW n \in 1..Len(wire), Feed(n)
  PROVE  /\ ThrowInv'
         /\ failed => failed' /\ completed' = completed /\ stream_events' = stream_events
<1>1. Len(wire) \in Nat BY DEF ThrowInv, IsBytes, IsSeq
<1>2. n \in Nat \ {0} /\ n <= Len(wire) BY <1>1
<1>3. PICK s : s = SubSeq(wire, 1, n) OBVIOUS
<1>4. IsBytes(s) BY <1>2, <1>3, BytesCut DEF ThrowInv
<1>5. IsBytes(SubSeq(wire, n + 1, Len(wire)))
  <2>1. n + 1 \in Nat \ {0} /\ Len(wire) <= Len(wire) BY <1>1, <1>2
  <2> QED BY <1>1, <2>1, BytesCut DEF ThrowInv
<1>6. PICK b : b = Arrived(n) OBVIOUS
<1>7. IsBytes(b) BY <1>3, <1>4, <1>6, BytesJoin DEF ThrowInv, Arrived
<1>8. PICK d : d = Started(n) OBVIOUS
<1>9. d = Record(b, messages, completed, stream_events, frames_received, FALSE, FALSE)
  BY <1>6, <1>8 DEF Started
<1>10. IsDecoder(d)
  <2>1. PICK o : o = FALSE OBVIOUS
  <2>2. d = Record(b, messages, completed, stream_events, frames_received, o, o) BY <1>9, <2>1
  <2>3. o \in BOOLEAN /\ ~o BY <2>1
  <2> QED BY <1>7, <2>2, <2>3 DEF IsDecoder, ThrowInv
<1>11. PICK k : k = MaxRounds(d) OBVIOUS
<1>12. k \in Nat \ {0}
  <2>1. d.buffer = b BY <1>9 DEF Record
  <2>2. Len(b) \in Nat BY <1>7 DEF IsBytes, IsSeq
  <2>3. Len(b) \div HeaderSize \in Nat BY <2>2, Quotient, SizesAssumption
  <2> QED BY <1>11, <2>1, <2>3 DEF MaxRounds
<1>13. PICK r : r = Rounds(d, k)[k] OBVIOUS
<1>14. IsDecoder(r) BY <1>10, <1>12, <1>13, RoundsAreDecoders
<1>15. r = TryDecode(Started(n)) BY <1>8, <1>11, <1>13 DEF TryDecode
<1>16. Started(n) = Decoding(Arrived(n), messages, completed, stream_events, frames_received)
  BY DEF Started, Record, Decoding
<1>17. /\ buffer' = r.buffer /\ messages' = r.messages /\ completed' = r.completed
       /\ stream_events' = r.stream_events /\ frames_received' = r.frames /\ failed' = r.failed
       /\ plan' = plan /\ unsent' = unsent /\ wire' = SubSeq(wire, n + 1, Len(wire))
  BY <1>15, <1>16, Zenon DEF Feed, Arrived
<1>18. ThrowInv'
  <2>1. PICK b1, ms, c, e, j, done, fails :
          /\ r = Record(b1, ms, c, e, j, done, fails)
          /\ IsBytes(b1) /\ IsSeq(c) /\ IsSeq(e)
          /\ done \in BOOLEAN /\ fails \in BOOLEAN
          /\ fails => done /\ Unreadable(b1)
    BY <1>14 DEF IsDecoder
  <2>2. r.buffer = b1 /\ r.completed = c /\ r.stream_events = e /\ r.failed = fails
    BY ONLY <2>1, RecordFields
  <2>3. IsBytes(buffer') /\ IsSeq(completed') /\ IsSeq(stream_events')
    BY <1>17, <2>1, <2>2
  <2>4. failed' \in BOOLEAN /\ (failed' => Unreadable(buffer')) BY <1>17, <2>1, <2>2
  <2>5. IsBytes(wire') BY <1>5, <1>17
  <2> QED BY <1>17, <2>3, <2>4, <2>5 DEF ThrowInv
<1>19. ASSUME failed PROVE failed' /\ completed' = completed /\ stream_events' = stream_events
  <2>1. Unreadable(b)
    <3>1. Unreadable(buffer) /\ IsBytes(buffer) BY <1>19 DEF ThrowInv
    <3>2. IsSeq(s) BY <1>4 DEF IsBytes
    <3> QED BY <1>3, <1>6, <3>1, <3>2, StaysUnreadable DEF Arrived
  <2>2. PICK ms, c, e, j : ms = messages /\ c = completed /\ e = stream_events /\ j = frames_received
    OBVIOUS
  <2>3. d = Record(b, ms, c, e, j, FALSE, FALSE) BY <1>9, <2>2
  <2>4. ThrownAfter(d, k, b, ms, c, e, j)
    BY ONLY <1>7, <1>12, <2>1, <2>3, ThrownRounds
  <2>5. r.failed = TRUE /\ r.completed = c /\ r.stream_events = e
    BY <1>13, <2>4 DEF ThrownAfter, Record
  <2> QED BY <1>17, <2>2, <2>5
<1> QED BY <1>18, <1>19

LEMMA TailShorter ==
  ASSUME NEW s, IsSeq(s), s # <<>>
  PROVE  IsSeq(Tail(s)) /\ Len(s) \in Nat /\ Len(Tail(s)) <= Len(s)
<1>1. PICK V : s \in Seq(V) BY DEF IsSeq
<1>2. Tail(s) \in Seq(V) /\ Len(Tail(s)) = Len(s) - 1 /\ Len(s) \in Nat BY <1>1
<1> QED BY <1>2 DEF IsSeq

\* What FailureIsFinal says of a step, and the invariant that it rests on.
LEMMA ThrowStep ==
  ASSUME ThrowInv, [Next]_vars
  PROVE  /\ ThrowInv'
         /\ failed /\ buffer' # <<>> => /\ failed' /\ Len(completed') <= Len(completed)
                                        /\ Len(stream_events') <= Len(stream_events)
<1>1. Len(completed) \in Nat /\ Len(stream_events) \in Nat BY DEF ThrowInv, IsSeq
<1>0. decoder' = decoder => /\ failed' = failed /\ Len(completed') <= Len(completed)
                            /\ Len(stream_events') <= Len(stream_events)
  <2>1. decoder' = decoder =>
          failed' = failed /\ completed' = completed /\ stream_events' = stream_events
    BY DEF decoder
  <2> QED BY <1>1, <2>1
<1>2. CASE \E x \in MsgIds \cup StreamIds : SendFrame(x)
  <2>1. decoder' = decoder BY <1>2 DEF SendFrame
  <2>2. ThrowInv' BY <1>2, SendThrow
  <2> QED BY <1>0, <2>1, <2>2
<1>3. CASE Damage
  <2>1. decoder' = decoder BY <1>3 DEF Damage
  <2>2. ThrowInv' BY <1>3, DamageThrow
  <2> QED BY <1>0, <2>1, <2>2
<1>4. CASE \E n \in 1..Len(wire) : Feed(n) BY <1>1, <1>4, FeedThrow
<1>5. CASE GetMessage
  <2>1. /\ completed # <<>> /\ completed' = Tail(completed)
        /\ UNCHANGED <<plan, unsent, wire, buffer, stream_events, failed>>
    BY <1>5 DEF GetMessage
  <2>2. IsSeq(completed') /\ Len(completed') <= Len(completed) BY <2>1, TailShorter DEF ThrowInv
  <2> QED BY <1>1, <2>1, <2>2 DEF ThrowInv
<1>6. CASE GetStreamEvent
  <2>1. /\ stream_events # <<>> /\ stream_events' = Tail(stream_events)
        /\ UNCHANGED <<plan, unsent, wire, buffer, completed, failed>>
    BY <1>6 DEF GetStreamEvent
  <2>2. IsSeq(stream_events') /\ Len(stream_events') <= Len(stream_events)
    BY <2>1, TailShorter DEF ThrowInv
  <2> QED BY <1>1, <2>1, <2>2 DEF ThrowInv
<1>7. CASE \E when \in 0..frames_received : CleanupTimeoutMessages(when)
  <2>1. UNCHANGED <<plan, unsent, wire, buffer, completed, stream_events, failed>>
    BY <1>7 DEF CleanupTimeoutMessages
  <2> QED BY <1>1, <2>1 DEF ThrowInv
<1>8. CASE Reset
  <2>1. /\ UNCHANGED <<plan, unsent, wire>> /\ failed' = FALSE
        /\ buffer' = <<>> /\ completed' = <<>> /\ stream_events' = <<>>
    BY <1>8 DEF Reset
  <2>2. IsSeq(<<>>) /\ Len(<<>>) = 0
    <3>1. <<>> \in Seq({}) OBVIOUS
    <3> QED BY <3>1 DEF IsSeq
  <2>3. IsBytes(<<>>) BY <2>2 DEF IsBytes
  <2> QED BY <2>1, <2>2, <2>3 DEF ThrowInv
<1>9. CASE UNCHANGED vars
  <2>1. UNCHANGED <<plan, unsent, wire, buffer, completed, stream_events, failed>>
    BY <1>9 DEF vars
  <2> QED BY <1>1, <2>1 DEF ThrowInv
<1> QED BY <1>2, <1>3, <1>4, <1>5, <1>6, <1>7, <1>8, <1>9 DEF Next

\* After a Feed that threw, every Feed throws and delivers nothing, until
\* Reset, whatever bytes were damaged: the decoder keeps the bytes that it cannot
\* read in front of its buffer (Decoder::Feed, Decoder::TryDecode).
THEOREM FailuresAreFinal == Spec => FailureIsFinal
<1>1. ThrowInv /\ [Next]_vars =>
        ThrowInv' /\ [failed /\ buffer' # <<>> => failed' /\ Len(completed') <= Len(completed)
                                       /\ Len(stream_events') <= Len(stream_events)]_vars
  BY ThrowStep
<1> QED BY <1>1, InitThrow, PTL DEF Spec, FailureIsFinal

-----------------------------------------------------------------------------
(* What is on its way, without a fault. *)

Ids == MsgIds \cup StreamIds

\* All frames of a message or a stream, in the order in which they are sent.
Sequence(p, x) == IF x \in StreamIds THEN EncodeStream(x)
                  ELSE IF Refused(p[x].length, p[x].crc) THEN <<>>
                  ELSE EncodeMessage(x, p[x].length, p[x].crc)
Count(p, x) == Len(Sequence(p, x))

\* A frame's place in that order.
TypePos(type) == IF type = "StreamStart" THEN 1 ELSE IF type = "StreamChunk" THEN 2 ELSE 3
Pos(f) == IF f.type = "Message" THEN f.sequence + 1 ELSE TypePos(f.type)

Full(y) == HeaderSize + y.frame.payload_len

\* The bytes are those of whole frames, one frame behind the other.
Contiguous(s) ==
  /\ s # <<>> => s[1].k = 1
  /\ \A i \in 1..Len(s) : s[i].k < Full(s[i]) =>
       i < Len(s) /\ s[i + 1].frame = s[i].frame /\ s[i + 1].k = s[i].k + 1
  /\ \A i \in 1..Len(s) - 1 : s[i].k = Full(s[i]) => s[i + 1].k = 1

\* The frames of each message and stream are in their order, none is doubled.
Before(y, z) == Pos(y.frame) < Pos(z.frame) \/ (Pos(y.frame) = Pos(z.frame) /\ y.k < z.k)
InOrder(s) ==
  \A i, j \in 1..Len(s) : i < j /\ s[i].frame.id = s[j].frame.id => Before(s[i], s[j])

\* Of x, r[x] frames have been read and u[x] frames have been sent; those between
\* are on their way.
InTransit(s, x, q) == \E i \in 1..Len(s) : s[i].frame.id = x /\ Pos(s[i].frame) = q
Counted(p, s, r, u) ==
  \A x \in Ids :
    /\ r[x] \in Nat /\ u[x] \in Nat /\ r[x] <= u[x] /\ u[x] <= Count(p, x)
    /\ \A q \in 1..Count(p, x) : InTransit(s, x, q) <=> r[x] < q /\ q <= u[x]

Flow(p, s, r, u) == Contiguous(s) /\ InOrder(s) /\ Counted(p, s, r, u)

LEMMA SequenceFrames ==
  ASSUME NEW p \in Plans, NEW x \in Ids
  PROVE  /\ Sequence(p, x) \in Seq(Frames(p)) /\ Count(p, x) \in Nat
         /\ IsSent(p, x) => Count(p, x) = Total(p, x)
         /\ x \in StreamIds => Count(p, x) = 3
         /\ \A q \in 1..Count(p, x) : /\ Sequence(p, x)[q] \in Frames(p)
                                      /\ Sequence(p, x)[q].id = x
                                      /\ Pos(Sequence(p, x)[q]) = q
<1>1. CASE x \in StreamIds
  <2>1. Sequence(p, x) = EncodeStream(x) /\ Count(p, x) = 3 /\ ~IsSent(p, x)
    BY <1>1, SizesAssumption DEF Sequence, Count, EncodeStream, IsSent
  <2>2. EncodeStream(x) \in Seq(Frames(p)) BY <1>1, SentFrames
  <2>3. ASSUME NEW q \in 1..3 PROVE EncodeStream(x)[q].id = x /\ Pos(EncodeStream(x)[q]) = q
    <3>1. CASE q = 1 BY <3>1 DEF EncodeStream, EncodeStreamStart, MakeFrame, Pos, TypePos
    <3>2. CASE q = 2 BY <3>2 DEF EncodeStream, EncodeStreamChunk, MakeFrame, Pos, TypePos
    <3>3. CASE q = 3 BY <3>3 DEF EncodeStream, EncodeStreamEnd, MakeFrame, Pos, TypePos
    <3> QED BY <3>1, <3>2, <3>3
  <2>4. \A q \in 1..3 : EncodeStream(x)[q] \in Frames(p) BY <1>1 DEF Frames, IsStreamFrame
  <2>5. PICK e : e = EncodeStream(x) OBVIOUS
  <2>6. /\ e = Sequence(p, x) /\ e \in Seq(Frames(p))
        /\ \A q \in 1..3 : e[q] \in Frames(p) /\ e[q].id = x /\ Pos(e[q]) = q
    BY <2>1, <2>2, <2>3, <2>4, <2>5
  <2> QED BY <2>1, <2>6
<1>2. CASE x \notin StreamIds /\ Refused(p[x].length, p[x].crc)
  <2>1. Sequence(p, x) = <<>> BY <1>2 DEF Sequence
  <2> QED BY <1>2, <2>1 DEF Count, IsSent
<1>3. CASE x \notin StreamIds /\ ~Refused(p[x].length, p[x].crc)
  <2>1. x \in MsgIds /\ IsSent(p, x) BY <1>3 DEF Ids, IsSent
  <2>2. PICK e : e = EncodeMessage(x, p[x].length, p[x].crc) OBVIOUS
  <2>3. e = Sequence(p, x) BY <1>3, <2>2 DEF Sequence
  <2>4. p[x].length \in Nat /\ p[x].crc \in BOOLEAN BY <2>1, SizesAssumption DEF Plans
  <2>5. PICK t \in Nat \ {0} : t = Total(p, x) BY <1>3, <2>4, SliceCount DEF Total
  <2>6. e \in Seq(Frames(p)) BY <2>1, <2>2, SentFrames
  <2>7. DOMAIN e = 1..t BY <2>2, <2>5 DEF EncodeMessage, Total
  <2>8. Len(e) = t BY <2>5, <2>6, <2>7
  <2>9. ASSUME NEW q \in 1..t PROVE e[q].id = x /\ Pos(e[q]) = q
    <3>1. e[q] = FrameOf(p, x, q) BY <2>2 DEF FrameOf
    <3>2. PICK f : f = e[q] OBVIOUS
    <3>3. PICK data, l : f = [type |-> "Message", id |-> x, total_slices |-> Total(p, x),
                              sequence |-> q - 1, data |-> data, flags |-> p[x].crc,
                              sealed |-> p[x].crc, payload_len |-> l]
      BY <2>1, <2>5, <3>1, <3>2, MessageFrameShape
    <3>4. f.id = x /\ f.type = "Message" /\ f.sequence = q - 1 BY <3>3
    <3> QED BY <3>2, <3>4 DEF Pos
  <2>10. Count(p, x) = t BY <2>3, <2>8 DEF Count
  <2>11. \A q \in 1..t : e[q] \in Frames(p) BY <2>6, <2>8
  <2> QED BY <1>3, <2>3, <2>5, <2>6, <2>9, <2>10, <2>11
<1> QED BY <1>1, <1>2, <1>3

LEMMA FrameIdentity ==
  ASSUME NEW p \in Plans, NEW f \in Frames(p)
  PROVE  /\ f.id \in Ids /\ Pos(f) \in 1..Count(p, f.id) /\ f = Sequence(p, f.id)[Pos(f)]
         /\ f.payload_len \in Nat \ {0}
<1>1. f.payload_len \in Nat \ {0}
  <2>1. f.payload_len \in 1..MaxFramePayload BY SerializedBytes
  <2> QED BY <2>1
<1>2. CASE IsMessageFrame(p, f)
  <2>1. PICK m \in MsgIds : IsSent(p, m) /\ \E n \in 1..Total(p, m) : f = FrameOf(p, m, n)
    BY <1>2 DEF IsMessageFrame
  <2>2. PICK n \in 1..Total(p, m) : f = FrameOf(p, m, n) BY <2>1
  <2>3. m \in Ids /\ m \notin StreamIds BY SizesAssumption DEF Ids
  <2>4. Sequence(p, m) = EncodeMessage(m, p[m].length, p[m].crc)
    BY <2>1, <2>3 DEF Sequence, IsSent
  <2>5. f = Sequence(p, m)[n] BY <2>2, <2>4 DEF FrameOf
  <2>6. Count(p, m) = Total(p, m) BY <2>1, <2>3, SequenceFrames
  <2>7. f.id = m /\ Pos(f) = n BY <2>2, <2>3, <2>5, <2>6, SequenceFrames
  <2> QED BY <1>1, <2>2, <2>3, <2>5, <2>6, <2>7
<1>3. CASE IsStreamFrame(f)
  <2>1. PICK x \in StreamIds : \E n \in 1..3 : f = EncodeStream(x)[n] BY <1>3 DEF IsStreamFrame
  <2>2. PICK n \in 1..3 : f = EncodeStream(x)[n] BY <2>1
  <2>3. x \in Ids BY DEF Ids
  <2>4. f = Sequence(p, x)[n] /\ Count(p, x) = 3 BY <2>2, <2>3, SequenceFrames DEF Sequence
  <2>5. f.id = x /\ Pos(f) = n BY <2>3, <2>4, SequenceFrames
  <2> QED BY <1>1, <2>3, <2>4, <2>5
<1> QED BY <1>2, <1>3 DEF Frames

\* A frame that has begun to arrive is there in full.
LEMMA FirstFrame ==
  ASSUME NEW p \in Plans, NEW s \in Seq(WireBytes(p, TRUE)), Contiguous(s), s # <<>>
  PROVE  /\ Full(s[1]) \in Nat /\ Full(s[1]) > HeaderSize /\ Full(s[1]) <= Len(s)
         /\ \A i \in 1..Full(s[1]) : s[i].frame = s[1].frame /\ s[i].k = i
<1>1. Len(s) \in Nat \ {0} BY EmptySeq
<1>2. 1 \in 1..Len(s) BY <1>1
<1>3. s[1] \in WireBytes(p, TRUE) /\ s[1].k = 1 BY <1>2, ElementOfSeq DEF Contiguous
<1>4. s[1].frame \in Frames(p) BY <1>3 DEF WireBytes
<1>5. s[1].frame.payload_len \in Nat \ {0} BY <1>4, FrameIdentity
<1>6. PICK l \in Nat : l = Full(s[1]) /\ l > HeaderSize /\ HeaderSize > 0
  BY <1>5, SizesAssumption DEF Full
<1> DEFINE S == {i \in Nat : i \in 0..l - 1 =>
                   i + 1 <= Len(s) /\ s[i + 1].frame = s[1].frame /\ s[i + 1].k = i + 1}
<1>7. 0 \in S BY <1>2, <1>3
<1>8. ASSUME NEW i \in S PROVE i + 1 \in S
  <2> SUFFICES ASSUME i + 1 \in 0..l - 1
               PROVE  i + 1 + 1 <= Len(s) /\ s[i + 1 + 1].frame = s[1].frame
                        /\ s[i + 1 + 1].k = i + 1 + 1
    OBVIOUS
  <2>1. PICK j \in Nat : j = i + 1 OBVIOUS
  <2>2. j <= Len(s) /\ s[j].frame = s[1].frame /\ s[j].k = j BY <2>1
  <2>3. j < l /\ j \in 1..Len(s) BY <1>1, <1>6, <2>1, <2>2
  <2>4. Full(s[j]) = l BY <1>6, <2>2 DEF Full
  <2>5. j < Len(s) /\ s[j + 1].frame = s[j].frame /\ s[j + 1].k = s[j].k + 1
    BY <2>2, <2>3, <2>4 DEF Contiguous
  <2> QED BY <1>1, <2>1, <2>2, <2>5
<1> HIDE DEF S
<1>9. S = Nat
  <2>1. S \in SUBSET Nat BY DEF S
  <2> QED BY <1>7, <1>8, <2>1, NatsClosed
<1>10. ASSUME NEW i \in 1..l PROVE i <= Len(s) /\ s[i].frame = s[1].frame /\ s[i].k = i
  <2>1. PICK j \in Nat : j = i - 1 OBVIOUS
  <2>2. j \in S /\ j \in 0..l - 1 /\ j + 1 = i BY <1>6, <1>9, <2>1
  <2> QED BY <2>2 DEF S
<1>11. l <= Len(s) BY <1>6, <1>10, SizesAssumption
<1> QED BY <1>6, <1>10, <1>11

\* The frame in front is the next one of its message or stream.
LEMMA FirstIsNext ==
  ASSUME NEW p \in Plans, NEW s \in Seq(WireBytes(p, TRUE)), NEW r, NEW u, Flow(p, s, r, u),
         s # <<>>
  PROVE  /\ s[1].frame \in Frames(p)
         /\ s[1].frame.id \in Ids /\ Pos(s[1].frame) = r[s[1].frame.id] + 1
         /\ r[s[1].frame.id] < u[s[1].frame.id]
<1>1. Len(s) \in Nat \ {0} BY EmptySeq
<1>2. 1 \in 1..Len(s) BY <1>1
<1>3. s[1] \in WireBytes(p, TRUE) BY <1>2, ElementOfSeq
<1>4. PICK f \in Frames(p) : f = s[1].frame BY <1>3 DEF WireBytes
<1>5. PICK x \in Ids : x = f.id BY FrameIdentity
<1>6. PICK q \in 1..Count(p, x) : q = Pos(f) BY <1>5, FrameIdentity
<1>7. Count(p, x) \in Nat BY SequenceFrames
<1>8. InTransit(s, x, q) BY <1>2, <1>4, <1>5, <1>6 DEF InTransit
<1>9. PICK a \in Nat, b \in Nat : a = r[x] /\ b = u[x] /\ b <= Count(p, x)
  BY DEF Flow, Counted
<1>10. a < q /\ q <= b BY <1>8, <1>9 DEF Flow, Counted
<1>11. q = a + 1
  <2> SUFFICES ASSUME q # a + 1 PROVE FALSE OBVIOUS
  <2>1. PICK t \in 1..Count(p, x) : t = a + 1 /\ t < q BY <1>7, <1>9, <1>10
  <2>2. InTransit(s, x, t) BY <1>9, <1>10, <2>1 DEF Flow, Counted
  <2>3. PICK j \in 1..Len(s) : s[j].frame.id = x /\ Pos(s[j].frame) = t BY <2>2 DEF InTransit
  <2>4. j # 1 BY <1>4, <1>6, <2>1, <2>3
  <2>5. 1 < j BY <1>1, <2>3, <2>4
  <2>6. Before(s[1], s[j]) BY <1>2, <1>4, <1>5, <2>3, <2>5 DEF Flow, InOrder
  <2> QED BY <1>4, <1>6, <2>1, <2>3, <2>6 DEF Before
<1> QED BY <1>4, <1>5, <1>6, <1>9, <1>10, <1>11

LEMMA BytesOfStream ==
  ASSUME NEW p \in Plans, NEW s \in Seq(WireBytes(p, TRUE)), NEW i \in 1..Len(s)
  PROVE  /\ s[i].frame \in Frames(p) /\ s[i].frame.id \in Ids
         /\ Pos(s[i].frame) \in 1..Count(p, s[i].frame.id)
         /\ s[i].frame = Sequence(p, s[i].frame.id)[Pos(s[i].frame)]
         /\ s[i].k \in Nat \ {0} /\ Full(s[i]) \in Nat /\ s[i].k <= Full(s[i])
<1>1. s[i] \in WireBytes(p, TRUE) BY ElementOfSeq
<1>2. s[i].frame \in Frames(p) /\ s[i].k \in Nat \ {0} /\ s[i].k <= Full(s[i])
  BY <1>1 DEF WireBytes, Full
<1>3. Full(s[i]) \in Nat BY <1>2, FrameIdentity, SizesAssumption DEF Full
<1> QED BY <1>2, <1>3, FrameIdentity

\* What is behind the first frame.
BehindFirst(s, t, l, ns, nt) ==
  /\ ns = Len(s) /\ nt = Len(t) /\ ns = l + nt
  /\ (t = <<>>) <=> (nt = 0)
  /\ \A j \in 1..nt : l + j \in 1..ns /\ t[j] = s[l + j]
  /\ \A i \in 1..l : s[i].frame = s[1].frame /\ s[i].k = i
  /\ l = Full(s[1])

OneMoreRead(s, r, r1, u, x) ==
  /\ x = s[1].frame.id /\ Pos(s[1].frame) = r[x] + 1 /\ r[x] < u[x]
  /\ r1[x] = r[x] + 1 /\ \A y \in Ids : y # x => r1[y] = r[y]

LEMMA FlowShift ==
  ASSUME NEW p \in Plans, NEW s \in Seq(WireBytes(p, TRUE)), NEW t, NEW r, NEW r1, NEW u, NEW x \in Ids,
         NEW l \in Nat \ {0}, NEW ns \in Nat, NEW nt \in Nat,
         BehindFirst(s, t, l, ns, nt), OneMoreRead(s, r, r1, u, x), Flow(p, s, r, u)
  PROVE  Flow(p, t, r1, u)
<1> USE DEF OneMoreRead
<1>0. ns = Len(s) /\ nt = Len(t) /\ ((t = <<>>) <=> (nt = 0)) /\ l = Full(s[1])
  BY DEF BehindFirst
<1>1. \A j \in 1..nt : l + j \in 1..ns /\ t[j] = s[l + j] BY DEF BehindFirst
<1>2. \A i \in 1..l : s[i].frame = s[1].frame /\ s[i].k = i BY DEF BehindFirst
<1>3. l \in Nat \ {0} /\ ns \in Nat /\ nt \in Nat /\ ns = l + nt BY DEF BehindFirst
<1> USE <1>0
<1>4. 1 \in 1..ns /\ l \in 1..l /\ l \in 1..ns BY ONLY <1>3
<1>5. s[l].frame = s[1].frame /\ s[l].k = l /\ Full(s[l]) = l BY <1>2, <1>4 DEF Full
<1>6. Contiguous(t)
  <2>1. ASSUME t # <<>> PROVE t[1].k = 1
    <3>1. nt # 0 BY <2>1
    <3>2. 1 \in 1..nt /\ l \in 1..ns - 1 BY ONLY <1>3, <3>1
    <3>3. s[l + 1].k = 1 BY <1>5, <3>2 DEF Flow, Contiguous
    <3> QED BY <1>1, <3>2, <3>3
  <2>2. ASSUME NEW j \in 1..nt, t[j].k < Full(t[j])
        PROVE  j < nt /\ t[j + 1].frame = t[j].frame /\ t[j + 1].k = t[j].k + 1
    <3>1. PICK i \in 1..ns : i = l + j /\ t[j] = s[i] BY <1>1
    <3>2. i < ns /\ s[i + 1].frame = s[i].frame /\ s[i + 1].k = s[i].k + 1
      BY <2>2, <3>1 DEF Flow, Contiguous
    <3>3. j < nt /\ j + 1 \in 1..nt /\ l + (j + 1) = i + 1
      <4>1. i = l + j /\ i < ns BY <3>1, <3>2
      <4> QED BY ONLY <1>3, <4>1, j \in 1..nt
    <3>4. t[j + 1] = s[i + 1] BY <1>1, <3>3
    <3> QED BY <3>1, <3>2, <3>3, <3>4
  <2>3. ASSUME NEW j \in 1..nt - 1, t[j].k = Full(t[j]) PROVE t[j + 1].k = 1
    <3>1. j \in 1..nt /\ j + 1 \in 1..nt /\ l + j \in 1..ns - 1 /\ l + (j + 1) = (l + j) + 1
      BY ONLY <1>3, j \in 1..nt - 1
    <3>2. PICK i \in 1..ns - 1 : i = l + j /\ t[j] = s[i] BY <1>1, <3>1
    <3>3. s[i + 1].k = 1 BY <2>3, <3>2 DEF Flow, Contiguous
    <3>4. t[j + 1] = s[i + 1] BY <1>1, <3>1, <3>2
    <3> QED BY <3>3, <3>4
  <2> QED BY <2>1, <2>2, <2>3 DEF Contiguous
<1>7. InOrder(t)
  <2> SUFFICES ASSUME NEW i \in 1..nt, NEW j \in 1..nt, i < j, t[i].frame.id = t[j].frame.id
               PROVE  Before(t[i], t[j])
    BY DEF InOrder
  <2>1. PICK g \in 1..ns : g = l + i /\ t[i] = s[g] BY <1>1
  <2>2. PICK h \in 1..ns : h = l + j /\ t[j] = s[h] BY <1>1
  <2>3. g < h
    <3>1. g = l + i /\ h = l + j /\ i < j BY <2>1, <2>2
    <3> QED BY ONLY <3>1, l \in Nat \ {0}, nt \in Nat, i \in 1..nt, j \in 1..nt
  <2>4. /\ g \in 1..Len(s) /\ h \in 1..Len(s) /\ g < h /\ s[g].frame.id = s[h].frame.id
        /\ InOrder(s)
    BY <2>1, <2>2, <2>3 DEF Flow
  <2>5. Before(s[g], s[h]) BY ONLY <2>4 DEF InOrder
  <2> QED BY <2>1, <2>2, <2>5
<1>8. ASSUME NEW y \in Ids
      PROVE  /\ r1[y] \in Nat /\ u[y] \in Nat /\ r1[y] <= u[y] /\ u[y] <= Count(p, y)
             /\ \A q \in 1..Count(p, y) : InTransit(t, y, q) <=> r1[y] < q /\ q <= u[y]
  <2>1. /\ r[y] \in Nat /\ u[y] \in Nat /\ r[y] <= u[y] /\ u[y] <= Count(p, y)
        /\ \A q \in 1..Count(p, y) : InTransit(s, y, q) <=> r[y] < q /\ q <= u[y]
    BY DEF Flow, Counted
  <2>2. PICK a \in Nat, a1 \in Nat, b \in Nat : /\ a = r[y] /\ a1 = r1[y] /\ b = u[y] /\ a1 <= b
                                                /\ IF y = x THEN a1 = a + 1 ELSE a1 = a
    <3>1. CASE y = x
      <4>1. r1[y] = r[y] + 1 BY <3>1
      <4>2. r1[y] \in Nat /\ r1[y] <= u[y] BY <2>1, <3>1, <4>1
      <4> QED BY <2>1, <3>1, <4>1, <4>2
    <3>2. CASE y # x BY <2>1, <3>2
    <3> QED BY <3>1, <3>2
  <2>3. PICK n \in Nat : n = Count(p, y) BY SequenceFrames
  <2>4. ASSUME NEW q \in 1..n, InTransit(t, y, q) PROVE a1 < q /\ q <= b
    <3>1. PICK j \in 1..nt : t[j].frame.id = y /\ Pos(t[j].frame) = q BY <2>4 DEF InTransit
    <3>2. PICK i \in 1..ns : i = l + j /\ t[j] = s[i] BY <1>1
    <3>3. InTransit(s, y, q) BY <3>1, <3>2 DEF InTransit
    <3>4. a < q /\ q <= b BY <2>1, <2>2, <2>3, <3>3
    <3>5. CASE y # x BY <2>2, <3>4, <3>5
    <3>6. CASE y = x
      <4>1. l < i
        <5>1. i = l + j BY <3>2
        <5> QED BY ONLY <5>1, l \in Nat \ {0}, nt \in Nat, j \in 1..nt
      <4>2. Before(s[l], s[i])
        <5>1. s[l].frame.id = s[i].frame.id BY <1>5, <3>1, <3>2, <3>6
        <5>2. l \in 1..Len(s) /\ i \in 1..Len(s) BY <1>4, <3>2
        <5> QED BY <4>1, <5>1, <5>2 DEF Flow, InOrder
      <4>3. q # a + 1
        <5> SUFFICES ASSUME q = a + 1 PROVE FALSE OBVIOUS
        <5>1. Pos(s[l].frame) = q /\ Pos(s[i].frame) = q BY <1>5, <2>2, <3>1, <3>2, <3>6
        <5>2. s[i].frame = s[l].frame
          <6>1. s[i].frame.id = x /\ s[l].frame.id = x BY <1>5, <3>1, <3>2, <3>6
          <6>2. PICK f, g : f = s[i].frame /\ g = s[l].frame OBVIOUS
          <6>3. f = Sequence(p, f.id)[Pos(f)]
            <7>1. i \in 1..Len(s) BY <3>2
            <7> QED BY ONLY <6>2, <7>1, BytesOfStream, p \in Plans, s \in Seq(WireBytes(p, TRUE))
          <6>4. g = Sequence(p, g.id)[Pos(g)]
            <7>1. l \in 1..Len(s) BY <1>4
            <7> QED BY ONLY <6>2, <7>1, BytesOfStream, p \in Plans, s \in Seq(WireBytes(p, TRUE))
          <6> QED BY ONLY <5>1, <6>1, <6>2, <6>3, <6>4
        <5>3. l < s[i].k BY <1>5, <4>2, <5>1 DEF Before
        <5>4. s[i].k \in Nat /\ s[i].k <= Full(s[i])
          <6>1. i \in 1..Len(s) BY <3>2
          <6> QED BY ONLY <6>1, BytesOfStream, p \in Plans, s \in Seq(WireBytes(p, TRUE))
        <5>5. Full(s[i]) = l BY <1>5, <5>2 DEF Full
        <5> QED BY ONLY <1>3, <5>3, <5>4, <5>5
      <4>4. a1 = a + 1 BY <2>2, <3>6
      <4> QED BY ONLY <3>4, <4>3, <4>4, a \in Nat, n \in Nat, q \in 1..n
    <3> QED BY <3>5, <3>6
  <2>5. ASSUME NEW q \in 1..n, a1 < q, q <= b PROVE InTransit(t, y, q)
    <3>1. a < q BY <2>2, <2>5
    <3>2. PICK i \in 1..ns : s[i].frame.id = y /\ Pos(s[i].frame) = q
      BY <2>1, <2>2, <2>3, <2>5, <3>1 DEF InTransit
    <3>3. i \notin 1..l
      <4> SUFFICES ASSUME i \in 1..l PROVE FALSE OBVIOUS
      <4>1. s[i].frame = s[1].frame BY <1>2
      <4>2. y = x /\ q = a + 1 BY <2>2, <3>2, <4>1
      <4> QED BY <2>2, <2>5, <4>2
    <3>4. PICK j \in 1..nt : l + j = i
      <4>1. i - l \in 1..nt /\ l + (i - l) = i BY ONLY <1>3, <3>3, i \in 1..ns
      <4> QED BY <4>1
    <3>5. t[j] = s[i] BY <1>1, <3>4
    <3> QED BY <3>2, <3>5 DEF InTransit
  <2> QED BY <2>1, <2>2, <2>3, <2>4, <2>5
<1> QED BY <1>6, <1>7, <1>8 DEF Flow, Counted

\* r1 counts the first frame of s, a frame of x and l bytes long, as read; t is the rest.
ReadFirst(p, s, r, u, x, l, t, r1) ==
  /\ p \in Plans /\ s \in Seq(WireBytes(p, TRUE)) /\ r \in [Ids -> Nat]
  /\ Flow(p, s, r, u) /\ s # <<>> /\ x = s[1].frame.id /\ l = Full(s[1])
  /\ t = SubSeq(s, l + 1, Len(s)) /\ r1 = [r EXCEPT ![x] = @ + 1]

LEMMA FlowBehind ==
  ASSUME NEW p, NEW s, NEW r, NEW u, NEW x, NEW l, NEW t, NEW r1,
         ReadFirst(p, s, r, u, x, l, t, r1)
  PROVE  Flow(p, t, r1, u) /\ r1 \in [Ids -> Nat]
<1> USE DEF ReadFirst
<1>1. PICK ns \in Nat : ns = Len(s) OBVIOUS
<1>2. Contiguous(s) BY DEF Flow
<1>3. HeaderSize \in Nat BY SizesAssumption
<1>4. /\ Full(s[1]) \in Nat /\ Full(s[1]) > HeaderSize /\ Full(s[1]) <= Len(s)
      /\ \A i \in 1..Full(s[1]) : s[i].frame = s[1].frame /\ s[i].k = i
  BY <1>2, FirstFrame
<1>5. l \in Nat \ {0} /\ l <= ns BY <1>1, <1>3, <1>4
<1>6. \A i \in 1..l : s[i].frame = s[1].frame /\ s[i].k = i BY <1>4
<1>7. x \in Ids /\ Pos(s[1].frame) = r[x] + 1 /\ r[x] < u[x] BY FirstIsNext
<1>8. r1 \in [Ids -> Nat] /\ r1[x] = r[x] + 1 /\ \A y \in Ids : y # x => r1[y] = r[y] BY <1>7
<1>9. /\ t \in Seq(WireBytes(p, TRUE))
      /\ Len(t) = IF l + 1 <= ns THEN ns - (l + 1) + 1 ELSE 0
      /\ \A j \in 1..Len(t) : t[j] = s[(l + 1) + j - 1]
  <2>1. l + 1 \in Nat \ {0} /\ ns <= Len(s) BY <1>1, <1>5
  <2>2. PICK i \in Nat \ {0} : i = l + 1 BY <2>1
  <2>3. t = SubSeq(s, i, ns) BY <1>1, <2>2
  <2>4. /\ t \in Seq(WireBytes(p, TRUE))
        /\ Len(t) = IF i <= ns THEN ns - i + 1 ELSE 0
        /\ \A j \in 1..Len(t) : t[j] = s[i + j - 1]
    <3>1. PICK V : V = WireBytes(p, TRUE) OBVIOUS
    <3>2. s \in Seq(V) BY <3>1
    <3>3. /\ SubSeq(s, i, ns) \in Seq(V)
          /\ Len(SubSeq(s, i, ns)) = IF i <= ns THEN ns - i + 1 ELSE 0
          /\ \A j \in 1..Len(SubSeq(s, i, ns)) : SubSeq(s, i, ns)[j] = s[i + j - 1]
      BY ONLY <2>1, <3>2, PartOfBuffer, ns \in Nat, i \in Nat \ {0}
    <3> QED BY <2>3, <3>1, <3>3
  <2> QED BY <2>2, <2>4
<1>10. PICK nt \in Nat : nt = Len(t) BY <1>9
<1>11. ns = l + nt BY ONLY <1>5, <1>9, <1>10, ns \in Nat
<1>12. (t = <<>>) <=> (nt = 0) BY <1>9, <1>10, EmptySeq
<1>13. ASSUME NEW j \in 1..nt PROVE l + j \in 1..ns /\ t[j] = s[l + j]
  <2>1. l + j \in 1..ns /\ (l + 1) + j - 1 = l + j
    BY ONLY <1>5, <1>11, ns \in Nat, nt \in Nat, j \in 1..nt
  <2> QED BY <1>9, <1>10, <2>1
<1>14. Flow(p, t, r1, u)
  <2>1. BehindFirst(s, t, l, ns, nt)
    BY <1>1, <1>6, <1>10, <1>11, <1>12, <1>13 DEF BehindFirst
  <2>2. OneMoreRead(s, r, r1, u, x) BY <1>7, <1>8 DEF OneMoreRead
  <2> QED BY ONLY <1>5, <1>7, <2>1, <2>2, FlowShift, p \in Plans, s \in Seq(WireBytes(p, TRUE)),
                  ns \in Nat, nt \in Nat, Flow(p, s, r, u)
<1> QED BY <1>8, <1>14

\* One more frame is sent.
LEMMA FlowSend ==
  ASSUME NEW p \in Plans, NEW s \in Seq(WireBytes(p, TRUE)), NEW r, NEW u \in [Ids -> Nat],
         Flow(p, s, r, u), NEW x \in Ids, NEW f, u[x] < Count(p, x),
         f = Sequence(p, x)[u[x] + 1],
         NEW t, t = s \o Serialize(f), NEW u1, u1 = [u EXCEPT ![x] = @ + 1]
  PROVE  Flow(p, t, r, u1) /\ u1 \in [Ids -> Nat]
<1>1. Count(p, x) \in Nat /\ u[x] + 1 \in 1..Count(p, x) BY SequenceFrames
<1>2. f \in Frames(p) /\ f.id = x /\ Pos(f) = u[x] + 1 BY <1>1, SequenceFrames
<1>3. PICK z : z = Serialize(f) OBVIOUS
<1>4. PICK l \in Nat \ {0} : l = HeaderSize + f.payload_len
  BY <1>2, FrameIdentity, SizesAssumption
<1>5. /\ z \in Seq(WireBytes(p, TRUE)) /\ Len(z) = l
      /\ \A k \in 1..l : z[k].frame = f /\ z[k].k = k
  <2>1. /\ Serialize(f) \in Seq(WireBytes(p, TRUE))
        /\ Len(Serialize(f)) = HeaderSize + f.payload_len
        /\ \A k \in 1..HeaderSize + f.payload_len :
             Serialize(f)[k] = [frame |-> f, k |-> k, bad |-> FALSE]
    BY ONLY <1>2, SerializedBytes, p \in Plans
  <2>2. \A k \in 1..l : z[k] = [frame |-> f, k |-> k, bad |-> FALSE] BY ONLY <1>3, <1>4, <2>1
  <2>3. z \in Seq(WireBytes(p, TRUE)) /\ Len(z) = l BY ONLY <1>3, <1>4, <2>1
  <2>4. ASSUME NEW k \in 1..l PROVE z[k].frame = f /\ z[k].k = k
    <3>1. PICK y : y = z[k] OBVIOUS
    <3>2. y = [frame |-> f, k |-> k, bad |-> FALSE] BY <2>2, <3>1
    <3>3. y.frame = f /\ y.k = k BY ONLY <3>2
    <3> QED BY <3>1, <3>3
  <2> QED BY ONLY <2>3, <2>4
<1>6. PICK n \in Nat : n = Len(s) OBVIOUS
<1>7. /\ t \in Seq(WireBytes(p, TRUE)) /\ Len(t) = n + l
      /\ \A i \in 1..n : i \in 1..n + l /\ t[i] = s[i]
      /\ \A k \in 1..l : n + k \in 1..n + l /\ t[n + k] = z[k]
  <2>1. t = s \o z BY <1>3
  <2>2. /\ t \in Seq(WireBytes(p, TRUE)) /\ Len(t) = n + l
        /\ \A i \in 1..n + l : t[i] = IF i <= n THEN s[i] ELSE z[i - n]
    <3>1. PICK V : V = WireBytes(p, TRUE) OBVIOUS
    <3>2. s \in Seq(V) /\ z \in Seq(V) BY <1>5, <3>1
    <3>3. /\ s \o z \in Seq(V) /\ Len(s \o z) = Len(s) + Len(z)
          /\ \A i \in 1..Len(s) + Len(z) :
               (s \o z)[i] = IF i <= Len(s) THEN s[i] ELSE z[i - Len(s)]
      BY ONLY <3>2, ConcatProperties
    <3> QED BY ONLY <1>5, <1>6, <2>1, <3>1, <3>3
  <2>3. \A i \in 1..n : i \in 1..n + l /\ i <= n BY ONLY n \in Nat, l \in Nat \ {0}
  <2>4. \A k \in 1..l : n + k \in 1..n + l /\ ~(n + k <= n) /\ (n + k) - n = k
    BY ONLY n \in Nat, l \in Nat \ {0}
  <2>5. \A i \in 1..n : t[i] = s[i] BY ONLY <2>2, <2>3
  <2>6. ASSUME NEW k \in 1..l PROVE t[n + k] = z[k]
    <3>1. t[n + k] = z[(n + k) - n] BY <2>2, <2>4
    <3> QED BY <2>4, <3>1
  <2> QED BY <2>2, <2>3, <2>4, <2>5, <2>6
<1>8. ASSUME NEW i \in 1..n + l PROVE i \in 1..n \/ \E k \in 1..l : i = n + k
  <2>1. CASE i > n
    <3>1. i - n \in 1..l /\ i = n + (i - n) BY <1>4, <1>6, <2>1
    <3> QED BY <3>1
  <2> QED BY <1>4, <1>6, <2>1
<1>9. u1 \in [Ids -> Nat] /\ u1[x] = u[x] + 1 /\ \A y \in Ids \ {x} : u1[y] = u[y] OBVIOUS
<1>10. Contiguous(t)
  <2>1. ASSUME t # <<>> PROVE t[1].k = 1
    <3>1. CASE n = 0
      <4>1. 1 \in 1..l /\ n + 1 = 1 BY <1>4, <3>1
      <4> QED BY <1>5, <1>7, <4>1
    <3>2. CASE n # 0
      <4>1. 1 \in 1..n /\ s # <<>> BY <1>6, <3>2
      <4> QED BY <1>7, <4>1 DEF Flow, Contiguous
    <3> QED BY <3>1, <3>2
  <2>2. ASSUME NEW i \in 1..Len(t), t[i].k < Full(t[i])
        PROVE  i < Len(t) /\ t[i + 1].frame = t[i].frame /\ t[i + 1].k = t[i].k + 1
    <3>1. CASE i \in 1..n
      <4>1. i < n /\ s[i + 1].frame = s[i].frame /\ s[i + 1].k = s[i].k + 1
        BY <1>6, <1>7, <2>2, <3>1 DEF Flow, Contiguous
      <4>2. i + 1 \in 1..n /\ i < n + l BY ONLY <3>1, <4>1, n \in Nat, l \in Nat \ {0}
      <4> QED BY <1>7, <3>1, <4>1, <4>2
    <3>2. CASE \E k \in 1..l : i = n + k
      <4>1. PICK k \in 1..l : i = n + k BY <3>2
      <4>2. t[i] = z[k] /\ z[k].frame = f /\ z[k].k = k BY <1>5, <1>7, <4>1
      <4>3. k < l BY <1>4, <2>2, <4>2 DEF Full
      <4>4. k + 1 \in 1..l /\ i + 1 = n + (k + 1) /\ i < n + l
        BY ONLY <4>1, <4>3, n \in Nat, l \in Nat \ {0}, k \in 1..l
      <4>5. t[i + 1] = z[k + 1] /\ z[k + 1].frame = f /\ z[k + 1].k = k + 1 BY <1>5, <1>7, <4>4
      <4> QED BY <1>7, <4>2, <4>4, <4>5
    <3> QED BY <1>7, <1>8, <3>1, <3>2
  <2>3. ASSUME NEW i \in 1..Len(t) - 1, t[i].k = Full(t[i]) PROVE t[i + 1].k = 1
    <3>0. i \in 1..n + l /\ i < n + l BY <1>4, <1>6, <1>7
    <3>1. CASE i \in 1..n /\ i # n
      <4>1. i \in 1..Len(s) - 1 /\ i + 1 \in 1..n BY <1>6, <3>1
      <4> QED BY <1>7, <2>3, <3>1, <4>1 DEF Flow, Contiguous
    <3>2. CASE i = n
      <4>1. 1 \in 1..l BY <1>4
      <4> QED BY <1>5, <1>7, <3>2, <4>1
    <3>3. CASE \E k \in 1..l : i = n + k
      <4>1. PICK k \in 1..l : i = n + k BY <3>3
      <4>2. t[i] = z[k] /\ z[k].frame = f /\ z[k].k = k BY <1>5, <1>7, <4>1
      <4>3. k = l BY <1>4, <2>3, <4>2 DEF Full
      <4> QED BY <1>6, <3>0, <4>1, <4>3
    <3> QED BY <1>8, <3>0, <3>1, <3>2, <3>3
  <2> QED BY <2>1, <2>2, <2>3 DEF Contiguous
<1>11. \A i \in 1..n : s[i].frame.id = x => Pos(s[i].frame) \in Nat /\ Pos(s[i].frame) <= u[x]
  <2> SUFFICES ASSUME NEW i \in 1..n, s[i].frame.id = x
               PROVE  Pos(s[i].frame) \in Nat /\ Pos(s[i].frame) <= u[x]
    OBVIOUS
  <2>1. PICK q \in 1..Count(p, x) : q = Pos(s[i].frame) BY <1>6, BytesOfStream
  <2>2. InTransit(s, x, q) BY <1>6, <2>1 DEF InTransit
  <2> QED BY <1>1, <2>1, <2>2 DEF Flow, Counted
<1>12. InOrder(t)
  <2> SUFFICES ASSUME NEW i \in 1..n + l, NEW j \in 1..n + l, i < j,
                      t[i].frame.id = t[j].frame.id
               PROVE  Before(t[i], t[j])
    <3>1. 1..Len(t) = 1..n + l BY <1>7
    <3> QED BY <3>1 DEF InOrder
  <2>1. CASE j \in 1..n
    <3>1. i \in 1..n BY <1>6, <2>1
    <3> QED BY <1>6, <1>7, <2>1, <3>1 DEF Flow, InOrder
  <2>2. CASE i \in 1..n /\ \E k \in 1..l : j = n + k
    <3>1. PICK k \in 1..l : j = n + k BY <2>2
    <3>2. t[j] = z[k] /\ z[k].frame = f BY <1>5, <1>7, <3>1
    <3>3. t[i] = s[i] /\ s[i].frame.id = x BY <1>2, <1>7, <2>2, <3>2
    <3>4. Pos(s[i].frame) \in Nat /\ Pos(s[i].frame) <= u[x] BY <1>11, <2>2, <3>3
    <3>5. Pos(s[i].frame) < Pos(f) BY <1>2, <3>4
    <3> QED BY <3>2, <3>3, <3>5 DEF Before
  <2>3. CASE (\E k \in 1..l : i = n + k) /\ \E k \in 1..l : j = n + k
    <3>1. PICK g \in 1..l, h \in 1..l : i = n + g /\ j = n + h BY <2>3
    <3>2. t[i] = z[g] /\ t[j] = z[h] BY <1>7, <3>1
    <3>3. z[g].frame = f /\ z[h].frame = f /\ z[g].k = g /\ z[h].k = h BY <1>5
    <3>4. g < h BY <1>6, <3>1
    <3> QED BY <3>2, <3>3, <3>4 DEF Before
  <2>4. CASE j \notin 1..n /\ i \notin 1..n BY <1>8, <2>3, <2>4
  <2> QED BY <1>8, <2>1, <2>2, <2>4
<1>13. ASSUME NEW y \in Ids
       PROVE  /\ r[y] \in Nat /\ u1[y] \in Nat /\ r[y] <= u1[y] /\ u1[y] <= Count(p, y)
              /\ \A q \in 1..Count(p, y) : InTransit(t, y, q) <=> r[y] < q /\ q <= u1[y]
  <2>1. /\ r[y] \in Nat /\ u[y] \in Nat /\ r[y] <= u[y] /\ u[y] <= Count(p, y)
        /\ \A q \in 1..Count(p, y) : InTransit(s, y, q) <=> r[y] < q /\ q <= u[y]
    BY DEF Flow, Counted
  <2>2. /\ u1[y] \in Nat /\ u[y] <= u1[y] /\ u1[y] <= Count(p, y)
        /\ u1[y] = u[y] \/ (y = x /\ u1[y] = u[y] + 1)
    <3>1. CASE y = x BY <1>1, <1>9, <2>1, <3>1
    <3>2. CASE y # x BY <1>9, <2>1, <3>2
    <3> QED BY <3>1, <3>2
  <2>3. Count(p, y) \in Nat BY SequenceFrames
  <2>4. ASSUME NEW q \in 1..Count(p, y), InTransit(t, y, q) PROVE r[y] < q /\ q <= u1[y]
    <3>1. PICK i \in 1..n + l : t[i].frame.id = y /\ Pos(t[i].frame) = q
      BY <1>7, <2>4 DEF InTransit
    <3>2. CASE i \in 1..n
      <4>1. t[i] = s[i] BY <1>7, <3>2
      <4>2. InTransit(s, y, q) BY <1>6, <3>1, <3>2, <4>1 DEF InTransit
      <4> QED BY <2>1, <2>2, <2>3, <4>2
    <3>3. CASE \E k \in 1..l : i = n + k
      <4>1. PICK k \in 1..l : i = n + k BY <3>3
      <4>2. t[i] = z[k] /\ z[k].frame = f BY <1>5, <1>7, <4>1
      <4>3. y = x /\ q = u[x] + 1 BY <1>2, <3>1, <4>2
      <4> QED BY <1>9, <2>1, <4>3
    <3> QED BY <1>8, <3>2, <3>3
  <2>5. ASSUME NEW q \in 1..Count(p, y), r[y] < q, q <= u1[y] PROVE InTransit(t, y, q)
    <3>1. CASE q <= u[y]
      <4>1. PICK i \in 1..n : s[i].frame.id = y /\ Pos(s[i].frame) = q
        BY <1>6, <2>1, <2>5, <3>1 DEF InTransit
      <4> QED BY <1>7, <4>1 DEF InTransit
    <3>2. CASE ~(q <= u[y])
      <4>1. y = x /\ q = u[x] + 1 BY <2>1, <2>2, <2>5, <3>2
      <4>2. 1 \in 1..l BY <1>4
      <4>3. t[n + 1] = z[1] /\ Len(t) = n + l BY <1>7, <4>2
      <4>4. z[1].frame = f BY <1>5, <4>2
      <4>5. n + 1 \in 1..n + l BY ONLY <4>2, n \in Nat, l \in Nat \ {0}
      <4>6. t[n + 1].frame = f /\ n + 1 \in 1..Len(t) BY ONLY <4>3, <4>4, <4>5
      <4> QED BY <1>2, <4>1, <4>6 DEF InTransit
    <3> QED BY <3>1, <3>2
  <2> QED BY <2>1, <2>2, <2>4, <2>5
<1> QED BY <1>9, <1>10, <1>12, <1>13 DEF Flow, Counted

-----------------------------------------------------------------------------
(* What has come out of the decoder, without a fault. *)

\* D are the messages and E the events that have come out: of message m the
\* slots of the first r[m] slices are filled, and it has come out when it is
\* complete; of stream x the first r[x] events have come out, in order.
DeliveredOnce(p, D, ms, r) ==
  /\ \A m \in MsgIds : IsSent(p, m) =>
       /\ (\E i \in DOMAIN D : D[i].id = m) <=> r[m] = Count(p, m)
       /\ m \in DOMAIN ms => r[m] < Count(p, m)
       /\ r[m] < Count(p, m) => FilledSlots(ms, m) = 1..r[m]
  /\ \A i, j \in DOMAIN D : D[i].id = D[j].id => i = j

EventsInOrder(E, r) ==
  /\ \A x \in StreamIds : \A q \in 1..r[x] : \E i \in DOMAIN E : E[i] = EventOf(EncodeStream(x)[q])
  /\ \A i \in DOMAIN E : \E q \in 1..r[E[i].id] : E[i] = EventOf(EncodeStream(E[i].id)[q])
  /\ \A i, j \in DOMAIN E : i < j /\ E[i].id = E[j].id => TypePos(E[i].type) < TypePos(E[j].type)

LEMMA StreamEvent ==
  ASSUME NEW x \in StreamIds, NEW q \in 1..3
  PROVE  EventOf(EncodeStream(x)[q]).id = x /\ TypePos(EventOf(EncodeStream(x)[q]).type) = q
<1>1. CASE q = 1 BY <1>1 DEF EncodeStream, EncodeStreamStart, MakeFrame, EventOf, TypePos
<1>2. CASE q = 2 BY <1>2 DEF EncodeStream, EncodeStreamChunk, MakeFrame, EventOf, TypePos
<1>3. CASE q = 3 BY <1>3 DEF EncodeStream, EncodeStreamEnd, MakeFrame, EventOf, TypePos
<1> QED BY <1>1, <1>2, <1>3

LEMMA EventComesOut ==
  ASSUME NEW E \in Seq(EventSet), NEW r \in [Ids -> Nat], NEW x \in StreamIds, EventsInOrder(E, r),
         r[x] < 3, NEW y, y = EventOf(EncodeStream(x)[r[x] + 1]),
         NEW E1, E1 = Append(E, y), NEW r1, r1 = [r EXCEPT ![x] = @ + 1]
  PROVE  EventsInOrder(E1, r1)
<1>1. x \in Ids BY DEF Ids
<1>2. PICK a \in 0..2 : a = r[x] BY <1>1
<1>3. r1[x] = a + 1 /\ \A z \in Ids : z # x => r1[z] = r[z] BY <1>1, <1>2
<1>4. PICK n \in Nat : n = Len(E) OBVIOUS
<1>5. /\ DOMAIN E = 1..n /\ DOMAIN E1 = 1..n + 1 /\ E1[n + 1] = y /\ n + 1 \in 1..n + 1
      /\ \A i \in 1..n : i \in 1..n + 1 /\ E1[i] = E[i]
  <2>1. PICK V : V = EventSet \cup {y} OBVIOUS
  <2>2. EventSet \subseteq V /\ y \in V BY <2>1
  <2>3. E \in Seq(V) BY <2>2, SeqMonotonic
  <2> QED BY ONLY <1>4, <2>2, <2>3, E1 = Append(E, y), AppendProperties
<1>6. y.id = x /\ TypePos(y.type) = a + 1
  <2>1. a + 1 \in 1..3 BY <1>2
  <2> QED BY <1>2, <2>1, StreamEvent
<1>7. ASSUME NEW i \in 1..n PROVE E[i].id \in StreamIds
  <2>1. PICK z : z = E[i] OBVIOUS
  <2>2. z \in EventSet BY <1>4, <2>1, ElementOfSeq
  <2>3. z.id \in StreamIds BY ONLY <2>2 DEF EventSet
  <2> QED BY <2>1, <2>3
<1>8. ASSUME NEW z \in StreamIds, NEW q \in 1..r1[z]
      PROVE  \E i \in 1..n + 1 : E1[i] = EventOf(EncodeStream(z)[q])
  <2>1. z \in Ids BY DEF Ids
  <2>2. CASE q \in 1..r[z]
    <3>1. PICK i \in 1..n : E[i] = EventOf(EncodeStream(z)[q]) BY <1>5, <2>2 DEF EventsInOrder
    <3> QED BY <1>5, <3>1
  <2>3. CASE q \notin 1..r[z]
    <3>1. z = x BY <1>3, <2>1, <2>3
    <3>2. q \in 1..a + 1 /\ q \notin 1..a BY <1>2, <1>3, <2>3, <3>1
    <3>3. q = a + 1 BY ONLY <3>2, a \in 0..2
    <3>4. E1[n + 1] = EventOf(EncodeStream(z)[q]) BY <1>2, <1>5, <3>1, <3>3
    <3> QED BY <1>5, <3>4
  <2> QED BY <2>2, <2>3
<1>9. ASSUME NEW i \in 1..n + 1
      PROVE  \E q \in 1..r1[E1[i].id] : E1[i] = EventOf(EncodeStream(E1[i].id)[q])
  <2>1. CASE i \in 1..n
    <3>1. E1[i] = E[i] BY <1>5, <2>1
    <3>2. PICK z \in StreamIds : z = E[i].id BY <1>7, <2>1
    <3>3. PICK q \in 1..r[z] : E[i] = EventOf(EncodeStream(z)[q])
      BY <1>5, <2>1, <3>2 DEF EventsInOrder
    <3>4. z \in Ids BY DEF Ids
    <3>5. q \in 1..r1[z]
      <4>1. CASE z = x
        <5>1. q \in 1..a BY <1>2, <4>1
        <5>2. q \in 1..a + 1 BY ONLY <5>1, a \in 0..2
        <5> QED BY <1>3, <4>1, <5>2
      <4>2. CASE z # x BY <1>3, <3>4, <4>2
      <4> QED BY <4>1, <4>2
    <3> QED BY <3>1, <3>2, <3>3, <3>5
  <2>2. CASE i \notin 1..n
    <3>1. i = n + 1 BY ONLY <2>2, n \in Nat, i \in 1..n + 1
    <3>2. E1[i] = y BY <1>5, <3>1
    <3>3. a + 1 \in 1..r1[x] BY <1>2, <1>3
    <3> QED BY <1>2, <1>6, <3>2, <3>3
  <2> QED BY <2>1, <2>2
<1>10. ASSUME NEW i \in 1..n + 1, NEW j \in 1..n + 1, i < j, E1[i].id = E1[j].id
       PROVE  TypePos(E1[i].type) < TypePos(E1[j].type)
  <2>1. i \in 1..n BY ONLY <1>10, n \in Nat
  <2>2. E1[i] = E[i] BY <1>5, <2>1
  <2>3. CASE j \in 1..n
    <3>1. E1[j] = E[j] BY <1>5, <2>3
    <3> QED BY <1>5, <1>10, <2>1, <2>2, <2>3, <3>1 DEF EventsInOrder
  <2>4. CASE j \notin 1..n
    <3>1. j = n + 1 BY ONLY <2>4, n \in Nat, j \in 1..n + 1
    <3>2. E1[j] = y BY <1>5, <3>1
    <3>3. E[i].id = x BY <1>6, <1>10, <2>2, <3>2
    <3>4. PICK q \in 1..a : E[i] = EventOf(EncodeStream(x)[q])
      BY <1>2, <1>5, <2>1, <3>3 DEF EventsInOrder
    <3>5. q \in 1..3 /\ q < a + 1 BY ONLY a \in 0..2, q \in 1..a
    <3>6. TypePos(E[i].type) = q BY <3>4, <3>5, StreamEvent
    <3> QED BY <1>6, <2>2, <3>2, <3>5, <3>6
  <2> QED BY <2>3, <2>4
<1>11. DOMAIN E1 = 1..n + 1 BY <1>5
<1> QED BY ONLY <1>8, <1>9, <1>10, <1>11 DEF EventsInOrder

\* A step of one message or stream does not concern the others.
LEMMA OtherMessages ==
  ASSUME NEW p, NEW D, NEW ms, NEW r \in [Ids -> Nat], DeliveredOnce(p, D, ms, r),
         NEW x \in StreamIds, NEW r1, r1 = [r EXCEPT ![x] = @ + 1]
  PROVE  DeliveredOnce(p, D, ms, r1)
<1>1. \A m \in MsgIds : m \in Ids /\ m # x BY SizesAssumption DEF Ids
<1>2. \A m \in MsgIds : r1[m] = r[m] BY <1>1
<1> QED BY <1>2 DEF DeliveredOnce

LEMMA OtherStreams ==
  ASSUME NEW E \in Seq(EventSet), NEW r \in [Ids -> Nat], EventsInOrder(E, r),
         NEW m \in MsgIds, NEW r1, r1 = [r EXCEPT ![m] = @ + 1]
  PROVE  EventsInOrder(E, r1)
<1>1. \A x \in StreamIds : x \in Ids /\ m # x BY SizesAssumption DEF Ids
<1>2. \A x \in StreamIds : r1[x] = r[x] BY <1>1
<1>3. ASSUME NEW i \in DOMAIN E PROVE E[i].id \in StreamIds
  <2>1. PICK z : z = E[i] OBVIOUS
  <2>2. z \in EventSet BY <2>1
  <2>3. z.id \in StreamIds BY ONLY <2>2 DEF EventSet
  <2> QED BY <2>1, <2>3
<1> QED BY <1>2, <1>3 DEF EventsInOrder

SliceStored(a, n) == a.received = n + 1 /\ Filled(a.slices) = 1..n + 1

\* The next slice of m is stored, and ends the message or not.
LEMMA SliceCounts ==
  ASSUME NEW p \in Plans, NEW m \in MsgIds, IsSent(p, m), NEW D, NEW ms, NEW r \in [Ids -> Nat],
         DeliveredOnce(p, D, ms, r), r[m] < Count(p, m), NEW a, IsAssembly(p, TRUE, m, a),
         Filled(a.slices) = FilledSlots(ms, m) \cup {r[m] + 1}
  PROVE  SliceStored(a, r[m])
<1>1. m \in Ids BY DEF Ids
<1>2. PICK n \in Nat : n = r[m] BY <1>1
<1>3. FilledSlots(ms, m) = 1..n BY <1>2 DEF DeliveredOnce
<1>4. (1..n) \cup {n + 1} = 1..n + 1 BY ONLY n \in Nat
<1>5. Filled(a.slices) = 1..n + 1 BY <1>2, <1>3, <1>4
<1>6. 1 \in Int /\ n + 1 \in Int BY ONLY n \in Nat
<1>7. Cardinality(1..n + 1) = IF 1 > n + 1 THEN 0 ELSE (n + 1) - 1 + 1 BY ONLY <1>6, FS_Interval
<1>8. Cardinality(1..n + 1) = n + 1 BY ONLY <1>7, n \in Nat
<1>9. a.received = Cardinality(Filled(a.slices)) BY DEF IsAssembly
<1> QED BY <1>2, <1>5, <1>8, <1>9 DEF SliceStored

LEMMA MessageComesOut ==
  ASSUME NEW p \in Plans, NEW m \in MsgIds, IsSent(p, m), NEW D \in Seq(Messages(p, TRUE)), NEW ms,
         NEW r \in [Ids -> Nat], DeliveredOnce(p, D, ms, r), r[m] + 1 = Count(p, m),
         NEW y \in Messages(p, TRUE), y.id = m, NEW D1, D1 = Append(D, y),
         NEW ms1, ms1 = Removed(ms, m), NEW r1, r1 = [r EXCEPT ![m] = @ + 1]
  PROVE  DeliveredOnce(p, D1, ms1, r1)
<1>1. m \in Ids BY DEF Ids
<1>2. PICK a \in Nat : a = r[m] BY <1>1
<1>3. r1[m] = a + 1 /\ \A z \in Ids : z # m => r1[z] = r[z] BY <1>1, <1>2
<1>4. PICK n \in Nat : n = Len(D) OBVIOUS
<1>5. /\ DOMAIN D = 1..n /\ DOMAIN D1 = 1..n + 1 /\ D1[n + 1] = y /\ n + 1 \in 1..n + 1
      /\ \A i \in 1..n : i \in 1..n + 1 /\ D1[i] = D[i]
  <2>1. PICK V : V = Messages(p, TRUE) OBVIOUS
  <2>2. D \in Seq(V) /\ y \in V BY <2>1
  <2> QED BY ONLY <1>4, <2>2, D1 = Append(D, y), AppendProperties
<1>6. DOMAIN ms1 = DOMAIN ms \ {m} /\ \A z \in DOMAIN ms1 : ms1[z] = ms[z] BY DEF Removed
<1>7. \A i \in 1..n : D[i].id # m
  <2>1. Count(p, m) = a + 1 BY <1>2
  <2>2. r[m] # Count(p, m) BY <1>2, <2>1
  <2> QED BY <1>5, <2>2 DEF DeliveredOnce
<1>8. ASSUME NEW z \in MsgIds, IsSent(p, z)
      PROVE  /\ (\E i \in 1..n + 1 : D1[i].id = z) <=> r1[z] = Count(p, z)
             /\ z \in DOMAIN ms1 => r1[z] < Count(p, z)
             /\ r1[z] < Count(p, z) => FilledSlots(ms1, z) = 1..r1[z]
  <2>1. CASE z = m
    <3>1. r1[z] = Count(p, z) BY <1>2, <1>3, <2>1
    <3>2. \E i \in 1..n + 1 : D1[i].id = z BY <1>5, <2>1
    <3>3. ~(r1[z] < Count(p, z)) BY <1>2, <1>3, <2>1
    <3> QED BY <1>6, <2>1, <3>1, <3>2, <3>3
  <2>2. CASE z # m
    <3>1. r1[z] = r[z] BY <1>3, <2>2 DEF Ids
    <3>2. /\ (\E i \in 1..n : D[i].id = z) <=> r[z] = Count(p, z)
          /\ z \in DOMAIN ms => r[z] < Count(p, z)
          /\ r[z] < Count(p, z) => FilledSlots(ms, z) = 1..r[z]
      BY <1>5, <1>8 DEF DeliveredOnce
    <3>3. (\E i \in 1..n + 1 : D1[i].id = z) <=> (\E i \in 1..n : D[i].id = z)
      <4>1. \A i \in 1..n + 1 : i \in 1..n \/ i = n + 1 BY ONLY n \in Nat
      <4> QED BY <1>5, <2>2, <4>1
    <3>4. FilledSlots(ms1, z) = FilledSlots(ms, z) BY <1>6, <2>2 DEF FilledSlots
    <3>5. z \in DOMAIN ms1 => z \in DOMAIN ms BY <1>6
    <3> QED BY ONLY <3>1, <3>2, <3>3, <3>4, <3>5
  <2> QED BY <2>1, <2>2
<1>9. ASSUME NEW i \in 1..n + 1, NEW j \in 1..n + 1, D1[i].id = D1[j].id PROVE i = j
  <2>1. \A k \in 1..n + 1 : k \in 1..n \/ k = n + 1 BY ONLY n \in Nat
  <2>2. CASE i \in 1..n /\ j \in 1..n
    <3>1. D[i].id = D[j].id BY <1>5, <1>9, <2>2
    <3> QED BY <1>5, <2>2, <3>1 DEF DeliveredOnce
  <2>3. CASE i \in 1..n /\ j = n + 1 BY <1>5, <1>7, <1>9, <2>3
  <2>4. CASE j \in 1..n /\ i = n + 1 BY <1>5, <1>7, <1>9, <2>4
  <2> QED BY <2>1, <2>2, <2>3, <2>4
<1>10. DOMAIN D1 = 1..n + 1 BY <1>5
<1> QED BY ONLY <1>8, <1>9, <1>10 DEF DeliveredOnce

LEMMA MessageGrows ==
  ASSUME NEW p \in Plans, NEW m \in MsgIds, IsSent(p, m), NEW D, NEW ms,
         NEW r \in [Ids -> Nat], DeliveredOnce(p, D, ms, r), r[m] < Count(p, m),
         r[m] + 1 # Count(p, m), NEW a, Filled(a.slices) = 1..r[m] + 1,
         NEW ms1, ms1 = Kept(ms, m, a), NEW r1, r1 = [r EXCEPT ![m] = @ + 1]
  PROVE  DeliveredOnce(p, D, ms1, r1)
<1>1. m \in Ids BY DEF Ids
<1>2. PICK n \in Nat, c \in Nat : n = r[m] /\ c = Count(p, m) BY <1>1, SequenceFrames
<1>3. r1[m] = n + 1 /\ \A z \in Ids : z # m => r1[z] = r[z] BY <1>1, <1>2
<1>4. n + 1 < c
  <2>1. n < c /\ n + 1 # c BY <1>2
  <2> QED BY ONLY <2>1, n \in Nat, c \in Nat
<1>5. DOMAIN ms1 = DOMAIN ms \cup {m} /\ ms1[m] = a /\ \A z \in DOMAIN ms : z # m => ms1[z] = ms[z]
  BY DEF Kept
<1>6. ASSUME NEW z \in MsgIds, IsSent(p, z)
      PROVE  /\ (\E i \in DOMAIN D : D[i].id = z) <=> r1[z] = Count(p, z)
             /\ z \in DOMAIN ms1 => r1[z] < Count(p, z)
             /\ r1[z] < Count(p, z) => FilledSlots(ms1, z) = 1..r1[z]
  <2>1. CASE z = m
    <3>1. r1[z] < Count(p, z) /\ r1[z] # Count(p, z) BY <1>2, <1>3, <1>4, <2>1
    <3>2. ~(\E i \in DOMAIN D : D[i].id = z)
      <4>1. r[z] # Count(p, z) BY <1>2, <2>1
      <4> QED BY <1>6, <4>1 DEF DeliveredOnce
    <3>3. FilledSlots(ms1, z) = 1..r1[z] BY <1>2, <1>3, <1>5, <2>1 DEF FilledSlots
    <3> QED BY ONLY <3>1, <3>2, <3>3
  <2>2. CASE z # m
    <3>1. r1[z] = r[z] BY <1>3, <2>2 DEF Ids
    <3>2. /\ (\E i \in DOMAIN D : D[i].id = z) <=> r[z] = Count(p, z)
          /\ z \in DOMAIN ms => r[z] < Count(p, z)
          /\ r[z] < Count(p, z) => FilledSlots(ms, z) = 1..r[z]
      BY <1>6 DEF DeliveredOnce
    <3>3. FilledSlots(ms1, z) = FilledSlots(ms, z) BY <1>5, <2>2 DEF FilledSlots
    <3>4. z \in DOMAIN ms1 => z \in DOMAIN ms BY <1>5, <2>2
    <3> QED BY ONLY <3>1, <3>2, <3>3, <3>4
  <2> QED BY <2>1, <2>2
<1>7. \A i, j \in DOMAIN D : D[i].id = D[j].id => i = j BY DEF DeliveredOnce
<1> QED BY ONLY <1>6, <1>7 DEF DeliveredOnce

-----------------------------------------------------------------------------
(* Pieces of sequences. *)

LEMMA AppendBehind ==
  ASSUME NEW V, NEW g \in Seq(V), NEW c \in Seq(V), NEW y \in V
  PROVE  g \o Append(c, y) = Append(g \o c, y)
<1>1. Append(c, y) = c \o <<y>> BY AppendIsConcat
<1>2. <<y>> \in Seq(V) /\ g \o c \in Seq(V) OBVIOUS
<1>3. Append(g \o c, y) = (g \o c) \o <<y>> BY <1>2, AppendIsConcat
<1>4. (g \o c) \o <<y>> = g \o (c \o <<y>>) BY <1>2, ConcatAssociative, SMTT(30)
<1> QED BY <1>1, <1>3, <1>4

LEMMA HeadMoves ==
  ASSUME NEW V, NEW g \in Seq(V), NEW c \in Seq(V), c # <<>>
  PROVE  Append(g, Head(c)) \o Tail(c) = g \o c
<1>0. Head(c) \in V /\ Tail(c) \in Seq(V) BY HeadTailProperties
<1>1. PICK y \in V, t \in Seq(V) : y = Head(c) /\ t = Tail(c) BY <1>0
<1>2. Len(c) \in Nat \ {0} BY EmptySeq
<1>3. 1 \in 1..Len(c) /\ Len(c) \in 1..Len(c) BY <1>2
<1>4. c = <<y>> \o t
  <2>1. SubSeq(c, 1, Len(c)) = <<c[1]>> \o SubSeq(c, 1 + 1, Len(c))
    BY <1>3, SubSeqRecursiveFirst
  <2>2. SubSeq(c, 1, Len(c)) = c BY SubSeqFull
  <2>3. t = SubSeq(c, 2, Len(c)) BY <1>1, TailIsSubSeq
  <2>4. y = c[1] BY <1>1
  <2> QED BY <2>1, <2>2, <2>3, <2>4
<1>5. <<y>> \in Seq(V) OBVIOUS
<1>6. Append(g, y) = g \o <<y>> BY AppendIsConcat
<1>7. (g \o <<y>>) \o t = g \o (<<y>> \o t) BY <1>5, ConcatAssociative, SMTT(30)
<1> QED BY <1>1, <1>4, <1>6, <1>7

LEMMA CutFront ==
  ASSUME NEW V, NEW b \in Seq(V), NEW w \in Seq(V), NEW l \in Nat, l <= Len(b)
  PROVE  SubSeq(b, l + 1, Len(b)) \o w = SubSeq(b \o w, l + 1, Len(b \o w))
<1>1. PICK n \in Nat, k \in Nat : n = Len(b) /\ k = Len(w) OBVIOUS
<1>2. PICK s : s = b \o w OBVIOUS
<1>3. /\ s \in Seq(V) /\ Len(s) = n + k
      /\ \A i \in 1..n + k : s[i] = IF i <= n THEN b[i] ELSE w[i - n]
  BY <1>1, <1>2, ConcatProperties
<1>4. PICK j \in Nat \ {0} : j = l + 1 /\ j <= n + 1 BY <1>1
<1>5. PICK t, z : t = SubSeq(b, j, n) /\ z = SubSeq(s, j, n + k) OBVIOUS
<1>6. /\ t \in Seq(V) /\ Len(t) = n - l
      /\ \A i \in 1..n - l : t[i] = b[l + i]
  <2>1. n <= Len(b) BY <1>1
  <2>2. /\ t \in Seq(V) /\ Len(t) = IF j <= n THEN n - j + 1 ELSE 0
        /\ \A i \in 1..Len(t) : t[i] = b[j + i - 1]
    BY <1>5, <2>1, PartOfBuffer
  <2>3. Len(t) = n - l BY <1>1, <1>4, <2>2
  <2>4. ASSUME NEW i \in 1..n - l PROVE t[i] = b[l + i]
    <3>1. j + i - 1 = l + i BY <1>1, <1>4
    <3> QED BY <2>2, <2>3, <3>1
  <2> QED BY <2>2, <2>3, <2>4
<1>7. /\ z \in Seq(V) /\ Len(z) = n + k - l
      /\ \A i \in 1..n + k - l : z[i] = s[l + i]
  <2>1. n + k <= Len(s) /\ n + k \in Nat BY <1>3
  <2>2. /\ z \in Seq(V) /\ Len(z) = IF j <= n + k THEN n + k - j + 1 ELSE 0
        /\ \A i \in 1..Len(z) : z[i] = s[j + i - 1]
    BY <1>3, <1>5, <2>1, PartOfBuffer
  <2>3. Len(z) = n + k - l BY <1>1, <1>4, <2>2
  <2>4. ASSUME NEW i \in 1..n + k - l PROVE z[i] = s[l + i]
    <3>1. j + i - 1 = l + i BY <1>1, <1>4
    <3> QED BY <2>2, <2>3, <3>1
  <2> QED BY <2>2, <2>3, <2>4
<1>8. PICK v : v = t \o w OBVIOUS
<1>9. /\ v \in Seq(V) /\ Len(v) = (n - l) + k
      /\ \A i \in 1..(n - l) + k : v[i] = IF i <= n - l THEN t[i] ELSE w[i - (n - l)]
  <2>1. PICK nt : nt = n - l OBVIOUS
  <2>2. t \in Seq(V) /\ Len(t) = nt /\ w \in Seq(V) /\ Len(w) = k BY <1>1, <1>6, <2>1
  <2>3. /\ t \o w \in Seq(V) /\ Len(t \o w) = Len(t) + Len(w)
        /\ \A i \in 1..Len(t) + Len(w) : (t \o w)[i] = IF i <= Len(t) THEN t[i] ELSE w[i - Len(t)]
    BY ONLY <2>2, ConcatProperties
  <2>4. /\ v \in Seq(V) /\ Len(v) = nt + k
        /\ \A i \in 1..nt + k : v[i] = IF i <= nt THEN t[i] ELSE w[i - nt]
    BY ONLY <1>8, <2>2, <2>3
  <2> QED BY ONLY <2>1, <2>4
<1>10. Len(v) = Len(z) BY ONLY <1>7, <1>9, n \in Nat, k \in Nat, l \in Nat
<1>11. ASSUME NEW i \in 1..Len(v) PROVE v[i] = z[i]
  <2>0. l \in Nat /\ l <= n BY <1>1
  <2>1. i \in 1..(n - l) + k /\ i \in 1..n + k - l /\ l + i \in 1..n + k
    BY ONLY <1>9, <2>0, n \in Nat, k \in Nat, i \in 1..Len(v)
  <2>2. z[i] = s[l + i] BY <1>7, <2>1
  <2>3. CASE i <= n - l
    <3>1. l + i <= n /\ i \in 1..n - l BY ONLY <2>0, <2>1, <2>3, n \in Nat, k \in Nat
    <3>2. v[i] = t[i] /\ t[i] = b[l + i] BY <1>6, <1>9, <2>1, <2>3, <3>1
    <3>3. s[l + i] = b[l + i] BY <1>3, <2>1, <3>1
    <3> QED BY <2>2, <3>2, <3>3
  <2>4. CASE ~(i <= n - l)
    <3>1. ~(l + i <= n) /\ i - (n - l) = (l + i) - n
      BY ONLY <2>0, <2>1, <2>4, n \in Nat, k \in Nat
    <3>2. v[i] = w[i - (n - l)] BY <1>9, <2>1, <2>4
    <3>3. s[l + i] = w[(l + i) - n] BY <1>3, <2>1, <3>1
    <3> QED BY <2>2, <3>1, <3>2, <3>3
  <2> QED BY <2>3, <2>4
<1>12. v = z BY <1>7, <1>9, <1>10, <1>11, SeqEqual
<1> QED BY <1>1, <1>2, <1>3, <1>4, <1>5, <1>8, <1>12

-----------------------------------------------------------------------------
(* The loop of TryDecode, without a fault. *)

\* The decoder, with the bytes w still on the way and gm and ge already taken out.
Progress(p, w, gm, ge, u, b, ms, c, e) ==
  \E r \in [Ids -> Nat] : /\ Flow(p, b \o w, r, u)
                          /\ DeliveredOnce(p, gm \o c, ms, r)
                          /\ EventsInOrder(ge \o e, r)

FrameRead(p, w, b, r, u, x, r1) ==
  /\ Flow(p, Behind(b) \o w, r1, u) /\ r1 \in [Ids -> Nat]
  /\ NextFrame(b) \in Frames(p) /\ x \in Ids /\ Pos(NextFrame(b)) = r[x] + 1
  /\ r[x] < u[x] /\ r[x] + 1 <= Count(p, x)
  /\ Len(Behind(b)) + HeaderSize <= Len(b)

\* One frame less in the buffer.
LEMMA FrameLess ==
  ASSUME NEW p \in Plans, NEW b \in Seq(WireBytes(p, TRUE)), NEW w \in Seq(WireBytes(p, TRUE)),
         NEW r \in [Ids -> Nat], NEW u, Flow(p, b \o w, r, u), Complete(b), Len(b) >= HeaderSize,
         NEW x, x = NextFrame(b).id, NEW r1, r1 = [r EXCEPT ![x] = @ + 1]
  PROVE  FrameRead(p, w, b, r, u, x, r1)
<1>1. PICK V, s : V = WireBytes(p, TRUE) /\ s = b \o w OBVIOUS
<1>2. b \in Seq(V) /\ w \in Seq(V) BY <1>1
<1>3. PICK n \in Nat, k \in Nat : n = Len(b) /\ k = Len(w) BY <1>2
<1>4. /\ s \in Seq(V) /\ Len(s) = n + k
      /\ \A i \in 1..n + k : s[i] = IF i <= n THEN b[i] ELSE w[i - n]
  BY ONLY <1>1, <1>2, <1>3, ConcatProperties
<1>5. HeaderSize \in Nat \ {0} /\ n >= HeaderSize BY <1>3, SizesAssumption
<1>6. 1 \in 1..n + k /\ 1 <= n /\ n + k # 0 BY ONLY <1>5, n \in Nat, k \in Nat
<1>7. s[1] = b[1] /\ s # <<>> BY <1>4, <1>6
<1>8. Flow(p, s, r, u) /\ s \in Seq(WireBytes(p, TRUE)) BY <1>1, <1>4
<1>9. PICK l : l = Full(s[1]) OBVIOUS
<1>10. x = s[1].frame.id /\ NextFrame(b) = s[1].frame BY <1>7 DEF NextFrame
<1>11. l = HeaderSize + b[1].frame.payload_len BY <1>7, <1>9 DEF Full
<1>12. l <= n BY <1>3, <1>11 DEF Complete
<1>13. l \in Nat /\ l > HeaderSize
  <2>1. Contiguous(s) BY <1>8 DEF Flow
  <2> QED BY <1>7, <1>8, <1>9, <2>1, FirstFrame
<1>14. PICK t : t = SubSeq(s, l + 1, Len(s)) OBVIOUS
<1>15. Flow(p, t, r1, u) /\ r1 \in [Ids -> Nat]
  <2>1. r1 = [r EXCEPT ![x] = @ + 1] OBVIOUS
  <2>2. s # <<>> /\ x = s[1].frame.id BY <1>7, <1>10
  <2>3. s \in Seq(WireBytes(p, TRUE)) /\ Flow(p, s, r, u) BY <1>8
  <2>4. ReadFirst(p, s, r, u, x, l, t, r1) BY <1>9, <1>14, <2>1, <2>2, <2>3 DEF ReadFirst
  <2> QED BY ONLY <2>4, FlowBehind, Zenon
<1>16. Behind(b) = SubSeq(b, l + 1, Len(b)) BY <1>11 DEF Behind
<1>17. t = Behind(b) \o w
  <2>1. SubSeq(b, l + 1, Len(b)) \o w = SubSeq(b \o w, l + 1, Len(b \o w))
    <3>1. l \in Nat /\ l <= Len(b) BY <1>3, <1>12, <1>13
    <3> QED BY ONLY <1>2, <3>1, CutFront, Zenon
  <2> QED BY <1>1, <1>14, <1>16, <2>1
<1>18. /\ s[1].frame \in Frames(p) /\ s[1].frame.id \in Ids
       /\ Pos(s[1].frame) = r[s[1].frame.id] + 1 /\ r[s[1].frame.id] < u[s[1].frame.id]
  BY <1>7, <1>8, FirstIsNext
<1>19. r[x] + 1 <= Count(p, x)
  <2>1. x \in Ids /\ r[x] < u[x] BY <1>10, <1>18
  <2>2. u[x] \in Nat /\ u[x] <= Count(p, x) /\ r[x] \in Nat BY <1>8, <2>1 DEF Flow, Counted
  <2>3. Count(p, x) \in Nat BY <2>1, SequenceFrames
  <2> QED BY ONLY <2>1, <2>2, <2>3
<1>20. Len(Behind(b)) + HeaderSize <= Len(b)
  <2>1. Len(Behind(b)) = n - l
    <3>1. Len(Behind(b)) = Len(b) - (HeaderSize + NextFrame(b).payload_len) BY BehindFront
    <3> QED BY <1>3, <1>7, <1>10, <1>11, <3>1
  <2> QED BY ONLY <1>3, <1>5, <1>12, <1>13, <2>1
<1> QED BY <1>10, <1>15, <1>17, <1>18, <1>19, <1>20 DEF FrameRead

OneFrameRead(p, w, gm, ge, u, b, n, rec) ==
  \E b1, ms1, c1, e1 :
    /\ rec = Record(b1, ms1, c1, e1, n + 1, FALSE, FALSE)
    /\ Progress(p, w, gm, ge, u, b1, ms1, c1, e1)
    /\ Len(b1) + HeaderSize <= Len(b)

LEMMA EventProgress ==
  ASSUME NEW p \in Plans, NEW w \in Seq(WireBytes(p, TRUE)), NEW gm, NEW ge \in Seq(EventSet), NEW u,
         NEW b \in Seq(WireBytes(p, TRUE)), NEW ms, NEW c, NEW e \in Seq(EventSet), NEW n, NEW rec,
         Progress(p, w, gm, ge, u, b, ms, c, e), Complete(b), Len(b) >= HeaderSize,
         EventRound(TRUE, b, ms, c, e, n, rec)
  PROVE  OneFrameRead(p, w, gm, ge, u, b, n, rec)
<1>1. PICK r \in [Ids -> Nat] : /\ Flow(p, b \o w, r, u) /\ DeliveredOnce(p, gm \o c, ms, r)
                                /\ EventsInOrder(ge \o e, r)
  BY DEF Progress
<1>2. PICK f : f = NextFrame(b) OBVIOUS
<1>3. IsStreamFrame(f) BY <1>2 DEF EventRound
<1>4. PICK y \in EventSet :
        /\ y = EventOf(f) /\ rec = Record(Behind(b), ms, c, Append(e, y), n + 1, FALSE, FALSE)
  BY <1>2 DEF EventRound
<1>5. PICK x \in StreamIds : x = f.id BY <1>3, StreamFrameShape
<1>6. PICK r1 : r1 = [r EXCEPT ![x] = @ + 1] OBVIOUS
<1>7. /\ Flow(p, Behind(b) \o w, r1, u) /\ r1 \in [Ids -> Nat]
      /\ f \in Frames(p) /\ x \in Ids /\ Pos(f) = r[x] + 1
      /\ r[x] < u[x] /\ r[x] + 1 <= Count(p, x)
      /\ Len(Behind(b)) + HeaderSize <= Len(b)
  <2>1. FrameRead(p, w, b, r, u, x, r1)
    <3>1. x = NextFrame(b).id BY <1>2, <1>5
    <3> QED BY ONLY <1>1, <1>6, <3>1, FrameLess, p \in Plans, b \in Seq(WireBytes(p, TRUE)),
                    w \in Seq(WireBytes(p, TRUE)), Complete(b), Len(b) >= HeaderSize
  <2> QED BY <1>2, <2>1 DEF FrameRead
<1>8. Count(p, x) = 3 BY <1>7, SequenceFrames
<1>9. r[x] < 3 BY <1>7, <1>8
<1>10. y = EventOf(EncodeStream(x)[r[x] + 1])
  <2>1. f = Sequence(p, f.id)[Pos(f)] BY <1>7, FrameIdentity
  <2>2. Sequence(p, x) = EncodeStream(x) BY DEF Sequence
  <2> QED BY <1>4, <1>5, <1>7, <2>1, <2>2
<1>11. PICK E, E1 : E = ge \o e /\ E1 = Append(E, y) OBVIOUS
<1>12. E \in Seq(EventSet) BY <1>11
<1>13. EventsInOrder(E1, r1) BY <1>1, <1>6, <1>9, <1>10, <1>11, <1>12, EventComesOut
<1>14. E1 = ge \o Append(e, y)
  <2>1. ge \o Append(e, y) = Append(ge \o e, y)
    BY ONLY AppendBehind, ge \in Seq(EventSet), e \in Seq(EventSet), y \in EventSet
  <2> QED BY ONLY <1>11, <2>1
<1>15. DeliveredOnce(p, gm \o c, ms, r1) BY <1>1, <1>6, OtherMessages
<1>16. Progress(p, w, gm, ge, u, Behind(b), ms, c, Append(e, y))
  BY <1>7, <1>13, <1>14, <1>15 DEF Progress
<1> QED BY <1>4, <1>7, <1>16 DEF OneFrameRead

LEMMA SliceProgress ==
  ASSUME NEW p \in Plans, NEW w \in Seq(WireBytes(p, TRUE)), NEW gm \in Seq(Messages(p, TRUE)),
         NEW ge \in Seq(EventSet), NEW u, NEW b \in Seq(WireBytes(p, TRUE)), NEW ms,
         NEW c \in Seq(Messages(p, TRUE)), NEW e \in Seq(EventSet), NEW n, NEW rec,
         Progress(p, w, gm, ge, u, b, ms, c, e), Complete(b), Len(b) >= HeaderSize,
         SliceRound(p, TRUE, b, ms, c, e, n, rec)
  PROVE  OneFrameRead(p, w, gm, ge, u, b, n, rec)
<1>1. PICK r \in [Ids -> Nat] : /\ Flow(p, b \o w, r, u) /\ DeliveredOnce(p, gm \o c, ms, r)
                                /\ EventsInOrder(ge \o e, r)
  BY DEF Progress
<1>2. PICK m, k, a :
        /\ m \in MsgIds /\ IsSent(p, m) /\ k \in 1..Total(p, m)
        /\ NextFrame(b) = FrameOf(p, m, k)
        /\ IsAssembly(p, TRUE, m, a)
        /\ Filled(a.slices) = FilledSlots(ms, m) \cup {k}
        /\ \/ /\ a.received = Total(p, m)
              /\ \E x \in Messages(p, TRUE) :
                   /\ x.id = m
                   /\ rec = Record(Behind(b), Removed(ms, m), Append(c, x), e, n + 1, FALSE, FALSE)
           \/ /\ a.received # Total(p, m)
              /\ rec = Record(Behind(b), Kept(ms, m, a), c, e, n + 1, FALSE, FALSE)
  BY Zenon DEF SliceRound
<1> m \in MsgIds BY <1>2
<1>3. m \in Ids /\ m \notin StreamIds BY SizesAssumption DEF Ids
<1>4. Count(p, m) = Total(p, m) /\ Count(p, m) \in Nat BY <1>2, <1>3, SequenceFrames
<1>5. Sequence(p, m) = EncodeMessage(m, p[m].length, p[m].crc)
  BY <1>2, <1>3 DEF Sequence, IsSent
<1>6. NextFrame(b).id = m /\ Pos(NextFrame(b)) = k
  <2>1. NextFrame(b) = Sequence(p, m)[k] BY <1>2, <1>5 DEF FrameOf
  <2> QED BY <1>2, <1>3, <1>4, <2>1, SequenceFrames
<1>7. PICK r1 : r1 = [r EXCEPT ![m] = @ + 1] OBVIOUS
<1>8. FrameRead(p, w, b, r, u, m, r1)
  <2>1. m = NextFrame(b).id BY <1>6
  <2> QED BY ONLY <1>1, <1>7, <2>1, FrameLess, p \in Plans, b \in Seq(WireBytes(p, TRUE)),
                  w \in Seq(WireBytes(p, TRUE)), Complete(b), Len(b) >= HeaderSize
<1>9. /\ Flow(p, Behind(b) \o w, r1, u) /\ r1 \in [Ids -> Nat]
      /\ Len(Behind(b)) + HeaderSize <= Len(b)
      /\ k = r[m] + 1 /\ k <= Count(p, m)
  BY <1>6, <1>8 DEF FrameRead
<1>10. r[m] \in Nat /\ r[m] < Count(p, m) BY <1>3, <1>4, <1>9
<1>11. PICK D : D = gm \o c OBVIOUS
<1>12. D \in Seq(Messages(p, TRUE))
  <2>1. PICK V : V = Messages(p, TRUE) OBVIOUS
  <2>2. gm \in Seq(V) /\ c \in Seq(V) BY <2>1
  <2>3. gm \o c \in Seq(V) BY ONLY <2>2
  <2> QED BY ONLY <1>11, <2>1, <2>3
<1>13. DeliveredOnce(p, D, ms, r) BY <1>1, <1>11
<1>14. a.received = r[m] + 1 /\ Filled(a.slices) = 1..r[m] + 1
  <2>1. Filled(a.slices) = FilledSlots(ms, m) \cup {r[m] + 1} BY <1>2, <1>9
  <2>2. IsSent(p, m) /\ IsAssembly(p, TRUE, m, a) BY <1>2
  <2>3. r[m] < Count(p, m) BY <1>10
  <2>4. SliceStored(a, r[m])
    BY ONLY <1>13, <2>1, <2>2, <2>3, SliceCounts, p \in Plans, m \in MsgIds, r \in [Ids -> Nat]
  <2> QED BY ONLY <2>4 DEF SliceStored
<1>15. EventsInOrder(ge \o e, r1)
  <2>1. PICK E : E = ge \o e OBVIOUS
  <2>2. E \in Seq(EventSet) /\ EventsInOrder(E, r) BY <1>1, <2>1
  <2>3. EventsInOrder(E, r1) BY <1>7, <2>2, OtherStreams
  <2> QED BY <2>1, <2>3
<1>16. CASE a.received = Total(p, m)
  <2>1. PICK y \in Messages(p, TRUE) :
          /\ y.id = m
          /\ rec = Record(Behind(b), Removed(ms, m), Append(c, y), e, n + 1, FALSE, FALSE)
    BY <1>2, <1>16
  <2>2. PICK D1, ms1 : D1 = Append(D, y) /\ ms1 = Removed(ms, m) OBVIOUS
  <2>3. r[m] + 1 = Count(p, m) BY <1>4, <1>14, <1>16
  <2>4. IsSent(p, m) BY <1>2
  <2>5. DeliveredOnce(p, D1, ms1, r1)
    BY ONLY <1>7, <1>12, <1>13, <2>1, <2>2, <2>3, <2>4, MessageComesOut, p \in Plans, m \in MsgIds,
            y \in Messages(p, TRUE), r \in [Ids -> Nat], Zenon
  <2>6. D1 = gm \o Append(c, y)
    <3>1. PICK V : V = Messages(p, TRUE) OBVIOUS
    <3>2. gm \in Seq(V) /\ c \in Seq(V) /\ y \in V BY <3>1
    <3>3. gm \o Append(c, y) = Append(gm \o c, y) BY ONLY <3>2, AppendBehind
    <3> QED BY ONLY <1>11, <2>2, <3>3
  <2>7. Progress(p, w, gm, ge, u, Behind(b), ms1, Append(c, y), e)
    BY <1>9, <1>15, <2>5, <2>6 DEF Progress
  <2> QED BY <1>9, <2>1, <2>2, <2>7 DEF OneFrameRead
<1>17. CASE a.received # Total(p, m)
  <2>1. rec = Record(Behind(b), Kept(ms, m, a), c, e, n + 1, FALSE, FALSE) BY <1>2, <1>17
  <2>2. PICK ms1 : ms1 = Kept(ms, m, a) OBVIOUS
  <2>3. r[m] + 1 # Count(p, m) BY <1>4, <1>14, <1>17
  <2>4. IsSent(p, m) BY <1>2
  <2>5. DeliveredOnce(p, D, ms1, r1)
    BY ONLY <1>7, <1>10, <1>13, <1>14, <2>2, <2>3, <2>4, MessageGrows, p \in Plans, m \in MsgIds,
            r \in [Ids -> Nat], Zenon
  <2>6. Progress(p, w, gm, ge, u, Behind(b), ms1, c, e)
    BY <1>9, <1>11, <1>15, <2>5 DEF Progress
  <2> QED BY <1>9, <2>1, <2>2, <2>6 DEF OneFrameRead
<1> QED BY <1>16, <1>17

\* A whole stream of bytes never stops the decoder with an exception.
LEMMA NeverStuck ==
  ASSUME NEW p \in Plans, NEW b \in Seq(WireBytes(p, TRUE)), NEW w \in Seq(WireBytes(p, TRUE)),
         Contiguous(b \o w)
  PROVE  ~Stuck(b)
<1> SUFFICES ASSUME Stuck(b) PROVE FALSE OBVIOUS
<1>1. PICK V, s : V = WireBytes(p, TRUE) /\ s = b \o w OBVIOUS
<1>2. b \in Seq(V) /\ w \in Seq(V) BY <1>1
<1>3. PICK n \in Nat, k \in Nat : n = Len(b) /\ k = Len(w) BY <1>2
<1>4. /\ s \in Seq(V) /\ Len(s) = n + k
      /\ \A i \in 1..n + k : s[i] = IF i <= n THEN b[i] ELSE w[i - n]
  BY ONLY <1>1, <1>2, <1>3, ConcatProperties
<1>5. HeaderSize \in Nat \ {0} /\ n >= HeaderSize BY <1>3, SizesAssumption DEF Stuck
<1>6. 1 \in 1..n + k /\ 1 <= n /\ n + k # 0 BY ONLY <1>5, n \in Nat, k \in Nat
<1>7. s[1] = b[1] /\ s # <<>> BY <1>4, <1>6
<1>8. s[1].k = 1 BY <1>1, <1>7 DEF Contiguous
<1> QED BY <1>7, <1>8 DEF Stuck

LEMMA RoundProgress ==
  ASSUME NEW p \in Plans, NEW w \in Seq(WireBytes(p, TRUE)), NEW gm \in Seq(Messages(p, TRUE)),
         NEW ge \in Seq(EventSet), NEW u, NEW b, NEW ms, NEW c, NEW e, NEW n, NEW rec,
         FieldsInv(p, TRUE, b, ms, c, e, n, FALSE, FALSE),
         Progress(p, w, gm, ge, u, b, ms, c, e), RoundCases(p, TRUE, b, ms, c, e, n, rec)
  PROVE  \/ Waiting(b) /\ rec = Record(b, ms, c, e, n, TRUE, FALSE)
         \/ OneFrameRead(p, w, gm, ge, u, b, n, rec)
<1>1. /\ b \in Seq(WireBytes(p, TRUE)) /\ c \in Seq(Messages(p, TRUE)) /\ e \in Seq(EventSet)
  BY DEF FieldsInv
<1>2. ~Stuck(b)
  <2>1. Contiguous(b \o w) BY DEF Progress, Flow
  <2> QED BY <1>1, <2>1, NeverStuck
<1>3. CASE Complete(b) /\ Len(b) >= HeaderSize /\ EventRound(TRUE, b, ms, c, e, n, rec)
  BY <1>1, <1>3, EventProgress
<1>4. CASE Complete(b) /\ Len(b) >= HeaderSize /\ SliceRound(p, TRUE, b, ms, c, e, n, rec)
  BY <1>1, <1>4, SliceProgress
<1> QED BY <1>2, <1>3, <1>4 DEF RoundCases

\* Between two rounds: the loop has ended, or at most `room' bytes are left to read.
DecoderFlow(p, w, gm, ge, u, d, room) ==
  \E b, ms, c, e, n, done :
    /\ done \in BOOLEAN /\ d = Record(b, ms, c, e, n, done, FALSE)
    /\ FieldsInv(p, TRUE, b, ms, c, e, n, FALSE, FALSE)
    /\ Progress(p, w, gm, ge, u, b, ms, c, e)
    /\ done => Waiting(b)
    /\ ~done => Len(b) <= room

LEMMA FlowRound ==
  ASSUME NEW p \in Plans, NEW w \in Seq(WireBytes(p, TRUE)), NEW gm \in Seq(Messages(p, TRUE)),
         NEW ge \in Seq(EventSet), NEW u, NEW d, NEW room \in Int,
         DecoderFlow(p, w, gm, ge, u, d, room)
  PROVE  DecoderFlow(p, w, gm, ge, u, Round(d), room - HeaderSize)
<1>1. PICK b, ms, c, e, n, done :
        /\ done \in BOOLEAN /\ d = Record(b, ms, c, e, n, done, FALSE)
        /\ FieldsInv(p, TRUE, b, ms, c, e, n, FALSE, FALSE)
        /\ Progress(p, w, gm, ge, u, b, ms, c, e)
        /\ done => Waiting(b)
        /\ ~done => Len(b) <= room
  BY Zenon DEF DecoderFlow
<1>2. d.done = done BY <1>1 DEF Record
<1>3. CASE done
  <2>1. Round(d) = d BY <1>2, <1>3 DEF Round
  <2>2. d = Record(b, ms, c, e, n, TRUE, FALSE) BY <1>1, <1>3
  <2> QED BY <1>1, <1>3, <2>1, <2>2 DEF DecoderFlow
<1>4. CASE ~done
  <2>1. PICK rec : rec = DecodeStep(d) OBVIOUS
  <2>2. Round(d) = rec BY <1>2, <1>4, <2>1 DEF Round
  <2>3. d = Record(b, ms, c, e, n, FALSE, FALSE) BY <1>1, <1>4
  <2>4. RoundCases(p, TRUE, b, ms, c, e, n, rec) BY <1>1, <2>1, <2>3, OneRound
  <2>5. \/ Waiting(b) /\ rec = Record(b, ms, c, e, n, TRUE, FALSE)
        \/ OneFrameRead(p, w, gm, ge, u, b, n, rec)
    BY ONLY <1>1, <2>4, RoundProgress, p \in Plans, w \in Seq(WireBytes(p, TRUE)),
            gm \in Seq(Messages(p, TRUE)), ge \in Seq(EventSet)
  <2>6. CASE Waiting(b) /\ rec = Record(b, ms, c, e, n, TRUE, FALSE)
    BY <1>1, <2>2, <2>6 DEF DecoderFlow
  <2>7. CASE OneFrameRead(p, w, gm, ge, u, b, n, rec)
    <3>1. PICK b1, ms1, c1, e1 :
            /\ rec = Record(b1, ms1, c1, e1, n + 1, FALSE, FALSE)
            /\ Progress(p, w, gm, ge, u, b1, ms1, c1, e1)
            /\ Len(b1) + HeaderSize <= Len(b)
      BY <2>7, Zenon DEF OneFrameRead
    <3>2. DecoderInv(p, TRUE, rec) BY <1>1, <2>4, CasesKeepFields
    <3>3. PICK b2, ms2, c2, e2, n2, done2, fails2 :
            /\ rec = Record(b2, ms2, c2, e2, n2, done2, fails2)
            /\ FieldsInv(p, TRUE, b2, ms2, c2, e2, n2, done2, fails2)
      BY <3>2, Zenon DEF DecoderInv
    <3>4. PICK n1, o : n1 = n + 1 /\ o = FALSE OBVIOUS
    <3>5. rec = Record(b1, ms1, c1, e1, n1, o, o) BY <3>1, <3>4
    <3>6. /\ rec.buffer = b1 /\ rec.messages = ms1 /\ rec.completed = c1
          /\ rec.stream_events = e1 /\ rec.frames = n1 /\ rec.done = o /\ rec.failed = o
      BY ONLY <3>5, RecordFields
    <3>7. /\ rec.buffer = b2 /\ rec.messages = ms2 /\ rec.completed = c2
          /\ rec.stream_events = e2 /\ rec.frames = n2 /\ rec.done = done2 /\ rec.failed = fails2
      BY ONLY <3>3, RecordFields
    <3>8. FieldsInv(p, TRUE, b1, ms1, c1, e1, n1, FALSE, FALSE) BY <3>3, <3>4, <3>6, <3>7
    <3>9. Len(b1) <= room - HeaderSize
      <4>1. Len(b1) \in Nat /\ Len(b) \in Nat BY <1>1, <3>8 DEF FieldsInv
      <4>2. Len(b) <= room BY <1>1, <1>4
      <4>3. HeaderSize \in Nat BY SizesAssumption
      <4> QED BY ONLY <3>1, <4>1, <4>2, <4>3, room \in Int
    <3>10. rec = Record(b1, ms1, c1, e1, n1, FALSE, FALSE) BY <3>4, <3>5
    <3> QED BY <2>2, <3>1, <3>8, <3>9, <3>10 DEF DecoderFlow
  <2> QED BY <2>5, <2>6, <2>7
<1> QED BY <1>1, <1>3, <1>4

\* The rounds suffice: TryDecode stops in front of an incomplete frame.
LEMMA FlowRounds ==
  ASSUME NEW p \in Plans, NEW w \in Seq(WireBytes(p, TRUE)), NEW gm \in Seq(Messages(p, TRUE)),
         NEW ge \in Seq(EventSet), NEW u, NEW d, NEW k \in Nat,
         DecoderFlow(p, w, gm, ge, u, d, k), k = Len(d.buffer)
  PROVE  DecoderFlow(p, w, gm, ge, u, TryDecode(d), -1)
<1>0. HeaderSize \in Nat BY SizesAssumption
<1>1. PICK N \in Nat : N = MaxRounds(d) /\ N * HeaderSize > k
  <2>1. HeaderSize \in Nat \ {0} BY SizesAssumption
  <2>2. PICK q : q = k \div HeaderSize OBVIOUS
  <2>3. q \in Nat /\ k < q * HeaderSize + HeaderSize BY <2>1, <2>2, Quotient
  <2>4. q + 1 \in Nat /\ (q + 1) * HeaderSize = q * HeaderSize + HeaderSize BY <2>1, <2>3
  <2>5. MaxRounds(d) = q + 1 BY <2>2 DEF MaxRounds
  <2> QED BY <2>3, <2>4, <2>5
<1>2. PICK g : g = Rounds(d, N) OBVIOUS
<1>3. g[0] = d /\ \A i \in 1..N : g[i] = Round(g[i - 1]) BY ONLY <1>2, N \in Nat, RoundsDef
<1> DEFINE S == {i \in Nat : i \in 0..N => DecoderFlow(p, w, gm, ge, u, g[i], k - i * HeaderSize)}
<1>4. 0 \in S
  <2>1. k - 0 * HeaderSize = k BY ONLY <1>0, k \in Nat
  <2> QED BY <1>3, <2>1
<1>5. ASSUME NEW i \in S PROVE i + 1 \in S
  <2> SUFFICES ASSUME i + 1 \in 0..N
               PROVE  DecoderFlow(p, w, gm, ge, u, g[i + 1], k - (i + 1) * HeaderSize)
    OBVIOUS
  <2>0. i \in Nat OBVIOUS
  <2>1. i \in 0..N /\ i + 1 \in 1..N /\ (i + 1) - 1 = i BY ONLY <2>0, i + 1 \in 0..N, N \in Nat
  <2>2. PICK room \in Int : room = k - i * HeaderSize BY ONLY <1>0, <2>0, k \in Nat
  <2>3. DecoderFlow(p, w, gm, ge, u, g[i], room) BY <2>1, <2>2
  <2>4. PICK h : h = g[i] OBVIOUS
  <2>5. g[i + 1] = Round(h)
    <3>1. PICK j \in 1..N : j = i + 1 /\ j - 1 = i BY <2>1
    <3>2. g[j] = Round(g[j - 1]) BY <1>3
    <3> QED BY <2>4, <3>1, <3>2
  <2>6. DecoderFlow(p, w, gm, ge, u, Round(h), room - HeaderSize)
    BY ONLY <2>3, <2>4, FlowRound, room \in Int, p \in Plans, w \in Seq(WireBytes(p, TRUE)),
            gm \in Seq(Messages(p, TRUE)), ge \in Seq(EventSet)
  <2>7. room - HeaderSize = k - (i + 1) * HeaderSize
    BY ONLY <1>0, <2>0, <2>2, k \in Nat, room \in Int
  <2> QED BY <2>5, <2>6, <2>7
<1> HIDE DEF S
<1>6. S = Nat
  <2>1. S \in SUBSET Nat BY DEF S
  <2> QED BY <1>4, <1>5, <2>1, NatsClosed
<1>7. N \in S /\ N \in 0..N BY ONLY <1>6, N \in Nat
<1>8. DecoderFlow(p, w, gm, ge, u, g[N], k - N * HeaderSize) BY <1>7 DEF S
<1>9. g[N] = TryDecode(d) BY <1>1, <1>2 DEF TryDecode
<1>10. PICK b, ms, c, e, n, done :
        /\ done \in BOOLEAN /\ g[N] = Record(b, ms, c, e, n, done, FALSE)
        /\ FieldsInv(p, TRUE, b, ms, c, e, n, FALSE, FALSE)
        /\ Progress(p, w, gm, ge, u, b, ms, c, e)
        /\ done => Waiting(b)
        /\ ~done => Len(b) <= k - N * HeaderSize
  BY <1>8, Zenon DEF DecoderFlow
<1>11. Len(b) \in Nat BY <1>10 DEF FieldsInv
<1>12. done
  <2>1. N * HeaderSize \in Nat BY SizesAssumption
  <2>2. ~(Len(b) <= k - N * HeaderSize) BY ONLY <1>1, <1>11, <2>1, k \in Nat
  <2> QED BY <1>10, <2>2
<1>13. g[N] = Record(b, ms, c, e, n, TRUE, FALSE) BY <1>10, <1>12
<1> QED BY <1>9, <1>10, <1>12, <1>13 DEF DecoderFlow

-----------------------------------------------------------------------------
(* Every step, without a fault. *)

Left(p, x, n) == SubSeq(Sequence(p, x), n + 1, Count(p, x))

FlowInv ==
  faults = 0 =>
    /\ ~failed /\ Waiting(buffer)
    /\ \E u \in [Ids -> Nat] :
         /\ \A x \in Ids : unsent[x] = Left(plan, x, u[x])
         /\ Progress(plan, wire, got.messages, got.events, u, buffer, messages, completed,
                     stream_events)

LEMMA NextLeft ==
  ASSUME NEW p \in Plans, NEW x \in Ids, NEW n \in Nat, n <= Count(p, x)
  PROVE  /\ Len(Left(p, x, n)) = Count(p, x) - n
         /\ Left(p, x, n) # <<>> => /\ n < Count(p, x)
                                    /\ Head(Left(p, x, n)) = Sequence(p, x)[n + 1]
                                    /\ Tail(Left(p, x, n)) = Left(p, x, n + 1)
<1>1. PICK V, t, c : V = Frames(p) /\ t = Sequence(p, x) /\ c \in Nat /\ c = Count(p, x)
  BY SequenceFrames
<1>2. t \in Seq(V) /\ Len(t) = c BY <1>1, SequenceFrames DEF Count
<1>3. PICK i \in Nat \ {0} : i = n + 1 OBVIOUS
<1>4. Left(p, x, n) = SubSeq(t, i, c) BY <1>1, <1>3 DEF Left
<1>5. n <= c BY <1>1
<1>6. /\ SubSeq(t, i, c) \in Seq(V)
      /\ Len(SubSeq(t, i, c)) = IF i <= c THEN c - i + 1 ELSE 0
  <2>1. c <= Len(t) BY <1>2
  <2> QED BY <1>1, <1>2, <2>1, PartOfBuffer
<1>7. Len(Left(p, x, n)) = c - n BY <1>1, <1>3, <1>4, <1>5, <1>6
<1>8. ASSUME Left(p, x, n) # <<>>
      PROVE  /\ n < c /\ Head(Left(p, x, n)) = t[i] /\ Tail(Left(p, x, n)) = Left(p, x, i)
  <2>1. Len(Left(p, x, n)) # 0 BY <1>4, <1>6, <1>8, EmptySeq
  <2>2. n < c BY ONLY <1>1, <1>5, <1>7, <2>1, n \in Nat
  <2>3. i \in 1..Len(t) /\ c \in i..Len(t) BY <1>1, <1>2, <1>3, <2>2
  <2>4. /\ Head(SubSeq(t, i, c)) = t[i]
        /\ Tail(SubSeq(t, i, c)) = SubSeq(t, i + 1, c)
    BY ONLY <1>2, <2>3, HeadTailOfSubSeq
  <2>5. Left(p, x, i) = SubSeq(t, i + 1, c) BY <1>1 DEF Left
  <2> QED BY <1>4, <2>2, <2>4, <2>5
<1> QED BY <1>1, <1>3, <1>7, <1>8

LEMMA InitFlow == Init => FlowInv
<1> SUFFICES ASSUME Init PROVE FlowInv OBVIOUS
<1>1. plan \in Plans BY InitInv DEF Inv
<1>2. PICK u \in [Ids -> Nat] : \A x \in Ids : u[x] = 0
  <2>1. PICK u : u = [x \in Ids |-> 0] OBVIOUS
  <2> QED BY <2>1
<1>3. ~failed /\ Waiting(buffer) BY SizesAssumption DEF Init, Waiting
<1>4. ASSUME NEW x \in Ids PROVE unsent[x] = Left(plan, x, u[x])
  <2>1. unsent[x] = Sequence(plan, x) BY DEF Init, Sequence, Ids
  <2>2. Sequence(plan, x) \in Seq(Frames(plan)) BY <1>1, SequenceFrames
  <2>3. SubSeq(Sequence(plan, x), 1, Len(Sequence(plan, x))) = Sequence(plan, x)
    BY <2>2, SubSeqFull
  <2>4. u[x] + 1 = 1 BY <1>2
  <2> QED BY <2>1, <2>3, <2>4 DEF Left, Count
<1>5. PICK s : s = <<>> OBVIOUS
<1>6. /\ buffer \o wire = s /\ got.messages \o completed = s /\ got.events \o stream_events = s
      /\ DOMAIN messages = {} /\ Len(s) = 0 /\ DOMAIN s = {}
  BY <1>5 DEF Init
<1>7. Flow(plan, s, u, u)
  <2>1. Contiguous(s) /\ InOrder(s) BY <1>5, <1>6 DEF Contiguous, InOrder
  <2>2. ASSUME NEW x \in Ids
        PROVE  /\ u[x] \in Nat /\ u[x] <= Count(plan, x)
               /\ \A q \in 1..Count(plan, x) : InTransit(s, x, q) <=> u[x] < q /\ q <= u[x]
    <3>1. Count(plan, x) \in Nat BY <1>1, SequenceFrames
    <3>2. u[x] = 0 BY <1>2
    <3>3. \A q : ~InTransit(s, x, q) BY <1>6 DEF InTransit
    <3> QED BY <3>1, <3>2, <3>3
  <2> QED BY <2>1, <2>2 DEF Flow, Counted
<1>8. DeliveredOnce(plan, s, messages, u)
  <2>1. ASSUME NEW m \in MsgIds, IsSent(plan, m)
        PROVE  /\ u[m] = 0 /\ Count(plan, m) # 0 /\ u[m] # Count(plan, m)
               /\ FilledSlots(messages, m) = 1..u[m]
    <3>1. u[m] = 0 BY <1>2 DEF Ids
    <3>2. FilledSlots(messages, m) = {} BY <1>6 DEF FilledSlots
    <3>3. m \in Ids BY DEF Ids
    <3>4. Count(plan, m) = Total(plan, m) BY <1>1, <2>1, <3>3, SequenceFrames
    <3>5. plan[m].length \in Nat /\ plan[m].crc \in BOOLEAN BY <1>1, SizesAssumption DEF Plans
    <3>6. Total(plan, m) \in Nat \ {0} BY <2>1, <3>5, SliceCount DEF IsSent, Total
    <3> QED BY <3>1, <3>2, <3>4, <3>6
  <2> QED BY <1>6, <2>1 DEF DeliveredOnce
<1>9. EventsInOrder(s, u)
  <2>1. \A x \in StreamIds : u[x] = 0 BY <1>2 DEF Ids
  <2>2. \A x \in StreamIds : 1..u[x] = {} BY <2>1
  <2> QED BY <1>6, <2>2 DEF EventsInOrder
<1>10. Progress(plan, wire, got.messages, got.events, u, buffer, messages, completed, stream_events)
  BY <1>6, <1>7, <1>8, <1>9 DEF Progress
<1> QED BY <1>3, <1>4, <1>10 DEF FlowInv

LEMMA SendFlow ==
  ASSUME Inv, FlowInv, NEW x \in MsgIds \cup StreamIds, SendFrame(x)
  PROVE  FlowInv'
<1> SUFFICES ASSUME faults' = 0 PROVE FlowInv' BY DEF FlowInv
<1>1. /\ faults = 0 /\ plan' = plan /\ got' = got /\ buffer' = buffer /\ messages' = messages
      /\ completed' = completed /\ stream_events' = stream_events /\ failed' = failed
      /\ unsent[x] # <<>> /\ unsent' = [unsent EXCEPT ![x] = Tail(@)]
      /\ wire' = wire \o Serialize(Head(unsent[x]))
  BY DEF SendFrame, decoder
<1>2. ~failed /\ Waiting(buffer) BY <1>1 DEF FlowInv
<1>3. PICK u \in [Ids -> Nat] :
        /\ \A y \in Ids : unsent[y] = Left(plan, y, u[y])
        /\ Progress(plan, wire, got.messages, got.events, u, buffer, messages, completed,
                    stream_events)
  BY <1>1 DEF FlowInv
<1>4. PICK r \in [Ids -> Nat] : /\ Flow(plan, buffer \o wire, r, u)
                                /\ DeliveredOnce(plan, got.messages \o completed, messages, r)
                                /\ EventsInOrder(got.events \o stream_events, r)
  BY <1>3 DEF Progress
<1>5. x \in Ids BY DEF Ids
<1>6. plan \in Plans BY DEF Inv
<1>7. u[x] \in Nat /\ u[x] <= Count(plan, x) BY <1>4, <1>5 DEF Flow, Counted
<1>8. PICK f : f = Head(unsent[x]) OBVIOUS
<1>9. /\ u[x] < Count(plan, x) /\ f = Sequence(plan, x)[u[x] + 1]
      /\ Tail(unsent[x]) = Left(plan, x, u[x] + 1)
  BY <1>1, <1>3, <1>5, <1>6, <1>7, <1>8, NextLeft
<1>10. PICK u1 : u1 = [u EXCEPT ![x] = @ + 1] OBVIOUS
<1>11. PICK p, s, t : p = plan /\ s = buffer \o wire /\ t = s \o Serialize(f) OBVIOUS
<1>12. p \in Plans /\ s \in Seq(WireBytes(p, TRUE)) /\ f \in Frames(p)
       /\ buffer \in Seq(WireBytes(p, TRUE)) /\ wire \in Seq(WireBytes(p, TRUE))
  <2>1. PICK V : V = WireBytes(p, TRUE) OBVIOUS
  <2>2. buffer \in Seq(V) /\ wire \in Seq(V)
    BY <1>1, <1>11, <2>1 DEF Inv, FieldsInv, Ok
  <2>3. buffer \o wire \in Seq(V) BY ONLY <2>2
  <2>4. u[x] + 1 \in 1..Count(p, x)
    <3>1. Count(p, x) \in Nat BY <1>5, <1>6, <1>11, SequenceFrames
    <3> QED BY <1>7, <1>9, <1>11, <3>1
  <2>5. f \in Frames(p) BY <1>5, <1>6, <1>9, <1>11, <2>4, SequenceFrames
  <2> QED BY <1>6, <1>11, <2>1, <2>2, <2>3, <2>5
<1>13. Flow(p, t, r, u1) /\ u1 \in [Ids -> Nat]
  <2>1. Flow(p, s, r, u) BY <1>4, <1>11
  <2>2. u[x] < Count(p, x) /\ f = Sequence(p, x)[u[x] + 1] BY <1>9, <1>11
  <2>3. t = s \o Serialize(f) /\ p \in Plans /\ s \in Seq(WireBytes(p, TRUE)) BY <1>11, <1>12
  <2>4. Flow(p, t, r, u1)
    BY ONLY <1>5, <1>10, <2>1, <2>2, <2>3, FlowSend, u \in [Ids -> Nat], Zenon
  <2>5. u1 \in [Ids -> Nat]
    BY <1>5, <1>7, <1>10
  <2> QED BY <2>4, <2>5
<1>14. t = buffer' \o wire'
  <2>1. PICK V, z : V = WireBytes(p, TRUE) /\ z = Serialize(f) OBVIOUS
  <2>2. buffer \in Seq(V) /\ wire \in Seq(V) /\ z \in Seq(V)
    BY <1>12, <2>1, SerializedBytes
  <2>3. (buffer \o wire) \o z = buffer \o (wire \o z) BY ONLY <2>2, ConcatAssociative, SMTT(30)
  <2> QED BY <1>1, <1>8, <1>11, <2>1, <2>3
<1>15. Progress(plan', wire', got'.messages, got'.events, u1, buffer', messages', completed',
                stream_events')
  BY <1>1, <1>4, <1>11, <1>13, <1>14 DEF Progress
<1>16. ASSUME NEW y \in Ids PROVE unsent'[y] = Left(plan', y, u1[y])
  <2>1. unsent \in [Ids -> Seq(Frames(plan))] BY DEF Inv, Ids
  <2>2. CASE y = x BY <1>1, <1>5, <1>9, <1>10, <2>1, <2>2
  <2>3. CASE y # x BY <1>1, <1>3, <1>10, <2>1, <2>3
  <2> QED BY <2>2, <2>3
<1>17. ~failed' /\ Waiting(buffer') BY <1>1, <1>2
<1> QED BY <1>13, <1>15, <1>16, <1>17 DEF FlowInv

LEMMA FeedFlow ==
  ASSUME Inv, FlowInv, NEW n \in 1..Len(wire), Feed(n)
  PROVE  FlowInv'
<1> SUFFICES ASSUME faults' = 0 PROVE FlowInv' BY DEF FlowInv
<1>1. /\ faults = 0 /\ plan' = plan /\ got' = got /\ unsent' = unsent
      /\ wire' = SubSeq(wire, n + 1, Len(wire))
  BY DEF Feed
<1>2. Ok = TRUE BY <1>1 DEF Ok
<1>3. PICK u \in [Ids -> Nat] :
        /\ \A y \in Ids : unsent[y] = Left(plan, y, u[y])
        /\ Progress(plan, wire, got.messages, got.events, u, buffer, messages, completed,
                    stream_events)
  BY <1>1 DEF FlowInv
<1>4. PICK p, w, gm, ge, b, ms, c, e, k, V :
        /\ p = plan /\ w = wire' /\ gm = got.messages /\ ge = got.events /\ b = Arrived(n)
        /\ ms = messages /\ c = completed /\ e = stream_events /\ k = frames_received
        /\ V = WireBytes(p, TRUE)
  OBVIOUS
<1>5. /\ p \in Plans /\ w \in Seq(V) /\ gm \in Seq(Messages(p, TRUE)) /\ ge \in Seq(EventSet)
      /\ wire \in Seq(V) /\ buffer \in Seq(V)
  BY <1>1, <1>2, <1>4, FeedStarts DEF Inv, FieldsInv
<1>6. FieldsInv(p, TRUE, b, ms, c, e, k, FALSE, FALSE) BY <1>2, <1>4, FeedStarts
<1>7. b \o w = buffer \o wire
  <2>1. PICK v, x : v = SubSeq(wire, 1, n) /\ x = SubSeq(wire, n + 1, Len(wire)) BY Zenon
  <2>2. v \in Seq(V) /\ x \in Seq(V)
    <3>1. /\ SubSeq(wire, 1, n) \in Seq(WireBytes(plan, Ok))
          /\ SubSeq(wire, n + 1, Len(wire)) \in Seq(WireBytes(plan, Ok))
      BY FeedStarts
    <3> QED BY ONLY <1>2, <1>4, <2>1, <3>1
  <2>3. v \o x = wire
    <3>1. Len(wire) \in Nat BY <1>5
    <3>2. 1 \in 1..Len(wire) + 1 /\ n \in 1 - 1..Len(wire) /\ Len(wire) \in n..Len(wire)
      BY ONLY <3>1, n \in 1..Len(wire)
    <3>3. SubSeq(wire, 1, n) \o SubSeq(wire, n + 1, Len(wire)) = SubSeq(wire, 1, Len(wire))
      BY ONLY <1>5, <3>2, ConcatAdjacentSubSeq
    <3>4. SubSeq(wire, 1, Len(wire)) = wire BY <1>5, SubSeqFull
    <3> QED BY ONLY <2>1, <3>3, <3>4, Zenon
  <2>4. (buffer \o v) \o x = buffer \o (v \o x)
    <3>1. buffer \in Seq(V) BY <1>5
    <3> QED BY ONLY <2>2, <3>1, ConcatAssociative, SMTT(30)
  <2>5. b = buffer \o v BY <1>4, <2>1 DEF Arrived
  <2>6. w = x BY <1>1, <1>4, <2>1
  <2> QED BY ONLY <2>3, <2>4, <2>5, <2>6
<1>8. Progress(p, w, gm, ge, u, b, ms, c, e) BY <1>3, <1>4, <1>7 DEF Progress
<1>9. PICK d : d = Record(b, ms, c, e, k, FALSE, FALSE) OBVIOUS
<1>10. d = Started(n) /\ d.buffer = b
  <2>1. d = Started(n) BY <1>4, <1>9 DEF Started
  <2>2. d.buffer = b BY <1>9 DEF Record
  <2> QED BY <2>1, <2>2
<1>11. PICK l \in Nat : l = Len(b) BY <1>6 DEF FieldsInv
<1>12. DecoderFlow(p, w, gm, ge, u, d, l)
  <2>1. Len(b) <= l BY <1>11
  <2>2. FALSE \in BOOLEAN OBVIOUS
  <2> QED BY ONLY <1>6, <1>8, <1>9, <2>1, <2>2, Zenon DEF DecoderFlow
<1>13. DecoderFlow(p, w, gm, ge, u, TryDecode(d), -1)
  <2>1. l = Len(d.buffer) BY <1>10, <1>11
  <2>2. w \in Seq(WireBytes(p, TRUE)) BY <1>4, <1>5
  <2> QED BY <1>5, <1>12, <2>1, <2>2, FlowRounds
<1>14. PICK h : h = TryDecode(d) OBVIOUS
<1>15. PICK b1, ms1, c1, e1, k1, done :
        /\ done \in BOOLEAN /\ h = Record(b1, ms1, c1, e1, k1, done, FALSE)
        /\ FieldsInv(p, TRUE, b1, ms1, c1, e1, k1, FALSE, FALSE)
        /\ Progress(p, w, gm, ge, u, b1, ms1, c1, e1)
        /\ done => Waiting(b1)
        /\ ~done => Len(b1) <= -1
  <2>1. DecoderFlow(p, w, gm, ge, u, h, -1) BY <1>13, <1>14
  <2> QED BY ONLY <2>1, Zenon DEF DecoderFlow
<1>16. done
  <2>1. Len(b1) \in Nat BY <1>15 DEF FieldsInv
  <2> QED BY <1>15, <2>1
<1>17. PICK o : o = FALSE OBVIOUS
<1>18. h = Record(b1, ms1, c1, e1, k1, done, o) BY <1>15, <1>17
<1>19. /\ h.buffer = b1 /\ h.messages = ms1 /\ h.completed = c1
       /\ h.stream_events = e1 /\ h.frames = k1 /\ h.done = done /\ h.failed = o
  BY ONLY <1>18, RecordFields
<1>20. /\ buffer' = b1 /\ messages' = ms1 /\ completed' = c1 /\ stream_events' = e1
       /\ failed' = FALSE
  <2>1. h = TryDecode(Started(n)) BY <1>10, <1>14
  <2>2. /\ buffer' = h.buffer /\ messages' = h.messages /\ completed' = h.completed
        /\ stream_events' = h.stream_events /\ failed' = h.failed
    BY <2>1, FeedEnds
  <2> QED BY <1>17, <1>19, <2>2
<1>21. Progress(plan', wire', got'.messages, got'.events, u, buffer', messages', completed',
                stream_events')
  BY <1>1, <1>4, <1>15, <1>20
<1>22. ~failed' /\ Waiting(buffer') BY <1>15, <1>16, <1>20
<1>23. \A y \in Ids : unsent'[y] = Left(plan', y, u[y]) BY <1>1, <1>3
<1> QED BY <1>21, <1>22, <1>23 DEF FlowInv

LEMMA GetMessageFlow ==
  ASSUME Inv, FlowInv, GetMessage
  PROVE  FlowInv'
<1> SUFFICES ASSUME faults' = 0 PROVE FlowInv' BY DEF FlowInv
<1>1. /\ faults = 0 /\ plan' = plan /\ unsent' = unsent /\ wire' = wire /\ buffer' = buffer
      /\ messages' = messages /\ stream_events' = stream_events /\ failed' = failed
      /\ got' = [got EXCEPT !.messages = Append(@, Head(completed))]
      /\ completed' = Tail(completed) /\ completed # <<>>
  BY DEF GetMessage
<1>2. PICK V : V = Messages(plan, Ok) OBVIOUS
<1>3. completed \in Seq(V) /\ got \in [messages : Seq(V), events : Seq(EventSet)]
  BY <1>2 DEF Inv, FieldsInv
<1>4. got'.messages = Append(got.messages, Head(completed)) /\ got'.events = got.events
  BY <1>1, <1>3
<1>5. got'.messages \o completed' = got.messages \o completed
  <2>1. got.messages \in Seq(V) BY <1>3
  <2>2. Append(got.messages, Head(completed)) \o Tail(completed) = got.messages \o completed
    BY ONLY <1>1, <1>3, <2>1, HeadMoves
  <2> QED BY <1>1, <1>4, <2>2
<1> QED BY <1>1, <1>4, <1>5 DEF FlowInv, Progress

LEMMA GetStreamEventFlow ==
  ASSUME Inv, FlowInv, GetStreamEvent
  PROVE  FlowInv'
<1> SUFFICES ASSUME faults' = 0 PROVE FlowInv' BY DEF FlowInv
<1>1. /\ faults = 0 /\ plan' = plan /\ unsent' = unsent /\ wire' = wire /\ buffer' = buffer
      /\ messages' = messages /\ completed' = completed /\ failed' = failed
      /\ got' = [got EXCEPT !.events = Append(@, Head(stream_events))]
      /\ stream_events' = Tail(stream_events) /\ stream_events # <<>>
  BY DEF GetStreamEvent
<1>2. PICK V, W : V = EventSet /\ W = Seq(Messages(plan, Ok)) OBVIOUS
<1>3. stream_events \in Seq(V) /\ got \in [messages : W, events : Seq(V)]
  BY <1>2 DEF Inv, FieldsInv
<1>4. got'.events = Append(got.events, Head(stream_events)) /\ got'.messages = got.messages
  BY <1>1, <1>3
<1>5. got'.events \o stream_events' = got.events \o stream_events
  <2>1. got.events \in Seq(V) BY <1>3
  <2>2. Append(got.events, Head(stream_events)) \o Tail(stream_events)
          = got.events \o stream_events
    BY ONLY <1>1, <1>3, <2>1, HeadMoves
  <2> QED BY <1>1, <1>4, <2>2
<1> QED BY <1>1, <1>4, <1>5 DEF FlowInv, Progress

LEMMA NextFlow == Inv /\ FlowInv /\ [Next]_vars => FlowInv'
<1> SUFFICES ASSUME Inv, FlowInv, [Next]_vars PROVE FlowInv' OBVIOUS
<1>1. CASE \E x \in MsgIds \cup StreamIds : SendFrame(x) BY <1>1, SendFlow
<1>2. ASSUME faults' = faults + 1 PROVE FlowInv' BY <1>2 DEF Inv, FlowInv
<1>3. CASE Damage BY <1>2, <1>3 DEF Damage
<1>4. CASE \E n \in 1..Len(wire) : Feed(n) BY <1>4, FeedFlow
<1>5. CASE GetMessage BY <1>5, GetMessageFlow
<1>6. CASE GetStreamEvent BY <1>6, GetStreamEventFlow
<1>7. CASE \E when \in 0..frames_received : CleanupTimeoutMessages(when)
  BY <1>2, <1>7 DEF CleanupTimeoutMessages
<1>8. CASE Reset BY <1>2, <1>8 DEF Reset
<1>9. CASE UNCHANGED vars
  <2>1. /\ plan' = plan /\ unsent' = unsent /\ wire' = wire /\ buffer' = buffer
        /\ messages' = messages /\ completed' = completed /\ stream_events' = stream_events
        /\ failed' = failed /\ got' = got /\ faults' = faults
    BY <1>9 DEF vars
  <2> QED BY <2>1 DEF FlowInv
<1> QED BY <1>1, <1>3, <1>4, <1>5, <1>6, <1>7, <1>8, <1>9 DEF Next

\* A message that fits with a CRC fits without one.
LEMMA FitsEither ==
  ASSUME LengthsFit, NEW length \in Lengths, NEW crc \in BOOLEAN
  PROVE  Fits(length, crc)
<1>1. PICK a, b, n \in Nat : a = SlicePayload(TRUE) /\ b = SlicePayload(FALSE) /\ n = SliceLimit
  BY SlicePayloadPositive, SizesAssumption
<1>2. a <= b BY <1>1, SizesAssumption DEF SlicePayload
<1>3. a * n <= b * n BY <1>2, ProductMonotonic
<1>4. n * a <= n * b BY <1>3
<1>5. length \in Nat /\ length <= n * a BY <1>1, SizesAssumption DEF LengthsFit, Fits
<1>6. n * a \in Nat /\ n * b \in Nat OBVIOUS
<1>7. length <= n * b BY ONLY <1>4, <1>5, <1>6
<1>8. CASE crc = TRUE BY <1>8 DEF LengthsFit
<1>9. CASE crc = FALSE BY <1>1, <1>7, <1>9 DEF Fits
<1> QED BY <1>8, <1>9

\* Once nothing is left to send or to receive, everything has been read.
LEMMA AllRead ==
  ASSUME Inv, FlowInv, faults = 0, wire = <<>>, \A x \in DOMAIN unsent : unsent[x] = <<>>
  PROVE  /\ buffer = <<>>
         /\ \E r \in [Ids -> Nat] : /\ \A x \in Ids : r[x] = Count(plan, x)
                                    /\ DeliveredOnce(plan, Delivered, messages, r)
                                    /\ EventsInOrder(Events, r)
<1>1. PICK u \in [Ids -> Nat] :
        /\ \A x \in Ids : unsent[x] = Left(plan, x, u[x])
        /\ Progress(plan, wire, got.messages, got.events, u, buffer, messages, completed,
                    stream_events)
  BY DEF FlowInv
<1>2. PICK r \in [Ids -> Nat] : /\ Flow(plan, buffer \o wire, r, u)
                                /\ DeliveredOnce(plan, got.messages \o completed, messages, r)
                                /\ EventsInOrder(got.events \o stream_events, r)
  BY <1>1 DEF Progress
<1>3. plan \in Plans /\ buffer \in Seq(WireBytes(plan, TRUE)) /\ DOMAIN unsent = Ids
  BY DEF Inv, FieldsInv, Ok, Ids
<1>4. buffer \o wire = buffer
  <2>1. buffer \o <<>> = buffer BY <1>3, ConcatEmptySeq
  <2> QED BY <2>1
<1>5. Flow(plan, buffer, r, u) BY <1>2, <1>4
<1>6. buffer = <<>>
  <2> SUFFICES ASSUME buffer # <<>> PROVE FALSE OBVIOUS
  <2>1. Contiguous(buffer) BY <1>5 DEF Flow
  <2>2. Full(buffer[1]) \in Nat /\ Full(buffer[1]) > HeaderSize /\ Full(buffer[1]) <= Len(buffer)
    BY <1>3, <2>1, FirstFrame
  <2>3. HeaderSize \in Nat /\ Len(buffer) \in Nat BY <1>3, SizesAssumption
  <2>4. ~Waiting(buffer) BY <2>2, <2>3 DEF Waiting, Full
  <2> QED BY <2>4 DEF FlowInv
<1>7. ASSUME NEW x \in Ids PROVE r[x] = Count(plan, x)
  <2>1. PICK a, b, c \in Nat : a = r[x] /\ b = u[x] /\ c = Count(plan, x)
    BY <1>3, SequenceFrames
  <2>2. a <= b /\ b <= c /\ \A q \in 1..c : InTransit(buffer, x, q) <=> a < q /\ q <= b
    BY <1>5, <2>1 DEF Flow, Counted
  <2>3. Left(plan, x, b) = <<>> BY <1>1, <1>3, <2>1
  <2>4. c - b = 0
    <3>1. Len(Left(plan, x, b)) = c - b BY <1>3, <2>1, <2>2, NextLeft
    <3> QED BY <2>3, <3>1
  <2>5. ~(a < c)
    <3> SUFFICES ASSUME a < c PROVE FALSE OBVIOUS
    <3>1. c \in 1..c /\ c <= b BY <2>1, <2>4
    <3>2. InTransit(buffer, x, c) BY <2>2, <3>1
    <3> QED BY <1>6, <3>2 DEF InTransit
  <2> QED BY <2>1, <2>2, <2>4, <2>5
<1> QED BY <1>2, <1>6, <1>7 DEF Delivered, Events

LEMMA InvNothingLost ==
  ASSUME LengthsFit, Inv, FlowInv
  PROVE  NothingLost
<1> SUFFICES ASSUME faults = 0, wire = <<>>, \A x \in DOMAIN unsent : unsent[x] = <<>>
             PROVE  /\ buffer = <<>> /\ DOMAIN messages = {} /\ ~failed
                    /\ \A m \in MsgIds :
                         IF Refused(plan[m].length, plan[m].crc)
                         THEN \A i \in DOMAIN Delivered : Delivered[i].id # m
                         ELSE \E i \in DOMAIN Delivered :
                                /\ Delivered[i] = [id |-> m, data |-> Content(m)]
                                /\ \A j \in DOMAIN Delivered : Delivered[j].id = m => j = i
                    /\ \A s \in StreamIds : \E start, chunk, end \in DOMAIN Events :
                         /\ start < chunk /\ chunk < end
                         /\ Events[start] = EventOf(EncodeStreamStart(s))
                         /\ Events[chunk] = EventOf(EncodeStreamChunk(s, 0))
                         /\ Events[end] = EventOf(EncodeStreamEnd(s))
                         /\ \A i \in DOMAIN Events : Events[i].id = s => i \in {start, chunk, end}
  BY DEF NothingLost
<1>1. PICK r \in [Ids -> Nat] : /\ \A x \in Ids : r[x] = Count(plan, x)
                                /\ DeliveredOnce(plan, Delivered, messages, r)
                                /\ EventsInOrder(Events, r)
  BY AllRead
<1>2. buffer = <<>> /\ ~failed BY AllRead DEF FlowInv
<1>3. plan \in Plans /\ AssembliesInv(plan, TRUE, messages) BY DEF Inv, FieldsInv, Ok
<1>4. DOMAIN messages = {}
  <2> SUFFICES ASSUME NEW m \in DOMAIN messages PROVE FALSE OBVIOUS
  <2>1. IsSent(plan, m) BY <1>3 DEF AssembliesInv, IsPartial
  <2>2. m \in MsgIds /\ m \in Ids BY <2>1 DEF IsSent, Ids
  <2>3. r[m] < Count(plan, m) BY <1>1, <2>1, <2>2 DEF DeliveredOnce
  <2> QED BY <1>1, <2>2, <2>3
<1>5. PICK D, E, V : D = Delivered /\ E = Events /\ V = Messages(plan, TRUE) OBVIOUS
<1>6. D \in Seq(V) /\ E \in Seq(EventSet)
  <2>1. got.messages \in Seq(V) /\ completed \in Seq(V) BY <1>5 DEF Inv, FieldsInv, Ok
  <2>2. got.events \in Seq(EventSet) /\ stream_events \in Seq(EventSet) BY DEF Inv, FieldsInv
  <2>3. got.messages \o completed \in Seq(V) BY ONLY <2>1
  <2>4. got.events \o stream_events \in Seq(EventSet) BY ONLY <2>2
  <2> QED BY <1>5, <2>3, <2>4 DEF Delivered, Events
<1>7. ASSUME NEW m \in MsgIds, Refused(plan[m].length, plan[m].crc)
      PROVE  \A i \in DOMAIN D : D[i].id # m
  <2>1. ~IsSent(plan, m) BY <1>7 DEF IsSent
  <2>2. ASSUME NEW i \in DOMAIN D PROVE IsSent(plan, D[i].id)
    <3>1. D[i] \in V BY <1>6
    <3> QED BY <1>5, <3>1 DEF Messages
  <2> QED BY <2>1, <2>2
<1>8. ASSUME NEW m \in MsgIds, ~Refused(plan[m].length, plan[m].crc)
      PROVE  \E i \in DOMAIN D : /\ D[i] = [id |-> m, data |-> Content(m)]
                                 /\ \A j \in DOMAIN D : D[j].id = m => j = i
  <2>1. IsSent(plan, m) /\ m \in Ids BY <1>8 DEF IsSent, Ids
  <2>2. r[m] = Count(plan, m) BY <1>1, <2>1
  <2>3. PICK i \in DOMAIN D : D[i].id = m BY <1>1, <1>5, <2>1, <2>2 DEF DeliveredOnce
  <2>4. \A j \in DOMAIN D : D[j].id = m => j = i BY <1>1, <1>5, <2>3 DEF DeliveredOnce
  <2>5. PICK y : y = D[i] OBVIOUS
  <2>6. y \in Messages(plan, TRUE) /\ y.id = m
    <3>1. D[i] \in V BY ONLY <1>6, i \in DOMAIN D
    <3> QED BY ONLY <1>5, <2>3, <2>5, <3>1
  <2>7. plan[m].length \in Lengths /\ plan[m].crc \in BOOLEAN BY <1>3 DEF Plans
  <2>8. Fits(plan[m].length, plan[m].crc) BY <2>7, FitsEither
  <2>9. y.data = Bytes(m, plan[m].length) BY <2>6, <2>8 DEF Messages, Trusted
  <2>10. y = [id |-> y.id, data |-> y.data] BY <2>6 DEF Messages
  <2>11. Content(m) = Bytes(m, plan[m].length) BY DEF Content, Bytes
  <2>12. D[i] = [id |-> m, data |-> Content(m)] BY <2>5, <2>6, <2>9, <2>10, <2>11
  <2> QED BY <2>4, <2>12
<1>9. ASSUME NEW s \in StreamIds
      PROVE  \E start, chunk, end \in DOMAIN E :
               /\ start < chunk /\ chunk < end
               /\ E[start] = EventOf(EncodeStreamStart(s))
               /\ E[chunk] = EventOf(EncodeStreamChunk(s, 0))
               /\ E[end] = EventOf(EncodeStreamEnd(s))
               /\ \A i \in DOMAIN E : E[i].id = s => i \in {start, chunk, end}
  <2>1. s \in Ids BY DEF Ids
  <2>2. r[s] = 3 BY <1>1, <1>3, <2>1, SequenceFrames
  <2>3. EventsInOrder(E, r) BY <1>1, <1>5
  <2>4. \A q \in 1..3 : \E i \in DOMAIN E : E[i] = EventOf(EncodeStream(s)[q])
    BY <2>2, <2>3 DEF EventsInOrder
  <2>5. 1 \in 1..3 /\ 2 \in 1..3 /\ 3 \in 1..3 OBVIOUS
  <2>6. PICK start \in DOMAIN E : E[start] = EventOf(EncodeStream(s)[1]) BY <2>4, <2>5
  <2>7. PICK chunk \in DOMAIN E : E[chunk] = EventOf(EncodeStream(s)[2]) BY <2>4, <2>5
  <2>8. PICK end \in DOMAIN E : E[end] = EventOf(EncodeStream(s)[3]) BY <2>4, <2>5
  <2>9. /\ E[start].id = s /\ TypePos(E[start].type) = 1
        /\ E[chunk].id = s /\ TypePos(E[chunk].type) = 2
        /\ E[end].id = s /\ TypePos(E[end].type) = 3
    BY <2>5, <2>6, <2>7, <2>8, StreamEvent
  <2>10. \A i, j \in DOMAIN E : i < j /\ E[i].id = E[j].id =>
           TypePos(E[i].type) < TypePos(E[j].type)
    BY <2>3 DEF EventsInOrder
  <2>11. DOMAIN E = 1..Len(E) /\ Len(E) \in Nat BY <1>6
  <2>12. ASSUME NEW i \in DOMAIN E, NEW j \in DOMAIN E, E[i].id = s, E[j].id = s,
                TypePos(E[i].type) \in Nat, TypePos(E[j].type) \in Nat,
                TypePos(E[i].type) < TypePos(E[j].type)
         PROVE  i < j
    <3> SUFFICES ASSUME ~(i < j) PROVE FALSE OBVIOUS
    <3>1. j < i \/ i = j BY <2>11
    <3>2. CASE i = j BY <2>12, <3>2
    <3>3. CASE j < i
      <4>1. TypePos(E[j].type) < TypePos(E[i].type) BY <2>10, <2>12, <3>3
      <4> QED BY <2>12, <4>1
    <3> QED BY <3>1, <3>2, <3>3
  <2>13. start < chunk /\ chunk < end BY <2>9, <2>12
  <2>14. ASSUME NEW i \in DOMAIN E, E[i].id = s PROVE i \in {start, chunk, end}
    <3>1. PICK q \in 1..3 : E[i] = EventOf(EncodeStream(s)[q])
      BY <2>2, <2>3, <2>14 DEF EventsInOrder
    <3>2. TypePos(E[i].type) = q BY <3>1, StreamEvent
    <3>3. ASSUME NEW j \in DOMAIN E, E[j].id = s, TypePos(E[j].type) = q PROVE i = j
      <4>1. ~(i < j) BY <2>10, <2>14, <3>2, <3>3
      <4>2. ~(j < i) BY <2>10, <2>14, <3>2, <3>3
      <4> QED BY <2>11, <4>1, <4>2
    <3>4. q = 1 \/ q = 2 \/ q = 3 OBVIOUS
    <3> QED BY <2>9, <3>3, <3>4
  <2>15. /\ EncodeStream(s)[1] = EncodeStreamStart(s) /\ EncodeStream(s)[2] = EncodeStreamChunk(s, 0)
         /\ EncodeStream(s)[3] = EncodeStreamEnd(s)
    BY DEF EncodeStream
  <2> QED BY <2>6, <2>7, <2>8, <2>13, <2>14, <2>15
<1> QED BY <1>2, <1>4, <1>5, <1>7, <1>8, <1>9

\* Without a fault nothing is lost, doubled or left over, for any sizes of
\* headers and frames, any number of messages and streams, and any pieces in which
\* the bytes arrive, as long as 16 bits can number the slices of every message
\* (LengthsFit; the encoder takes longer ones and drops their end): TryDecode never throws, stops only in
\* front of an incomplete frame, and delivers every message once and in full and
\* the events of each stream in order (Decoder::Feed, Decoder::TryDecode,
\* Encoder::EncodeMessage).
THEOREM NothingIsLost ==
  ASSUME LengthsFit
  PROVE  Spec => []NothingLost
<1>1. Exposed /\ (uncovered \/ Inv) /\ FlowInv /\ [Next]_vars => FlowInv'
  <2> SUFFICES ASSUME Exposed, uncovered \/ Inv, FlowInv, [Next]_vars PROVE FlowInv' OBVIOUS
  <2>1. CASE Inv BY <2>1, NextFlow
  <2>2. CASE uncovered
    <3>1. faults' # 0 BY <2>2, NextExposed DEF Exposed
    <3> QED BY <3>1 DEF FlowInv
  <2> QED BY <2>1, <2>2
<1>2. Exposed /\ (uncovered \/ Inv) /\ FlowInv => NothingLost
  <2>1. Exposed /\ uncovered => NothingLost BY DEF Exposed, NothingLost
  <2>2. Inv /\ FlowInv => NothingLost BY InvNothingLost
  <2> QED BY <2>1, <2>2
<1>3. Spec => []FlowInv BY <1>1, InitFlow, InvAlways, PTL DEF Spec
<1> QED BY <1>2, <1>3, InvAlways, PTL
=============================================================================
