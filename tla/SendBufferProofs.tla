-------------------------- MODULE SendBufferProofs --------------------------
(***************************************************************************)
(* SendBuffer keeps its positions inside its storage and implements the    *)
(* bounded byte FIFO of ByteStream, for every capacity and every alphabet. *)
(***************************************************************************)
EXTENDS SendBuffer, SequenceTheorems, TLAPS

-----------------------------------------------------------------------------
(* What the helpers on the storage return.                                 *)

\* A function on 1..n with values in S is a sequence of length n.
LEMMA FunctionIsSequence ==
  ASSUME NEW S, NEW n \in Nat, NEW f \in [1..n -> S]
  PROVE  f \in Seq(S) /\ Len(f) = n
<1>1. f \in Seq(S)
  OBVIOUS
<1>2. DOMAIN f = 1..n /\ DOMAIN f = 1..Len(f) /\ Len(f) \in Nat
  BY <1>1, LenProperties
<1> QED
  BY <1>1, <1>2

\* memmove keeps the storage's length and brings the n bytes to the front.
LEMMA MoveDownResult ==
  ASSUME NEW b \in Seq(Bytes), NEW from \in Nat, NEW n \in Nat, from + n <= Len(b)
  PROVE  /\ MoveDown(b, from, n) \in Seq(Bytes)
         /\ Len(MoveDown(b, from, n)) = Len(b)
         /\ \A i \in 1..n : MoveDown(b, from, n)[i] = b[from + i]
<1>1. Len(b) \in Nat /\ \A i \in 1..Len(b) : b[i] \in Bytes
  BY LenProperties, ElementOfSeq
<1>2. MoveDown(b, from, n) \in [1..Len(b) -> Bytes]
  <2>1. ASSUME NEW i \in 1..Len(b) PROVE (IF i <= n THEN b[from + i] ELSE b[i]) \in Bytes
    <3>1. i <= n => from + i \in 1..Len(b)
      BY <1>1
    <3> QED
      BY <3>1, <1>1
  <2> QED
    BY <2>1 DEF MoveDown
<1>3. \A i \in 1..n : i \in 1..Len(b) /\ MoveDown(b, from, n)[i] = b[from + i]
  BY <1>1 DEF MoveDown
<1> QED
  BY <1>1, <1>2, <1>3, FunctionIsSequence

\* memcpy keeps the storage's length, puts data at its place and leaves what
\* was in front of it.
LEMMA CopyInResult ==
  ASSUME NEW b \in Seq(Bytes), NEW at \in Nat, NEW data \in Seq(Bytes),
         at + Len(data) <= Len(b)
  PROVE  /\ CopyIn(b, at, data) \in Seq(Bytes)
         /\ Len(CopyIn(b, at, data)) = Len(b)
         /\ \A i \in 1..at : CopyIn(b, at, data)[i] = b[i]
         /\ \A i \in 1..Len(data) : CopyIn(b, at, data)[at + i] = data[i]
<1>1. /\ Len(b) \in Nat /\ \A i \in 1..Len(b) : b[i] \in Bytes
      /\ Len(data) \in Nat /\ \A i \in 1..Len(data) : data[i] \in Bytes
  BY LenProperties, ElementOfSeq
<1>2. CopyIn(b, at, data) \in [1..Len(b) -> Bytes]
  <2>1. ASSUME NEW i \in 1..Len(b)
        PROVE  (IF at < i /\ i <= at + Len(data) THEN data[i - at] ELSE b[i]) \in Bytes
    <3>1. (at < i /\ i <= at + Len(data)) => i - at \in 1..Len(data)
      BY <1>1
    <3> QED
      BY <3>1, <1>1
  <2> QED
    BY <2>1 DEF CopyIn
<1>3. \A i \in 1..at : i \in 1..Len(b) /\ CopyIn(b, at, data)[i] = b[i]
  BY <1>1 DEF CopyIn
<1>4. \A i \in 1..Len(data) : CopyIn(b, at, data)[at + i] = data[i]
  <2> TAKE i \in 1..Len(data)
  <2>1. at + i \in 1..Len(b) /\ at < at + i /\ at + i <= at + Len(data) /\ (at + i) - at = i
    BY <1>1
  <2>2. CopyIn(b, at, data)[at + i] = data[(at + i) - at]
    BY <2>1 DEF CopyIn
  <2> QED
    BY <2>1, <2>2
<1> QED
  BY <1>1, <1>2, <1>3, <1>4, FunctionIsSequence

\* resize to a larger capacity keeps the bytes that were there.
LEMMA ResizeResult ==
  ASSUME NEW b \in Seq(Bytes), NEW cap \in Nat, Len(b) <= cap
  PROVE  /\ Resize(b, cap) \in Seq(Bytes)
         /\ Len(Resize(b, cap)) = cap
         /\ \A i \in 1..Len(b) : Resize(b, cap)[i] = b[i]
<1>1. Len(b) \in Nat /\ \A i \in 1..Len(b) : b[i] \in Bytes
  BY LenProperties, ElementOfSeq
<1>2. Resize(b, cap) \in [1..cap -> Bytes]
  BY <1>1, CapacityAssumption DEF Resize
<1>3. \A i \in 1..Len(b) : i \in 1..cap /\ Resize(b, cap)[i] = b[i]
  BY <1>1 DEF Resize
<1> QED
  BY <1>2, <1>3, FunctionIsSequence

\* Compact brings the readable bytes to the front and keeps the length.
LEMMA CompactResult ==
  ASSUME NEW b \in Seq(Bytes), NEW r \in Nat, NEW w \in Nat, r <= w, w <= Len(b)
  PROVE  /\ Compact(b, r, w) \in Seq(Bytes)
         /\ Len(Compact(b, r, w)) = Len(b)
         /\ \A i \in 1..(w - r) : Compact(b, r, w)[i] = b[r + i]
<1>1. CASE r = 0
  BY <1>1 DEF Compact
<1>2. CASE r # 0
  <2>1. w - r \in Nat /\ r + (w - r) <= Len(b)
    BY LenProperties
  <2>2. Compact(b, r, w) = MoveDown(b, r, w - r)
    BY <1>2 DEF Compact
  <2> QED
    BY <2>1, <2>2, MoveDownResult
<1> QED
  BY <1>1, <1>2

-----------------------------------------------------------------------------
(* Slices of the storage: what is pending, before and after.               *)

\* A slice within the storage is a sequence of bytes.
LEMMA SliceResult ==
  ASSUME NEW b \in Seq(Bytes), NEW r \in Nat, NEW w \in Nat, r <= w, w <= Len(b)
  PROVE  /\ Slice(b, r, w) \in Seq(Bytes)
         /\ Len(Slice(b, r, w)) = w - r
         /\ \A i \in 1..(w - r) : Slice(b, r, w)[i] = b[r + i]
<1>1. Len(b) \in Nat /\ \A i \in 1..Len(b) : b[i] \in Bytes
  BY LenProperties, ElementOfSeq
<1>2. w - r \in Nat /\ \A i \in 1..(w - r) : r + i \in 1..Len(b)
  BY <1>1
<1>3. Slice(b, r, w) \in [1..(w - r) -> Bytes]
  BY <1>1, <1>2 DEF Slice
<1>4. \A i \in 1..(w - r) : Slice(b, r, w)[i] = b[r + i]
  BY DEF Slice
<1> QED
  BY <1>2, <1>3, <1>4, FunctionIsSequence

\* The sequence p stands in c behind position q.
StandsAt(p, c, q) == \A i \in 1..Len(p) : c[q + i] = p[i]

\* Storage in which p stands at q has p as its slice from q on.
LEMMA SliceStands ==
  ASSUME NEW p \in Seq(Bytes), NEW c \in Seq(Bytes), NEW q \in Nat, NEW e \in Nat,
         e = q + Len(p), StandsAt(p, c, q)
  PROVE  Slice(c, q, e) = p
<1>1. Len(p) \in Nat /\ p = [i \in 1..Len(p) |-> p[i]] /\ e - q = Len(p)
  BY LenProperties
<1>2. Slice(c, q, e) = [i \in 1..Len(p) |-> c[q + i]]
  BY <1>1 DEF Slice
<1>3. \A i \in 1..Len(p) : c[q + i] = p[i]
  BY DEF StandsAt
<1> QED
  BY <1>1, <1>2, <1>3

\* Two sequences that stand one behind the other stand there together.
LEMMA StandTogether ==
  ASSUME NEW p \in Seq(Bytes), NEW d \in Seq(Bytes), NEW c \in Seq(Bytes), NEW q \in Nat,
         StandsAt(p, c, q), StandsAt(d, c, q + Len(p))
  PROVE  StandsAt(p \o d, c, q)
<1>1. Len(p) \in Nat /\ Len(d) \in Nat
  BY LenProperties
<1>2. /\ Len(p \o d) = Len(p) + Len(d)
      /\ \A i \in 1..(Len(p) + Len(d)) :
           (p \o d)[i] = IF i <= Len(p) THEN p[i] ELSE d[i - Len(p)]
  BY ConcatProperties
<1>3. SUFFICES ASSUME NEW i \in 1..(Len(p) + Len(d)) PROVE c[q + i] = (p \o d)[i]
  BY <1>2 DEF StandsAt
<1>4. CASE i <= Len(p)
  <2>1. i \in 1..Len(p)
    BY <1>1, <1>4
  <2>2. c[q + i] = p[i]
    BY <2>1 DEF StandsAt
  <2> QED
    BY <2>2, <1>2, <1>4
<1>5. CASE ~(i <= Len(p))
  <2>1. i - Len(p) \in 1..Len(d) /\ q + Len(p) + (i - Len(p)) = q + i
    BY <1>1, <1>5
  <2>2. c[q + Len(p) + (i - Len(p))] = d[i - Len(p)]
    BY <2>1 DEF StandsAt
  <2> QED
    BY <2>1, <2>2, <1>2, <1>5
<1> QED
  BY <1>4, <1>5

\* Taking n bytes off a slice: what goes out and what stays.
LEMMA SliceTaken ==
  ASSUME NEW b \in Seq(Bytes), NEW r \in Nat, NEW w \in Nat, r <= w, w <= Len(b),
         NEW n \in 1..(w - r)
  PROVE  /\ SubSeq(b, r + 1, r + n) = SubSeq(Slice(b, r, w), 1, n)
         /\ Slice(b, r + n, w) = SubSeq(Slice(b, r, w), n + 1, w - r)
<1>1. Len(b) \in Nat
  BY LenProperties
<1>2. \A i \in 1..(w - r) : Slice(b, r, w)[i] = b[r + i]
  BY DEF Slice
<1>3. SubSeq(b, r + 1, r + n) = SubSeq(Slice(b, r, w), 1, n)
  <2>1. SubSeq(b, r + 1, r + n) = [i \in 1..n |-> b[r + i]]
    BY <1>1
  <2>2. SubSeq(Slice(b, r, w), 1, n) = [i \in 1..n |-> Slice(b, r, w)[i]]
    BY <1>1
  <2>3. \A i \in 1..n : i \in 1..(w - r)
    BY <1>1
  <2> QED
    BY <2>1, <2>2, <2>3, <1>2
<1>4. Slice(b, r + n, w) = SubSeq(Slice(b, r, w), n + 1, w - r)
  <2>1. SubSeq(Slice(b, r, w), n + 1, w - r) =
          [i \in 1..(w - (r + n)) |-> Slice(b, r, w)[n + i]]
    BY <1>1
  <2>2. \A i \in 1..(w - (r + n)) : n + i \in 1..(w - r) /\ r + (n + i) = (r + n) + i
    BY <1>1
  <2>3. \A i \in 1..(w - (r + n)) : Slice(b, r, w)[n + i] = b[(r + n) + i]
    BY <2>2, <1>2
  <2> QED
    BY <2>1, <2>3 DEF Slice
<1> QED
  BY <1>3, <1>4

-----------------------------------------------------------------------------
(* The inductive invariant, and each action.                               *)

Inv == TypeOK /\ PositionsInside

\* A chunk is a sequence of bytes.
LEMMA ChunkIsSequence ==
  ASSUME NEW data \in Chunks
  PROVE  data \in Seq(Bytes) /\ Len(data) \in Nat
<1>1. PICK n \in 0..MaxWrite : data \in [1..n -> Bytes]
  BY DEF Chunks
<1>2. n \in Nat
  BY CapacityAssumption
<1> QED
  BY <1>1, <1>2, FunctionIsSequence

\* What Inv says of the positions, in the form the lemmas above need.
Facts == /\ buffer \in Seq(Bytes) /\ read_pos \in Nat /\ write_pos \in Nat
         /\ Len(buffer) \in Nat /\ Len(buffer) <= MaxCapacity /\ InitialCapacity <= Len(buffer)
         /\ InitialCapacity \in Nat /\ MaxCapacity \in Nat
         /\ read_pos <= write_pos /\ write_pos <= Len(buffer)
         /\ Size \in Nat /\ Size = write_pos - read_pos

\* Inv gives Facts, and the pending bytes are a sequence of length Size.
LEMMA InvFacts ==
  ASSUME Inv
  PROVE  Facts /\ Readable \in Seq(Bytes) /\ Len(Readable) = Size
<1>1. Facts
  BY CapacityAssumption DEF Inv, TypeOK, PositionsInside, Size, Facts
<1>2. Readable \in Seq(Bytes) /\ Len(Readable) = Size
  BY <1>1, SliceResult DEF Readable, Facts
<1> QED
  BY <1>1, <1>2

\* The case of a chunk appended in storage c, the pending bytes being at q in it.
LEMMA AppendStep ==
  ASSUME Inv, NEW data \in Chunks, NEW c \in Seq(Bytes), NEW q \in Nat,
         data # <<>>,
         Len(c) \in Len(buffer)..MaxCapacity,
         q <= Len(c) \div 2,
         q + Size + Len(data) <= Len(c),
         StandsAt(Readable, c, q),
         buffer' = CopyIn(c, q + Size, data),
         read_pos' = q,
         write_pos' = q + Size + Len(data),
         accepted' = TRUE,
         out' = <<>>
  PROVE  Inv' /\ Stream!Write(data)
<1>1. Facts /\ Readable \in Seq(Bytes) /\ Len(Readable) = Size
  BY InvFacts
<1>2. data \in Seq(Bytes) /\ Len(data) \in Nat
  BY ChunkIsSequence
<1>3. Size \in Nat /\ q + Size \in Nat /\ Len(c) \in Nat /\ MaxCapacity \in Nat
      /\ InitialCapacity \in Nat /\ Len(buffer) \in Nat /\ InitialCapacity <= Len(buffer)
  BY <1>1 DEF Facts
<1>4. /\ buffer' \in Seq(Bytes) /\ Len(buffer') = Len(c)
      /\ \A i \in 1..(q + Size) : buffer'[i] = c[i]
      /\ \A i \in 1..Len(data) : buffer'[q + Size + i] = data[i]
  BY <1>2, <1>3, CopyInResult
<1>5. Inv'
  <2>1. /\ Len(buffer') \in Nat /\ read_pos' \in Nat /\ write_pos' \in Nat
        /\ read_pos' <= write_pos' /\ write_pos' <= Len(buffer')
        /\ read_pos' <= Len(buffer') \div 2
        /\ InitialCapacity <= Len(buffer') /\ Len(buffer') <= MaxCapacity
    BY <1>2, <1>3, <1>4
  <2> QED
    BY <1>3, <1>4, <2>1 DEF Inv, TypeOK, PositionsInside
<1>6. Readable' = Readable \o data
  <2>1. StandsAt(Readable, buffer', q)
    <3>1. \A i \in 1..Size : q + i \in 1..(q + Size)
      BY <1>3
    <3> QED
      BY <3>1, <1>1, <1>4 DEF StandsAt
  <2>2. StandsAt(data, buffer', q + Len(Readable))
    BY <1>1, <1>4 DEF StandsAt
  <2>3. StandsAt(Readable \o data, buffer', q)
    BY <1>1, <1>2, <1>4, <2>1, <2>2, StandTogether
  <2>4. Readable \o data \in Seq(Bytes) /\ Len(Readable \o data) = Size + Len(data)
    BY <1>1, <1>2, ConcatProperties
  <2>5. write_pos' \in Nat /\ write_pos' = q + Len(Readable \o data)
    BY <1>2, <1>3, <2>4
  <2>6. Slice(buffer', q, write_pos') = Readable \o data
    BY ONLY <1>4, q \in Nat, <2>3, <2>4, <2>5, SliceStands
  <2> QED
    BY <2>6 DEF Readable
<1>7. Len(Readable) + Len(data) <= MaxCapacity
  BY <1>1, <1>2, <1>3
<1> QED
  BY <1>5, <1>6, <1>7 DEF Stream!Write

\* Write puts a non-empty chunk that fits behind the pending bytes and refuses
\* every other one, whichever of its paths it takes.
LEMMA WriteStep ==
  ASSUME Inv, NEW data \in Chunks, Write(data)
  PROVE  Inv' /\ Stream!Write(data)
<1> DEFINE front == Compact(buffer, read_pos, write_pos)
<1>1. Facts /\ Readable \in Seq(Bytes) /\ Len(Readable) = Size /\ out' = <<>>
  BY InvFacts DEF Write
<1>2. data \in Seq(Bytes) /\ Len(data) \in Nat
  BY ChunkIsSequence
<1>3. StandsAt(Readable, buffer, read_pos)
  <2>1. \A i \in 1..Size : Readable[i] = buffer[read_pos + i]
    BY <1>1 DEF Facts, Readable, Slice
  <2> QED
    BY <2>1, <1>1 DEF StandsAt
<1>4. front \in Seq(Bytes) /\ Len(front) = Len(buffer) /\ StandsAt(Readable, front, 0)
  <2>1. front \in Seq(Bytes) /\ Len(front) = Len(buffer)
        /\ \A i \in 1..Size : front[i] = buffer[read_pos + i]
    BY <1>1, CompactResult DEF Facts
  <2>2. \A i \in 1..Size : Readable[i] = buffer[read_pos + i]
    BY <1>1 DEF Facts, Readable, Slice
  <2> QED
    BY <2>1, <2>2, <1>1 DEF StandsAt, Facts
<1> HIDE DEF front
<1>5. CASE WriteEmpty(data)
  <2>1. Inv'
    <3>1. out' \in Seq(Bytes) /\ accepted' \in BOOLEAN
      <4>1. out' \in Seq(Bytes)
        BY <1>1
      <4>2. accepted' \in BOOLEAN
        BY <1>5, Zenon DEF WriteEmpty
      <4> QED
        BY <4>1, <4>2
    <3> QED
      BY <3>1, <1>5 DEF WriteEmpty, Inv, TypeOK, PositionsInside
  <2>2. Readable' = Readable
    BY <1>5 DEF WriteEmpty, Readable
  <2> QED
    BY <1>1, <1>5, <2>1, <2>2 DEF WriteEmpty, Stream!Write
<1>6. CASE WriteInPlace(data)
  <2>1. /\ read_pos + Size = write_pos
        /\ read_pos + Size + Len(data) <= Len(buffer)
        /\ Len(buffer) \in Len(buffer)..MaxCapacity
        /\ read_pos <= Len(buffer) \div 2
        /\ buffer \in Seq(Bytes) /\ read_pos \in Nat
    BY <1>1, <1>2, <1>6 DEF WriteInPlace, Facts, Inv, PositionsInside
  <2> QED
    BY <1>1, <1>3, <1>6, <2>1, AppendStep DEF WriteInPlace
<1>7. CASE WriteCompacted(data)
  <2>1. /\ 0 + Size = Size /\ 0 + Size + Len(data) <= Len(front)
        /\ Len(front) \in Len(buffer)..MaxCapacity
        /\ 0 <= Len(front) \div 2
    BY <1>1, <1>2, <1>4, <1>7 DEF WriteCompacted, Facts
  <2>2. data # <<>>
    BY <1>1, <1>7 DEF WriteCompacted, NeedsMore, Facts
  <2> QED
    BY <1>1, <1>4, <1>7, <2>1, <2>2, AppendStep DEF WriteCompacted, front
<1>8. CASE WriteGrown(data)
  <2>1. PICK d \in Doublings(Len(buffer)) :
          /\ LoopStops(Len(buffer), Size + Len(data), d)
          /\ buffer' = CopyIn(Resize(front, Clip(d)), Size, data)
    BY <1>8 DEF WriteGrown, front
  <2>2. /\ Clip(d) \in Nat /\ Len(buffer) <= Clip(d) /\ Clip(d) <= MaxCapacity
        /\ Size + Len(data) <= Clip(d)
    <3>1. /\ d \in Nat /\ Len(buffer) <= d /\ Size + Len(data) <= MaxCapacity
          /\ d >= Size + Len(data) \/ d >= MaxCapacity
          /\ Size \in Nat /\ MaxCapacity \in Nat /\ Len(buffer) \in Nat /\ Len(buffer) <= MaxCapacity
      <4>1. /\ Size \in Nat /\ MaxCapacity \in Nat /\ Len(buffer) \in Nat /\ Len(buffer) <= MaxCapacity
        BY <1>1 DEF Facts
      <4>2. Size + Len(data) <= MaxCapacity
        BY <1>8 DEF WriteGrown
      <4>3. d \in Len(buffer)..(2 * MaxCapacity)
        BY <2>1 DEF Doublings
      <4>4. d >= Size + Len(data) \/ d >= MaxCapacity
        BY <2>1 DEF LoopStops
      <4> QED
        BY ONLY <4>1, <4>2, <4>3, <4>4
    <3> QED
      BY ONLY <1>2, <3>1 DEF Clip
  <2> DEFINE grown == Resize(front, Clip(d))
  <2>3. /\ grown \in Seq(Bytes) /\ Len(grown) = Clip(d)
        /\ \A i \in 1..Len(front) : grown[i] = front[i]
    BY <1>4, <2>2, ResizeResult
  <2> HIDE DEF grown
  <2>4. StandsAt(Readable, grown, 0)
    BY <1>1, <1>4, <2>3 DEF StandsAt, Facts
  <2>5. /\ 0 + Size = Size /\ 0 + Size + Len(data) <= Len(grown)
        /\ Len(grown) \in Len(buffer)..MaxCapacity
        /\ 0 <= Len(grown) \div 2
    BY <1>1, <1>2, <2>2, <2>3 DEF Facts
  <2>6. data # <<>>
    BY <1>1, <1>8 DEF WriteGrown, NeedsMore, Facts
  <2> QED
    BY <1>1, <1>8, <2>1, <2>3, <2>4, <2>5, <2>6, AppendStep DEF WriteGrown, grown
<1>9. CASE WriteRejected(data)
  <2>1. Inv'
    <3>1. out' \in Seq(Bytes) /\ accepted' \in BOOLEAN
      <4>1. out' \in Seq(Bytes)
        BY <1>1
      <4>2. accepted' \in BOOLEAN
        BY <1>9, Zenon DEF WriteRejected
      <4> QED
        BY <4>1, <4>2
    <3>2. /\ buffer' \in Seq(Bytes) /\ Len(buffer') = Len(buffer)
          /\ read_pos' = 0 /\ write_pos' = Size
      BY <1>4, <1>9 DEF WriteRejected, front
    <3>3. /\ Size \in Nat /\ Size <= Len(buffer) /\ Len(buffer) \in InitialCapacity..MaxCapacity
          /\ 0 <= Len(buffer) \div 2
      BY <1>1 DEF Facts
    <3> QED
      BY <3>1, <3>2, <3>3 DEF Inv, TypeOK, PositionsInside
  <2>2. Readable' = Readable
    <3>1. 0 + Len(Readable) = Size /\ Size \in Nat
      BY <1>1 DEF Facts
    <3>2. Slice(front, 0, Size) = Readable
      BY <1>1, <1>4, <3>1, SliceStands
    <3> QED
      BY <1>9, <3>2 DEF WriteRejected, Readable, front
  <2> QED
    BY <1>1, <1>9, <2>1, <2>2 DEF WriteRejected, Stream!Write
<1> QED
  BY <1>5, <1>6, <1>7, <1>8, <1>9 DEF Write

\* SendToSocket hands over a prefix of the pending bytes and keeps the rest.
LEMMA SendStep ==
  ASSUME Inv, NEW n \in 1..Size, SendToSocket(n)
  PROVE  Inv' /\ Stream!Transmit(n)
<1> DEFINE rest == Slice(buffer, read_pos + n, write_pos)
<1>1. Facts /\ Readable \in Seq(Bytes) /\ Len(Readable) = Size
  BY InvFacts
<1>2. n \in Nat /\ n <= Size /\ read_pos + n \in Nat /\ read_pos + n <= write_pos
  BY <1>1 DEF Facts
<1>3. /\ out' = SubSeq(Readable, 1, n)
      /\ rest = SubSeq(Readable, n + 1, Len(Readable))
  BY <1>1, SliceTaken DEF SendToSocket, Facts, Readable
<1>4. out' \in Seq(Bytes)
  BY <1>1, <1>2, <1>3 DEF Facts
<1>5. Inv' /\ Readable' = rest
  <2>1. CASE read_pos + n = write_pos
    <3>1. read_pos' = 0 /\ write_pos' = 0 /\ buffer' = buffer
      BY <2>1 DEF SendToSocket
    <3>2. Inv'
      BY <1>1, <1>4, <3>1 DEF Inv, TypeOK, PositionsInside, Facts, SendToSocket
    <3>3. write_pos - (read_pos + n) = 0 - 0
      BY <1>1, <2>1 DEF Facts
    <3> QED
      BY <3>1, <3>2, <3>3 DEF Readable, Slice
  <2>2. CASE read_pos + n # write_pos /\ read_pos + n > Len(buffer) \div 2
    <3> DEFINE front == Compact(buffer, read_pos + n, write_pos)
    <3>1. read_pos' = 0 /\ write_pos' = Size - n /\ buffer' = front
      BY <1>1, <1>2, <2>2 DEF SendToSocket, Facts
    <3>2. Size - n \in Nat /\ Size - n = write_pos - (read_pos + n) /\ Size - n <= Len(buffer)
      BY <1>1, <1>2 DEF Facts
    <3>3. /\ front \in Seq(Bytes) /\ Len(front) = Len(buffer)
          /\ \A i \in 1..(Size - n) : front[i] = buffer[(read_pos + n) + i]
      <4>1. \A r \in Nat : r <= write_pos =>
              /\ Compact(buffer, r, write_pos) \in Seq(Bytes)
              /\ Len(Compact(buffer, r, write_pos)) = Len(buffer)
              /\ \A i \in 1..(write_pos - r) : Compact(buffer, r, write_pos)[i] = buffer[r + i]
        BY <1>1, CompactResult DEF Facts
      <4> QED
        BY <1>2, <3>2, <4>1
    <3> HIDE DEF front
    <3>4. Inv'
      BY <1>1, <1>4, <3>1, <3>2, <3>3 DEF Inv, TypeOK, PositionsInside, Facts, SendToSocket
    <3>5. Slice(front, 0, Size - n) = rest
      BY <3>2, <3>3 DEF Slice
    <3> QED
      BY <3>1, <3>4, <3>5 DEF Readable
  <2>3. CASE read_pos + n # write_pos /\ read_pos + n <= Len(buffer) \div 2
    <3>1. read_pos' = read_pos + n /\ write_pos' = write_pos /\ buffer' = buffer
      BY <1>1, <1>2, <2>3 DEF SendToSocket, Facts
    <3>2. Inv'
      BY <1>1, <1>2, <1>4, <2>3, <3>1 DEF Inv, TypeOK, PositionsInside, Facts, SendToSocket
    <3> QED
      BY <3>1, <3>2 DEF Readable
  <2> QED
    BY <1>1, <1>2, <2>1, <2>2, <2>3 DEF Facts
<1> QED
  BY <1>3, <1>5 DEF SendToSocket, Stream!Transmit

-----------------------------------------------------------------------------
(* The theorems.                                                           *)

\* Every step keeps the invariant and is a step of the abstract FIFO.
LEMMA NextStep ==
  ASSUME Inv, [Next]_vars
  PROVE  Inv' /\ [Stream!Next]_(Stream!vars)
<1>1. Facts /\ Len(Readable) = Size
  BY InvFacts
<1>2. ASSUME NEW data \in Chunks, Write(data)
      PROVE  Inv' /\ Stream!Next
  <2>1. Inv' /\ Stream!Write(data)
    BY <1>2, WriteStep
  <2> QED
    BY <2>1 DEF Stream!Next, Stream!Chunks, Chunks
<1>3. ASSUME NEW n \in 1..Size, SendToSocket(n)
      PROVE  Inv' /\ Stream!Next
  <2>1. Inv' /\ Stream!Transmit(n)
    BY <1>3, SendStep
  <2> QED
    BY <1>1, <2>1 DEF Stream!Next
<1>4. CASE SendBlocked
  <2>1. Readable' = Readable
    BY <1>4 DEF SendBlocked, Readable
  <2>2. Inv'
    BY <1>4 DEF SendBlocked, Inv, TypeOK, PositionsInside
  <2> QED
    BY <1>4, <2>1, <2>2 DEF SendBlocked, Stream!Next, Stream!Blocked
<1>5. CASE Clear
  <2>1. Inv'
    BY <1>1, <1>5 DEF Clear, Facts, Inv, TypeOK, PositionsInside
  <2>2. Readable' = <<>>
    BY <1>5 DEF Clear, Readable, Slice
  <2> QED
    BY <1>5, <2>1, <2>2 DEF Clear, Stream!Next, Stream!Discard
<1>6. CASE UNCHANGED vars
  <2>1. Inv'
    BY <1>6 DEF vars, Inv, TypeOK, PositionsInside
  <2>2. UNCHANGED Stream!vars
    BY <1>6 DEF vars, Stream!vars, Readable
  <2> QED
    BY <2>1, <2>2
<1> QED
  BY <1>2, <1>3, <1>4, <1>5, <1>6 DEF Next

\* The fresh buffer satisfies the invariant and is the empty FIFO.
LEMMA InitStep ==
  ASSUME Init
  PROVE  Inv /\ Stream!Init
<1>1. buffer \in [1..InitialCapacity -> Bytes] /\ InitialCapacity \in Nat
  BY CapacityAssumption DEF Init
<1>2. buffer \in Seq(Bytes) /\ Len(buffer) = InitialCapacity
  BY <1>1, FunctionIsSequence
<1>3. Inv
  <2>1. accepted \in BOOLEAN
    BY Zenon DEF Init
  <2>2. out \in Seq(Bytes) /\ read_pos = 0 /\ write_pos = 0
    BY DEF Init
  <2>3. InitialCapacity \in Nat /\ MaxCapacity \in Nat /\ InitialCapacity <= MaxCapacity
        /\ 0 <= InitialCapacity \div 2
    BY CapacityAssumption
  <2> QED
    BY <1>2, <2>1, <2>2, <2>3 DEF Inv, TypeOK, PositionsInside
<1>4. Readable = <<>>
  BY DEF Init, Readable, Slice
<1> QED
  BY <1>3, <1>4 DEF Init, Stream!Init

\* Inv holds in every reachable state of SendBuffer.
THEOREM InvHolds == Spec => []Inv
<1>1. Init => Inv
  BY InitStep
<1>2. Inv /\ [Next]_vars => Inv'
  BY NextStep
<1> QED
  BY <1>1, <1>2, PTL DEF Spec

\* The storage never outgrows MAX_CAPACITY and holds bytes (SendBuffer::
\* EnsureWritableSpace clips its doubling).
THEOREM StorageTyped == Spec => []TypeOK
<1>1. Inv => TypeOK
  BY DEF Inv
<1> QED
  BY <1>1, InvHolds, PTL

\* Every memcpy, memmove and send of SendBuffer stays inside buffer_, and no
\* more than half of the storage is wasted in front of read_pos_.
THEOREM PositionsStayInside == Spec => []PositionsInside
<1>1. Inv => PositionsInside
  BY DEF Inv
<1> QED
  BY <1>1, InvHolds, PTL

\* SendBuffer implements a bounded FIFO of bytes: whatever the order of writes,
\* partial sends, compactions, growth and clears, no byte is lost, repeated or
\* overtaken, and a write is refused exactly when it is empty or does not fit.
THEOREM RefinesByteStream == Spec => ImplementsByteStream
<1>1. Init => Stream!Init
  BY InitStep
<1>2. Inv /\ [Next]_vars => [Stream!Next]_(Stream!vars)
  BY NextStep
<1> QED
  BY <1>1, <1>2, InvHolds, PTL DEF Spec, ImplementsByteStream, Stream!Spec
=============================================================================
