----------------------------- MODULE SendBuffer -----------------------------
(***************************************************************************)
(* darwincore::network::SendBuffer: the linear per-connection buffer of    *)
(* bytes that the socket would not take yet.  buffer is the storage (its   *)
(* length is the capacity); the pending bytes are those between read_pos   *)
(* and write_pos.  Positions count from 0 as in the code, so the byte at   *)
(* offset i is buffer[i + 1].                                              *)
(***************************************************************************)
EXTENDS Naturals, Sequences

CONSTANTS Bytes,            \* byte values
          Zero,             \* the byte std::vector::resize fills with
          InitialCapacity,  \* INITIAL_CAPACITY
          MaxCapacity,      \* MAX_CAPACITY
          MaxWrite          \* bound of the model on the size of one Write

ASSUME CapacityAssumption == /\ InitialCapacity \in Nat \ {0}
                             /\ MaxCapacity \in Nat
                             /\ InitialCapacity <= MaxCapacity
                             /\ MaxWrite \in Nat
                             /\ Zero \in Bytes

VARIABLES buffer,     \* buffer_
          read_pos,   \* read_pos_
          write_pos,  \* write_pos_
          out,        \* bytes the last SendToSocket handed to send()
          accepted    \* result of the last Write

vars == <<buffer, read_pos, write_pos, out, accepted>>

Chunks == UNION {[1..n -> Bytes] : n \in 0..MaxWrite}

TypeOK == /\ buffer \in Seq(Bytes)
          /\ Len(buffer) \in InitialCapacity..MaxCapacity
          /\ read_pos \in Nat
          /\ write_pos \in Nat
          /\ out \in Seq(Bytes)
          /\ accepted \in BOOLEAN

Init == /\ buffer = [i \in 1..InitialCapacity |-> Zero]
        /\ read_pos = 0
        /\ write_pos = 0
        /\ out = <<>>
        /\ accepted = FALSE

-----------------------------------------------------------------------------
\* Mutant: the move starts one byte early.
MoveDownEarly(b, from, n) == [i \in 1..Len(b) |-> IF i <= n THEN b[from + i - 1] ELSE b[i]]

\* memmove of n bytes from offset `from` to the front.
MoveDown(b, from, n) == [i \in 1..Len(b) |-> IF i <= n THEN b[from + i] ELSE b[i]]

\* memcpy of data to offset `at`.
CopyIn(b, at, data) == [i \in 1..Len(b) |->
                          IF at < i /\ i <= at + Len(data) THEN data[i - at] ELSE b[i]]

Resize(b, cap) == [i \in 1..cap |-> IF i <= Len(b) THEN b[i] ELSE Zero]

Compact(b, r, w) == IF r = 0 THEN b ELSE MoveDown(b, r, w - r)

\* The value on which "double until large enough or at the maximum" stops,
\* and its clipping to MAX_CAPACITY.
Doublings(cap) == {d \in cap..(2 * MaxCapacity) : \E k \in 0..MaxCapacity : d = cap * 2^k}
LoopStops(cap, required, d) ==
  /\ d >= required \/ d >= MaxCapacity
  /\ d = cap \/ (d \div 2 < required /\ d \div 2 < MaxCapacity)
\* Mutant: the last doubling is not clipped.
Unclipped(d) == d

Clip(d) == IF d > MaxCapacity THEN MaxCapacity ELSE d

-----------------------------------------------------------------------------
\* Write refuses an empty chunk before it looks at the buffer.
WriteEmpty(data) ==
  /\ data = <<>>
  /\ accepted' = FALSE
  /\ UNCHANGED <<buffer, read_pos, write_pos>>

\* Otherwise, with EnsureWritableSpace: there is room behind write_pos ...
WriteInPlace(data) ==
  /\ data # <<>>
  /\ Len(buffer) - write_pos >= Len(data)
  /\ buffer' = CopyIn(buffer, write_pos, data)
  /\ write_pos' = write_pos + Len(data)
  /\ accepted' = TRUE
  /\ UNCHANGED read_pos

\* ... or there is after a compaction ...
NeedsMore(data) == Len(buffer) - write_pos < Len(data)
Size == write_pos - read_pos

WriteCompacted(data) ==
  /\ NeedsMore(data)
  /\ read_pos > 0
  /\ Len(buffer) - Size >= Len(data)
  /\ buffer' = CopyIn(Compact(buffer, read_pos, write_pos), Size, data)
  /\ read_pos' = 0
  /\ write_pos' = Size + Len(data)
  /\ accepted' = TRUE

\* ... or the storage has to grow (it has been compacted by now) ...
WriteGrown(data) ==
  /\ NeedsMore(data)
  /\ Len(buffer) - Size < Len(data)
  /\ Size + Len(data) <= MaxCapacity
  /\ \E d \in Doublings(Len(buffer)) :
       /\ LoopStops(Len(buffer), Size + Len(data), d)
       /\ buffer' = CopyIn(Resize(Compact(buffer, read_pos, write_pos), Clip(d)), Size, data)
  /\ read_pos' = 0
  /\ write_pos' = Size + Len(data)
  /\ accepted' = TRUE

\* ... or it may not, and Write returns false.  The compaction remains.
WriteRejected(data) ==
  /\ NeedsMore(data)
  /\ Len(buffer) - Size < Len(data)
  /\ Size + Len(data) > MaxCapacity
  /\ buffer' = Compact(buffer, read_pos, write_pos)
  /\ read_pos' = 0
  /\ write_pos' = Size
  /\ accepted' = FALSE

Write(data) == /\ \/ WriteEmpty(data)
                  \/ WriteInPlace(data)
                  \/ WriteCompacted(data)
                  \/ WriteGrown(data)
                  \/ WriteRejected(data)
               /\ out' = <<>>

\* SendToSocket: the kernel takes the first n readable bytes.
SendToSocket(n) ==
  /\ out' = SubSeq(buffer, read_pos + 1, read_pos + n)
  /\ \/ /\ read_pos + n = write_pos
        /\ read_pos' = 0 /\ write_pos' = 0
        /\ UNCHANGED buffer
     \/ /\ read_pos + n # write_pos
        /\ read_pos + n > Len(buffer) \div 2
        /\ buffer' = Compact(buffer, read_pos + n, write_pos)
        /\ read_pos' = 0
        /\ write_pos' = Size - n
     \/ /\ read_pos + n # write_pos
        /\ read_pos + n <= Len(buffer) \div 2
        /\ read_pos' = read_pos + n
        /\ UNCHANGED <<buffer, write_pos>>
  /\ UNCHANGED accepted

\* Nothing to send, EAGAIN, EINTR (return 0) or an error (return -1).
SendBlocked == out' = <<>> /\ UNCHANGED <<buffer, read_pos, write_pos, accepted>>

\* Mutant: Clear forgets read_pos_.
ClearKeepsReadPos == /\ write_pos' = 0
                     /\ out' = <<>>
                     /\ UNCHANGED <<buffer, read_pos, accepted>>

Clear == /\ read_pos' = 0
         /\ write_pos' = 0
         /\ out' = <<>>
         /\ UNCHANGED <<buffer, accepted>>

Next == \/ \E data \in Chunks : Write(data)
        \/ \E n \in 1..Size : SendToSocket(n)
        \/ SendBlocked
        \/ Clear

Spec == Init /\ [][Next]_vars

-----------------------------------------------------------------------------
\* The positions stay inside the storage in the right order, so that every memcpy,
\* memmove and send is within buffer_; compaction in SendToSocket keeps the wasted
\* front at no more than half of the storage.
PositionsInside == /\ read_pos <= write_pos
                   /\ write_pos <= Len(buffer)
                   /\ read_pos <= Len(buffer) \div 2

\* The bytes between two positions, and those that are pending.
Slice(b, r, w) == [i \in 1..(w - r) |-> b[r + i]]
Readable == Slice(buffer, read_pos, write_pos)

\* The buffer is a bounded FIFO of bytes: compaction, growth and partial sends
\* neither lose, repeat nor reorder a byte, and a Write fails only when the
\* bytes really do not fit in MAX_CAPACITY.
Stream == INSTANCE ByteStream WITH pending <- Readable, MaxBytes <- MaxCapacity
ImplementsByteStream == Stream!Spec
=============================================================================
