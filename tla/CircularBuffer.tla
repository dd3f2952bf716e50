--------------------------- MODULE CircularBuffer ---------------------------
(***************************************************************************)
(* CircularBuffer (foundation/container/CircularBuffer.h): a fixed array   *)
(* with head, tail and size; a push into a full buffer overwrites the      *)
(* oldest element.  kept is the reference: the elements as a sequence.     *)
(***************************************************************************)
EXTENDS Integers, Sequences

CONSTANTS Values, Capacity

VARIABLES buffer, head, tail, size, kept

vars == <<buffer, head, tail, size, kept>>

Init ==
    /\ \E v \in Values : buffer = [i \in 0..(Capacity - 1) |-> v]
    /\ head = 0 /\ tail = 0 /\ size = 0
    /\ kept = <<>>

After(i) == (i + 1) % Capacity
Full == size = Capacity

Push(v) ==
    /\ head' = IF Full THEN After(head) ELSE head
    /\ size' = IF Full THEN size ELSE size + 1
    /\ buffer' = [buffer EXCEPT ![tail] = v]
    /\ tail' = After(tail)
    /\ kept' = Append(IF Full THEN Tail(kept) ELSE kept, v)

Pop ==
    /\ size > 0
    /\ head' = After(head)
    /\ size' = size - 1
    /\ kept' = Tail(kept)
    /\ UNCHANGED <<buffer, tail>>

Clear ==
    /\ head' = 0 /\ tail' = 0 /\ size' = 0
    /\ kept' = <<>>
    /\ UNCHANGED buffer

Next == Pop \/ Clear \/ \E v \in Values : Push(v)

Spec == Init /\ [][Next]_vars

\* at and operator[]
At(i) == buffer[(head + i) % Capacity]
\* begin() to end(): the position goes round, the count ends the loop.
Iterated == [n \in 1..size |-> buffer[(head + n - 1) % Capacity]]
Front == buffer[head]
Back == buffer[(tail + Capacity - 1) % Capacity]

(***************************************************************************)
(* Index, iterators, front and back show the elements of the reference in  *)
(* order after any sequence of push, overwriting push, pop and clear       *)
(* (CircularBuffer).                                                       *)
(***************************************************************************)
ShowsKept ==
    /\ Iterated = kept
    /\ \A i \in 0..(size - 1) : At(i) = kept[i + 1]
    /\ size > 0 => Front = Head(kept) /\ Back = kept[Len(kept)]

\* Why: tail is size places behind head, and between them lies what is kept.
Inv ==
    /\ buffer \in [0..(Capacity - 1) -> Values]
    /\ head \in 0..(Capacity - 1) /\ size \in 0..Capacity
    /\ tail = (head + size) % Capacity
    /\ kept \in Seq(Values) /\ Len(kept) = size
    /\ \A n \in 1..size : kept[n] = buffer[(head + n - 1) % Capacity]
=============================================================================
