--------------------------- MODULE SPSCRingQueue ---------------------------
(***************************************************************************)
(* SPSCRingQueue (include/darwincore/foundation/container/RingQueue.h):    *)
(* one producer and one consumer on a ring of Capacity cells, of which one *)
(* stays empty.  The index of the other side is loaded, the cell used and  *)
(* the own index stored in separate steps.                                 *)
(***************************************************************************)
EXTENDS Integers, Sequences

CONSTANTS Capacity,    \* capacity_, a power of two
          MaxPushes    \* bound: values pushed

VARIABLES head, tail, buffer,
          producer, consumer,    \* where push and pop stand
          pushed,                \* the value being pushed: 1, 2, ...
          accepted, popped       \* what push took and what pop returned

vars == <<head, tail, buffer, producer, consumer, pushed, accepted, popped>>

Init ==
    /\ head = 0 /\ tail = 0
    /\ buffer = [i \in 0..(Capacity - 1) |-> 0]
    /\ producer = "idle" /\ consumer = "idle"
    /\ pushed = 0
    /\ accepted = <<>> /\ popped = <<>>

\* (i + 1) & mask_
After(i) == (i + 1) % Capacity

Full == After(tail) = head

\* push loads the indices and returns false when the ring is full.
PushLooks ==
    /\ producer = "idle" /\ pushed < MaxPushes
    /\ pushed' = pushed + 1
    /\ producer' = IF Full THEN "idle" ELSE "write"
    /\ UNCHANGED <<head, tail, buffer, consumer, accepted, popped>>

PushWrites ==
    /\ producer = "write"
    /\ buffer' = [buffer EXCEPT ![tail] = pushed]
    /\ producer' = "store"
    /\ UNCHANGED <<head, tail, consumer, pushed, accepted, popped>>

PushStores ==
    /\ producer = "store"
    /\ tail' = After(tail)
    /\ accepted' = Append(accepted, pushed)
    /\ producer' = "idle"
    /\ UNCHANGED <<head, buffer, consumer, pushed, popped>>

\* pop returns nothing when the ring is empty.
PopLooks ==
    /\ consumer = "idle" /\ head # tail
    /\ consumer' = "read"
    /\ UNCHANGED <<head, tail, buffer, producer, pushed, accepted, popped>>

PopReads ==
    /\ consumer = "read"
    /\ popped' = Append(popped, buffer[head])
    /\ consumer' = "store"
    /\ UNCHANGED <<head, tail, buffer, producer, pushed, accepted>>

PopStores ==
    /\ consumer = "store"
    /\ head' = After(head)
    /\ consumer' = "idle"
    /\ UNCHANGED <<tail, buffer, producer, pushed, accepted, popped>>

Next == PushLooks \/ PushWrites \/ PushStores \/ PopLooks \/ PopReads \/ PopStores

Spec == Init /\ [][Next]_vars

(***************************************************************************)
(* pop returns exactly the accepted values, in their order, and the ring   *)
(* never holds more than Capacity - 1 of them (push and pop of             *)
(* SPSCRingQueue).                                                         *)
(***************************************************************************)
Fifo ==
    /\ Len(popped) <= Len(accepted) /\ popped = SubSeq(accepted, 1, Len(popped))
    /\ Len(accepted) - Len(popped) < Capacity

\* Why: the indices are the numbers of values stored and taken, around the ring, and
\* the values between are in their cells; what a side has looked at only gets better.
Freed == IF consumer = "store" THEN Len(popped) - 1 ELSE Len(popped)

Inv ==
    /\ producer \in {"idle", "write", "store"} /\ consumer \in {"idle", "read", "store"}
    /\ pushed \in Nat /\ accepted \in Seq(Nat) /\ popped \in Seq(Nat)
    /\ buffer \in [0..(Capacity - 1) -> Nat]
    /\ Freed \in 0..Len(accepted) /\ Len(accepted) < Freed + Capacity
    /\ head = Freed % Capacity /\ tail = Len(accepted) % Capacity
    /\ producer # "idle" => Len(accepted) + 1 < Freed + Capacity
    /\ consumer # "idle" => Freed < Len(accepted)
    /\ producer = "store" => buffer[tail] = pushed
    /\ \A i \in Freed..(Len(accepted) - 1) : buffer[i % Capacity] = accepted[i + 1]
    /\ \A i \in 1..Len(popped) : popped[i] = accepted[i]
=============================================================================
