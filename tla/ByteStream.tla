----------------------------- MODULE ByteStream -----------------------------
(***************************************************************************)
(* What a send buffer promises its owner: a bounded FIFO of bytes.  A      *)
(* write is taken whole exactly when it is not empty and fits, and what is *)
(* handed to the socket is always a prefix of what is pending.             *)
(***************************************************************************)
EXTENDS Naturals, Sequences

CONSTANTS Bytes,     \* the byte values
          MaxBytes,  \* the most bytes that may be pending
          MaxWrite   \* bound of the model on the size of one write

VARIABLES pending,   \* bytes accepted and not yet handed to the socket
          out,       \* the bytes the last transmission handed over
          accepted   \* whether the last write was taken

vars == <<pending, out, accepted>>

Chunks == UNION {[1..n -> Bytes] : n \in 0..MaxWrite}

Init == pending = <<>> /\ out = <<>> /\ accepted = FALSE

Write(data) ==
  \/ /\ data # <<>>
     /\ Len(pending) + Len(data) <= MaxBytes
     /\ pending' = pending \o data
     /\ accepted' = TRUE
     /\ out' = <<>>
  \/ /\ data = <<>> \/ Len(pending) + Len(data) > MaxBytes
     /\ accepted' = FALSE
     /\ out' = <<>>
     /\ UNCHANGED pending

Transmit(n) == /\ out' = SubSeq(pending, 1, n)
               /\ pending' = SubSeq(pending, n + 1, Len(pending))
               /\ UNCHANGED accepted

\* A transmission attempt that hands nothing over.
Blocked == out' = <<>> /\ UNCHANGED <<pending, accepted>>

Discard == pending' = <<>> /\ out' = <<>> /\ UNCHANGED accepted

Next == \/ \E data \in Chunks : Write(data)
        \/ \E n \in 1..Len(pending) : Transmit(n)
        \/ Blocked
        \/ Discard

Spec == Init /\ [][Next]_vars
=============================================================================
