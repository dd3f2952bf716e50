------------------------------- MODULE BitSet -------------------------------
(***************************************************************************)
(* BitSet (foundation/container/BitSet.h and .cpp): bits in words of Width *)
(* bits (64 in the code).  A word is the set of the positions of its one   *)
(* bits, so that |, & and ^ of words are operations on sets.  members is   *)
(* the reference: the set of the positions that are set.                   *)
(***************************************************************************)
EXTENDS Integers, Sequences, FiniteSets, FiniteSetsExt

CONSTANTS Width, MaxSize    \* bits of a word; bound: size of the bit set

VARIABLES size, bits, members

vars == <<size, bits, members>>

Word == 0..(Width - 1)
Words(n) == (n + Width - 1) \div Width

\* BitSet(n): all bits clear.
Blank(n) == [w \in 1..Words(n) |-> {}]

Init ==
    /\ size \in 0..MaxSize
    /\ bits = Blank(size)
    /\ members = {}

WordOf(pos) == pos \div Width + 1
BitOf(pos) == pos % Width

\* Mutant: nothing is cleared behind the last bit.
KeepUnusedBits(b, n) == b

\* Only the last word can have bits beyond the size.
ClearUnusedBits(b, n) ==
    IF n % Width # 0 /\ b # <<>>
    THEN [b EXCEPT ![Len(b)] = @ \cap 0..((n % Width) - 1)]
    ELSE b

Set(pos, value) ==
    /\ pos < size
    /\ bits' = [bits EXCEPT ![WordOf(pos)] =
                   IF value THEN @ \cup {BitOf(pos)} ELSE @ \ {BitOf(pos)}]
    /\ members' = IF value THEN members \cup {pos} ELSE members \ {pos}
    /\ UNCHANGED size

Flip(pos) ==
    /\ pos < size
    /\ bits' = [bits EXCEPT ![WordOf(pos)] = SymDiff(@, {BitOf(pos)})]
    /\ members' = SymDiff(members, {pos})
    /\ UNCHANGED size

FlipAll ==
    /\ bits' = ClearUnusedBits([w \in DOMAIN bits |-> Word \ bits[w]], size)
    /\ members' = 0..(size - 1) \ members
    /\ UNCHANGED size

SetAll ==
    /\ bits' = ClearUnusedBits([w \in DOMAIN bits |-> Word], size)
    /\ members' = 0..(size - 1)
    /\ UNCHANGED size

Reset ==
    /\ bits' = [w \in DOMAIN bits |-> {}]
    /\ members' = {}
    /\ UNCHANGED size

Resize(n) ==
    /\ size' = n
    /\ bits' = ClearUnusedBits(
                 [w \in 1..Words(n) |-> IF w \in DOMAIN bits THEN bits[w] ELSE {}], n)
    /\ members' = members \cap 0..(n - 1)

Next ==
    \/ \E pos \in 0..(MaxSize - 1) : Flip(pos) \/ \E v \in BOOLEAN : Set(pos, v)
    \/ FlipAll \/ SetAll \/ Reset \/ \E n \in 0..MaxSize : Resize(n)

Spec == Init /\ [][Next]_vars

Get(pos) == BitOf(pos) \in bits[WordOf(pos)]
\* The one bits of all words, each with its word.
Ones == {p \in (DOMAIN bits) \X Word : p[2] \in bits[p[1]]}
Count == Cardinality(Ones)
Any == \E w \in DOMAIN bits : bits[w] # {}
All == Count = size
FindFirst ==
    LET used == {w \in DOMAIN bits : bits[w] # {}}
        pos == (Min(used) - 1) * Width + Min(bits[Min(used)])
    IN  IF used = {} \/ pos >= size THEN size ELSE pos

\* operator& and operator| and operator^ with a bit set of n bits and words b.
WordAt(b, w) == IF w \in DOMAIN b THEN b[w] ELSE {}
Joined(n, b, Op(_, _)) ==
    [w \in 1..Words(IF n > size THEN n ELSE size) |-> Op(WordAt(bits, w), WordAt(b, w))]
Positions(b) == UNION {{(w - 1) * Width + i : i \in b[w]} : w \in DOMAIN b}

\* Another bit set of n bits: its even positions.
Other(n) == [w \in 1..Words(n) |->
               {i \in Word : (w - 1) * Width + i < n /\ ((w - 1) * Width + i) % 2 = 0}]

(***************************************************************************)
(* Through any sequence of set, flip, fill, shrink and grow the bit set is *)
(* the set of positions it stands for, by each observer and each operator  *)
(* with a bit set of another size; no bit beyond the size comes back to    *)
(* life after a shrink and a grow (BitSet).                                *)
(***************************************************************************)
IsASet ==
    /\ {p \in 0..(size - 1) : Get(p)} = members
    /\ Count = Cardinality(members) /\ (Any <=> members # {})
    /\ (All <=> members = 0..(size - 1))
    /\ FindFirst = IF members = {} THEN size ELSE Min(members)
    /\ \A n \in 0..MaxSize :
         LET evens == {p \in 0..(n - 1) : p % 2 = 0} IN
         /\ Positions(Joined(n, Other(n), \cap)) = members \cap evens
         /\ Positions(Joined(n, Other(n), \cup)) = members \cup evens
         /\ Positions(Joined(n, Other(n), SymDiff)) = SymDiff(members, evens)

\* Why: a bit is one exactly if the position it stands for is a member, also in
\* the part of the last word that no position below the size stands for.
Inv ==
    /\ size \in 0..MaxSize
    /\ bits \in [1..Words(size) -> SUBSET Word]
    /\ members \subseteq 0..(size - 1)
    /\ \A w \in 1..Words(size), i \in Word : i \in bits[w] <=> (w - 1) * Width + i \in members
=============================================================================
