---------------------------- MODULE BloomFilter ----------------------------
(***************************************************************************)
(* BloomFilter (foundation/algorithm/BloomFilter.h and .cpp), and two of   *)
(* them merged.  The two hash functions are constants of the model: any    *)
(* pair of numbers for each element.  The index is a sum and a product of  *)
(* 64 bits taken modulo the number of bits.                                *)
(***************************************************************************)
EXTENDS Integers

CONSTANTS Elements, Filters,
          BitCount, HashCount,    \* the parameters of the filters
          HashRange,              \* 2^64: where h1 + i * h2 wraps
          MaxAdds                 \* bound: elements added

VARIABLES h1, h2,     \* doubleHash, fixed for a behaviour
          bits, count,
          added       \* reference: what each filter was given

vars == <<h1, h2, bits, count, added>>

Init ==
    /\ h1 \in [Elements -> 0..(HashRange - 1)]
    /\ h2 \in [Elements -> 0..(HashRange - 1)]
    /\ bits = [f \in Filters |-> {}]
    /\ count = [f \in Filters |-> 0]
    /\ added = [f \in Filters |-> {}]

\* (h1 + i * h2) % bits_.size()
Index(x, i) == ((h1[x] + i * h2[x]) % HashRange) % BitCount
Indices(x) == {Index(x, i) : i \in 0..(HashCount - 1)}

Add(f, x) ==
    /\ count[f] < MaxAdds
    /\ bits' = [bits EXCEPT ![f] = @ \cup Indices(x)]
    /\ count' = [count EXCEPT ![f] = @ + 1]
    /\ added' = [added EXCEPT ![f] = @ \cup {x}]
    /\ UNCHANGED <<h1, h2>>

Clear(f) ==
    /\ bits' = [bits EXCEPT ![f] = {}]
    /\ count' = [count EXCEPT ![f] = 0]
    /\ added' = [added EXCEPT ![f] = {}]
    /\ UNCHANGED <<h1, h2>>

\* Mutant: a merge that only keeps what both filters have.
CommonBits(f, g) == bits[f] \cap bits[g]

MergedBits(f, g) == bits[f] \cup bits[g]

Merge(f, g) ==
    /\ count[f] + count[g] <= MaxAdds
    /\ bits' = [bits EXCEPT ![f] = MergedBits(f, g)]
    /\ count' = [count EXCEPT ![f] = @ + count[g]]
    /\ added' = [added EXCEPT ![f] = @ \cup added[g]]
    /\ UNCHANGED <<h1, h2>>

Next == \E f \in Filters :
    \/ Clear(f)
    \/ \E x \in Elements : Add(f, x)
    \/ \E g \in Filters : Merge(f, g)

Spec == Init /\ [][Next]_vars

MightContain(f, x) == Indices(x) \subseteq bits[f]

(***************************************************************************)
(* No false negative: what was added to a filter, or to one merged into    *)
(* it, is always reported as possibly there, whatever the hash functions   *)
(* are (BloomFilter::add, mightContain, merge, clear).                     *)
(***************************************************************************)
NoFalseNegative == \A f \in Filters : \A x \in added[f] : MightContain(f, x)

\* Why: bits are only cleared together with what was added.
Inv ==
    /\ DOMAIN bits = Filters /\ DOMAIN added = Filters
    /\ NoFalseNegative
=============================================================================
