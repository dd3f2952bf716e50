----------------------------- MODULE MemoryPool -----------------------------
(***************************************************************************)
(* MemoryPool (foundation/memory/MemoryAllocator.h and .cpp): one list of  *)
(* free blocks per size class, filled a chunk at a time.  A block is       *)
(* <<class, number>>; a caller gives a block back with the size it asked   *)
(* for.  Larger sizes go to operator new.  The index of size 0 wraps below *)
(* the array: the word there, taken to be null at first, becomes the head  *)
(* of one more list, of one block of 0 bytes that is its own successor.    *)
(***************************************************************************)
EXTENDS Integers, Sequences, FiniteSets, Functions

CONSTANTS ALIGN, MAX_BLOCK,
          ChunkBlocks,    \* blocks of a chunk, 10 in refill
          MaxBlocks,      \* bound: blocks of a class
          MaxLive         \* bound: blocks in use

VARIABLES free_lists, made,    \* made: blocks a class has had so far
          live,                \* blocks in use, with the size asked for
          sharing              \* callers that hold the block of 0 bytes

vars == <<free_lists, made, live, sharing>>

Classes == 0..(MAX_BLOCK \div ALIGN) - 1

Init == /\ free_lists = [c \in Classes |-> <<>>]
        /\ made = [c \in Classes |-> 0]
        /\ live = {} /\ sharing = 0

\* Mutant: rounding down, a size that is no multiple gets a block too small.
IndexDown(size) == IF size < ALIGN THEN 0 ELSE size \div ALIGN - 1

Index(size) == (size + ALIGN - 1) \div ALIGN - 1

\* refill: the chunk's last block ends up first.
Refilled(c) == [n \in 1..ChunkBlocks |-> <<c, made[c] + ChunkBlocks + 1 - n>>]

Allocate(size) ==
    /\ size <= MAX_BLOCK /\ Cardinality(live) < MaxLive
    /\ LET c == Index(size)
           list == IF free_lists[c] = <<>> THEN Refilled(c) ELSE free_lists[c]
       IN /\ free_lists[c] = <<>> => made[c] + ChunkBlocks <= MaxBlocks
          /\ made' = IF free_lists[c] = <<>> THEN [made EXCEPT ![c] = @ + ChunkBlocks] ELSE made
          /\ live' = live \cup {[block |-> Head(list), size |-> size]}
          /\ free_lists' = [free_lists EXCEPT ![c] = Tail(list)]
    /\ UNCHANGED sharing

Deallocate(b) ==
    /\ live' = live \ {b}
    /\ free_lists' = [free_lists EXCEPT ![Index(b.size)] = <<b.block>> \o @]
    /\ UNCHANGED <<made, sharing>>

\* allocate(0) and deallocate(p, 0): every caller gets the same block.
AllocateZero ==
    /\ sharing < MaxLive /\ sharing' = sharing + 1
    /\ UNCHANGED <<free_lists, made, live>>

DeallocateZero ==
    /\ sharing > 0 /\ sharing' = sharing - 1
    /\ UNCHANGED <<free_lists, made, live>>

Next == \/ \E size \in 1..MAX_BLOCK : Allocate(size)
        \/ \E b \in live : Deallocate(b)
        \/ AllocateZero \/ DeallocateZero

Spec == Init /\ [][Next]_vars

(***************************************************************************)
(* Every block that was made is in one place, in use once or free once,    *)
(* and a block in use is as large as its owner asked for, for all orders   *)
(* of allocate and deallocate with sizes that share a class.  Only callers *)
(* that asked for 0 bytes share a block (sharing), which is of no class.   *)
(***************************************************************************)
BlocksDisjoint ==
    /\ \A c \in Classes :
         /\ IsInjective(free_lists[c])
         /\ Range(free_lists[c]) \cap {b.block : b \in live} = {}
         /\ Len(free_lists[c]) + Cardinality({b \in live : b.block[1] = c}) = made[c]
         /\ \A i \in DOMAIN free_lists[c] : free_lists[c][i][1] = c
    /\ \A b, d \in live : b.block = d.block => b = d
    /\ \A b \in live : (b.block[1] + 1) * ALIGN >= b.size

\* Why: blocks are numbered as they are made, and the size a block is given back
\* with finds the list it came from.
Inv ==
    /\ made \in [Classes -> Nat]
    /\ \A c \in Classes : free_lists[c] \in Seq({c} \X (1..made[c]))
    /\ DOMAIN free_lists = Classes
    /\ live \subseteq [block : Classes \X Nat, size : 1..MAX_BLOCK] /\ IsFiniteSet(live)
    /\ \A b \in live : /\ b.block[1] = Index(b.size)
                        /\ b.block[2] \in 1..made[Index(b.size)]
    /\ BlocksDisjoint
=============================================================================
