----------------------------- MODULE StringPool -----------------------------
(***************************************************************************)
(* StringPool and InternedString (foundation/string/StringPool.h and       *)
(* .cpp).  The pool is a node-based set of strings: an element keeps its   *)
(* address until clear.  InternedString compares addresses; addresses are  *)
(* used again after clear.                                                 *)
(***************************************************************************)
EXTENDS Integers, FiniteSets

CONSTANTS Strings, Holders, MaxGenerations    \* bound: calls of clear

VARIABLES pool,      \* the address of each string of the pool
          view,      \* what each InternedString points to, and since when
          generation

vars == <<pool, view, generation>>

NoView == [string |-> "none", address |-> 0, since |-> 0]

Init == /\ pool = [s \in {} |-> 0] /\ generation = 1
        /\ view = [h \in Holders |-> NoView]

Free == (1..Cardinality(Strings)) \ {pool[s] : s \in DOMAIN pool}

\* Mutant: an element for every call.
AlwaysNew(s) == \E a \in Free : pool' = [t \in DOMAIN pool \cup {s} |-> IF t = s THEN a ELSE pool[t]]

\* pool_.insert: a string that is there keeps its element.
Inserted(s) ==
    IF s \in DOMAIN pool THEN pool' = pool
    ELSE \E a \in Free : pool' = [t \in DOMAIN pool \cup {s} |-> IF t = s THEN a ELSE pool[t]]

Intern(h, s) ==
    /\ Inserted(s)
    /\ view' = [view EXCEPT ![h] = [string |-> s, address |-> pool'[s], since |-> generation]]
    /\ UNCHANGED generation

Clear ==
    /\ generation < MaxGenerations
    /\ pool' = [s \in {} |-> 0] /\ generation' = generation + 1
    /\ UNCHANGED view

Next == Clear \/ \E h \in Holders, s \in Strings : Intern(h, s)

Spec == Init /\ [][Next]_vars

Valid(h) == view[h].since = generation

(***************************************************************************)
(* Two interned strings of the same pool are equal as addresses exactly if *)
(* they are equal as strings, as long as the pool was not cleared since    *)
(* either was made, and a valid one still points to its string             *)
(* (InternedString::operator==, StringPool::intern and clear).             *)
(***************************************************************************)
AddressIsIdentity ==
    \A h, k \in Holders : Valid(h) /\ Valid(k) =>
        /\ view[h].address = view[k].address <=> view[h].string = view[k].string
        /\ pool[view[h].string] = view[h].address

\* Why: a string keeps its address while it is in the pool, and no other has it.
Inv ==
    /\ generation \in Nat \ {0}
    /\ \A s, t \in DOMAIN pool : pool[s] = pool[t] => s = t
    /\ DOMAIN view = Holders
    /\ \A h \in Holders : /\ view[h].since \in 0..generation
                          /\ Valid(h) => /\ view[h].string \in DOMAIN pool
                                         /\ pool[view[h].string] = view[h].address
=============================================================================
