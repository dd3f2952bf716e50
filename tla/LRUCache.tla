------------------------------ MODULE LRUCache ------------------------------
(***************************************************************************)
(* LRUCache and ThreadSafeLRUCache (foundation/container/LRUCache.h): a    *)
(* list in order of use and a map from keys to places in the list.  The    *)
(* thread-safe class runs each operation under one mutex, so an operation  *)
(* is one step.  lastUse is the reference: when each key was last used.    *)
(***************************************************************************)
EXTENDS Integers, Sequences, FiniteSets

CONSTANTS Keys, Values,
          Capacities,    \* the capacities resize may set
          MaxUses        \* bound: uses of keys

VARIABLES capacity,
          list,       \* list_: pairs of key and value, most recent first
          map,        \* the keys of map_
          uses, lastUse, contents    \* reference: clock, time of use, value

vars == <<capacity, list, map, uses, lastUse, contents>>

Init ==
    /\ capacity \in Capacities
    /\ list = <<>> /\ map = {}
    /\ uses = 0
    /\ lastUse = [k \in Keys |-> 0]
    /\ contents \in [Keys -> Values]

Place(k) == CHOOSE i \in DOMAIN list : list[i][1] = k

\* list_.erase, and list_.splice to the front.
Without(i) == SubSeq(list, 1, i - 1) \o SubSeq(list, i + 1, Len(list))
ToFront(i, pair) == <<pair>> \o Without(i)

Use(k) ==
    /\ uses < MaxUses
    /\ uses' = uses + 1
    /\ lastUse' = [lastUse EXCEPT ![k] = uses']

\* get and at, on a key that is there; one that is not changes nothing.
Get(k) ==
    /\ k \in map /\ Use(k)
    /\ list' = ToFront(Place(k), list[Place(k)])
    /\ UNCHANGED <<capacity, map, contents>>

KeysOf(l) == {l[i][1] : i \in DOMAIN l}

\* evict, n times: the back of the list goes, and its key from the map.
Surplus(n) == {list[i][1] : i \in {j \in DOMAIN list : j > Len(list) - n}}
Evicted(n) == SubSeq(list, 1, IF n < Len(list) THEN Len(list) - n ELSE 0)

\* Mutant: evicting one entry too late.
EvictWhenOver == Cardinality(map) > capacity

MustEvict == Cardinality(map) >= capacity

Insert(k, v) ==
    LET n == IF MustEvict THEN 1 ELSE 0 IN
    /\ list' = <<<<k, v>>>> \o Evicted(n)
    /\ map' = (map \ Surplus(n)) \cup {k}

Put(k, v) ==
    /\ Use(k)
    /\ IF k \in map
       THEN list' = ToFront(Place(k), <<k, v>>) /\ UNCHANGED map
       ELSE Insert(k, v)
    /\ contents' = [contents EXCEPT ![k] = v]
    /\ UNCHANGED capacity

\* getOrInsert: an entry that is there keeps its value.
GetOrInsert(k, v) ==
    /\ k \notin map /\ Use(k)
    /\ Insert(k, v)
    /\ contents' = [contents EXCEPT ![k] = v]
    /\ UNCHANGED capacity

Erase(k) ==
    /\ k \in map
    /\ list' = Without(Place(k))
    /\ map' = map \ {k}
    /\ UNCHANGED <<capacity, uses, lastUse, contents>>

Clear ==
    /\ list' = <<>> /\ map' = {}
    /\ UNCHANGED <<capacity, uses, lastUse, contents>>

Resize(n) ==
    LET over == IF Cardinality(map) > n THEN Cardinality(map) - n ELSE 0 IN
    /\ capacity' = n
    /\ list' = Evicted(over)
    /\ map' = map \ Surplus(over)
    /\ UNCHANGED <<uses, lastUse, contents>>

Next ==
    \/ \E k \in Keys : Get(k) \/ Erase(k) \/ \E v \in Values : Put(k, v) \/ GetOrInsert(k, v)
    \/ Clear \/ \E n \in Capacities : Resize(n)

Spec == Init /\ [][Next]_vars

(***************************************************************************)
(* The map and the list agree, each key has the value last put, the        *)
(* capacity is never exceeded, and the list is in the order of last use,   *)
(* so that it is the least recently used entry that leaves (LRUCache::get, *)
(* put, getOrInsert, erase, resize, evict).                                *)
(***************************************************************************)
LeastRecentLeaves ==
    /\ Len(list) <= capacity /\ KeysOf(list) = map /\ Cardinality(map) = Len(list)
    /\ \A i, j \in DOMAIN list : i < j => lastUse[list[i][1]] > lastUse[list[j][1]]
    /\ \A i \in DOMAIN list : list[i][2] = contents[list[i][1]]

\* Why: no key was used after now, so that the one used now goes to the front.
Inv ==
    /\ capacity \in Capacities /\ uses \in Nat
    /\ list \in Seq(Keys \X Values)
    /\ lastUse \in [Keys -> Nat] /\ \A k \in Keys : lastUse[k] <= uses
    /\ contents \in [Keys -> Values]
    /\ LeastRecentLeaves
=============================================================================
