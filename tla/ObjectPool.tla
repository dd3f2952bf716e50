----------------------------- MODULE ObjectPool -----------------------------
(***************************************************************************)
(* ObjectPool and its PooledObject (foundation/container/ObjectPool.h): a  *)
(* stack of idle objects, handles that give their object back when they    *)
(* are destroyed or overwritten, and release(), by which an object leaves  *)
(* the pool for good.  The operations are those of one thread.             *)
(***************************************************************************)
EXTENDS Integers, Sequences, FiniteSets, Functions

CONSTANTS Handles, MaxSize,    \* maxSize_, 0 for no limit
          InitialSize,
          MaxObjects           \* bound: objects ever created

VARIABLES pool, createdCount,
          object,     \* the object of each handle, 0 for none
          bound,      \* handles whose pool_ is set
          dirty,      \* objects used since they were reset
          made,       \* objects ever created
          escaped     \* objects taken out by release()

vars == <<pool, createdCount, object, bound, dirty, made, escaped>>

Init ==
    /\ pool = [i \in 1..InitialSize |-> i]
    /\ createdCount = InitialSize /\ made = InitialSize
    /\ object = [h \in Handles |-> 0] /\ bound = {}
    /\ dirty = {} /\ escaped = {}

\* The object of a handle that is destroyed or assigned to goes back, reset.
Returned(h) == IF object[h] # 0 /\ h \in bound THEN <<object[h]>> ELSE <<>>
\* Mutant: a pool that puts an object back as it is.
KeepDirty(h) == dirty

Cleaned(h) == dirty \ Range(Returned(h))

\* acquire into handle h: an idle object, else a new one below the limit,
\* else an empty handle.  The value the handle had before is destroyed after.
MayCreate == MaxSize = 0 \/ createdCount < MaxSize

Holds(h, o, b, rest) ==
    /\ object' = [object EXCEPT ![h] = o]
    /\ bound' = IF b THEN bound \cup {h} ELSE bound \ {h}
    /\ dirty' = IF o = 0 THEN Cleaned(h) ELSE Cleaned(h) \cup {o}
    /\ pool' = rest \o Returned(h)

AcquireIdle(h) ==
    /\ pool # <<>>
    /\ Holds(h, pool[Len(pool)], TRUE, SubSeq(pool, 1, Len(pool) - 1))
    /\ UNCHANGED <<createdCount, made, escaped>>

AcquireNew(h) ==
    /\ pool = <<>> /\ MayCreate /\ made < MaxObjects
    /\ made' = made + 1 /\ createdCount' = createdCount + 1
    /\ Holds(h, made', TRUE, pool)
    /\ UNCHANGED escaped

\* acquire at the limit, tryAcquire without an idle object, or the end of h.
AcquireNothing(h) ==
    /\ pool = <<>>
    /\ Holds(h, 0, FALSE, pool)
    /\ UNCHANGED <<createdCount, made, escaped>>

Destroy(h) ==
    /\ Holds(h, 0, FALSE, pool)
    /\ UNCHANGED <<createdCount, made, escaped>>

\* h = std::move(g): h gives its own object back and takes over g's.
MoveAssign(h, g) ==
    /\ h # g
    /\ pool' = pool \o Returned(h)
    /\ dirty' = Cleaned(h)
    /\ object' = [object EXCEPT ![h] = object[g], ![g] = 0]
    /\ bound' = (bound \ {h, g}) \cup (IF g \in bound THEN {h} ELSE {})
    /\ UNCHANGED <<createdCount, made, escaped>>

\* PooledObject::release: the caller owns the object; the pool's count stays.
Release(h) ==
    /\ object[h] # 0
    /\ escaped' = escaped \cup {object[h]}
    /\ object' = [object EXCEPT ![h] = 0]
    /\ bound' = bound \ {h}
    /\ UNCHANGED <<pool, createdCount, dirty, made>>

Clear ==
    /\ createdCount' = createdCount - Len(pool)
    /\ pool' = <<>>
    /\ UNCHANGED <<object, bound, dirty, made, escaped>>

WarmUp(n) ==
    LET want == n - Len(pool)
        may == IF MaxSize = 0 THEN want ELSE MaxSize - createdCount
        k == IF want < may THEN want ELSE may
    IN  /\ k > 0 /\ made + k <= MaxObjects
        /\ pool' = pool \o [i \in 1..k |-> made + i]
        /\ made' = made + k /\ createdCount' = createdCount + k
        /\ UNCHANGED <<object, bound, dirty, escaped>>

Next ==
    \/ \E h \in Handles : AcquireIdle(h) \/ AcquireNew(h) \/ AcquireNothing(h)
                          \/ Destroy(h) \/ Release(h) \/ \E g \in Handles : MoveAssign(h, g)
    \/ Clear \/ \E n \in 1..MaxObjects : WarmUp(n)

Spec == Init /\ [][Next]_vars

Held == {h \in Handles : object[h] # 0}

(***************************************************************************)
(* No object is in two places, idle objects are reset, and the count of    *)
(* created objects is the idle, the borrowed and the escaped ones, so that *)
(* the limit holds for all of them together, or what the constructor made  *)
(* without regard to it (PooledObject's destructor and move assignment,    *)
(* acquire, release, clear, warmUp).                                       *)
(***************************************************************************)
PoolConserves ==
    /\ IsInjective(pool) /\ Range(pool) \cap dirty = {}
    /\ \A h \in Held : h \in bound /\ object[h] \notin Range(pool) \cup escaped
                       /\ \A g \in Held : object[g] = object[h] => g = h
    /\ createdCount = Len(pool) + Cardinality(Held) + Cardinality(escaped)
    /\ MaxSize > 0 => createdCount <= MaxSize \/ createdCount <= InitialSize

\* Why: objects are numbered as they are made, and every one known was made.
Inv ==
    /\ made \in Nat /\ createdCount \in Int
    /\ pool \in Seq(Nat) /\ Range(pool) \subseteq 1..made /\ object \in [Handles -> 0..made]
    /\ dirty \subseteq 1..made /\ escaped \subseteq 1..made
    /\ bound = Held /\ Range(pool) \cap escaped = {}
    /\ PoolConserves
=============================================================================
