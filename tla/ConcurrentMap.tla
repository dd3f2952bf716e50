--------------------------- MODULE ConcurrentMap ---------------------------
(***************************************************************************)
(* ConcurrentMap and ShardedMap (foundation/container/ConcurrentMap.h).    *)
(* Each operation is one step under the shared mutex of its map, except    *)
(* getOrInsert, which looks under the shared lock, lets go of it and looks *)
(* again under the exclusive one.                                          *)
(***************************************************************************)
EXTENDS Integers, FiniteSets

CONSTANTS Keys, Threads,
          Shards,       \* 0..ShardCount-1
          MaxCalls,     \* bound: calls of each thread
          NoValue

VARIABLES shard,      \* the map of each shard: key to value
          hash,       \* std::hash % ShardCount, fixed for a behaviour
          call,       \* where the getOrInsert of each thread stands
          calls,
          made,       \* values made by factories, and by insert
          result,     \* the last value each thread got, and for which key
          erased      \* keys whose entry was removed or replaced meanwhile

vars == <<shard, hash, call, calls, made, result, erased>>

Init ==
    /\ shard = [s \in Shards |-> [k \in Keys |-> NoValue]]
    /\ hash \in [Keys -> Shards]
    /\ call = [t \in Threads |-> NoValue]
    /\ calls = [t \in Threads |-> 0]
    /\ made = 0
    /\ result = [t \in Threads |-> <<NoValue, NoValue>>]
    /\ erased = {}

\* getShard
At(k) == shard[hash[k]][k]
With(k, v) == [shard EXCEPT ![hash[k]][k] = v]

MayCall(t) == call[t] = NoValue /\ calls[t] < MaxCalls
Called(t) == calls' = [calls EXCEPT ![t] = @ + 1]

Insert(t, k) ==
    /\ MayCall(t) /\ Called(t)
    /\ made' = made + 1
    /\ shard' = With(k, made')
    /\ erased' = erased \cup {k}
    /\ UNCHANGED <<hash, call, result>>

Erase(t, k) ==
    /\ MayCall(t) /\ Called(t)
    /\ shard' = With(k, NoValue)
    /\ erased' = erased \cup {k}
    /\ UNCHANGED <<hash, call, made, result>>

\* getOrInsert, under the shared lock: a key that is there is returned.
GetOrInsertLooks(t, k) ==
    /\ MayCall(t) /\ Called(t)
    /\ IF At(k) # NoValue
       THEN result' = [result EXCEPT ![t] = <<k, At(k)>>] /\ UNCHANGED call
       ELSE call' = [call EXCEPT ![t] = k] /\ UNCHANGED result
    /\ UNCHANGED <<shard, hash, made, erased>>

\* Mutant: the second look skipped: the factory's value replaces another thread's.
AlwaysMissing(k) == TRUE

Missing(k) == At(k) = NoValue

\* Under the exclusive lock: look again, then the factory.
GetOrInsertInserts(t) ==
    LET k == call[t] IN
    /\ k # NoValue
    /\ IF Missing(k)
       THEN made' = made + 1 /\ shard' = With(k, made')
       ELSE UNCHANGED <<made, shard>>
    /\ result' = [result EXCEPT ![t] = <<k, IF Missing(k) THEN made' ELSE At(k)>>]
    /\ call' = [call EXCEPT ![t] = NoValue]
    /\ UNCHANGED <<hash, calls, erased>>

Next == \E t \in Threads :
    \/ GetOrInsertInserts(t)
    \/ \E k \in Keys : Insert(t, k) \/ Erase(t, k) \/ GetOrInsertLooks(t, k)

Spec == Init /\ [][Next]_vars

(***************************************************************************)
(* getOrInsert is atomic: all its callers for a key that nobody removes or *)
(* replaces get the same value, and the map holds it ("获取或插入（原子操  *)
(* 作）" of ConcurrentMap.h), though the lock is let go of in between; and *)
(* a key is only ever in the shard of its hash.                            *)
(***************************************************************************)
GetOrInsertAtomic ==
    /\ \A t \in Threads : result[t][1] \in Keys \ erased => result[t][2] = At(result[t][1])
    /\ \A k \in Keys : \A s \in Shards \ {hash[k]} : shard[s][k] = NoValue

\* Why: a caller never gets the missing value, so that the value of a key which
\* some caller has got is not missing, and only a missing one is replaced.
Found == \A t \in Threads : result[t][1] \in Keys => result[t][2] # NoValue

Inv ==
    /\ shard \in [Shards -> [Keys -> Nat \cup {NoValue}]] /\ hash \in [Keys -> Shards]
    /\ call \in [Threads -> Keys \cup {NoValue}]
    /\ made \in Nat
    /\ result \in [Threads -> (Keys \cup {NoValue}) \X (Nat \cup {NoValue})]
    /\ Found /\ GetOrInsertAtomic
=============================================================================
