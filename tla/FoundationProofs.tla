-------------------------- MODULE FoundationProofs --------------------------
(***************************************************************************)
(* Proofs about the parts of darwincore::foundation that threads share and *)
(* about its containers and pools, for every number of threads, cells,     *)
(* keys, entries and so on and for every capacity.  Each part has its      *)
(* inductive invariant, Inv, in its own module; here one lemma for each    *)
(* action shows that the action preserves it.                              *)
(***************************************************************************)
EXTENDS FoundationParts, TLAPS, FiniteSetTheorems, SequenceTheorems,
        WellFoundedInduction

-----------------------------------------------------------------------------
(* Throttle.  s1 clock, s2 event, s3 caller, s5 round, s9 armedAt, s10 early. *)

LEMMA ThrottleStart == Throttles!Init => Throttles!Inv
<1> SUFFICES ASSUME Throttles!Init PROVE Throttles!Inv OBVIOUS
<1>1. \A e \in Events : s2[e] = Throttles!NoEvent BY DEF Throttles!Init
<1>2. s2 \in [Events -> Throttles!Items] BY DEF Throttles!Init, Throttles!Items
<1> QED BY <1>1, <1>2 DEF Throttles!Init, Throttles!Inv, Throttles!NeverEarly, Throttles!NoEvent

LEMMA ThrottleSubmit ==
  ASSUME Throttles!Inv, NEW c \in Callers, NEW e \in Events, Throttles!Submit(c, e)
  PROVE  Throttles!Inv'
<1> USE DEF Throttles!Inv, Throttles!Submit
<1>1. CASE Throttles!Registered(e) /\ s2[e].next_call_time = 0
  <2>1. s2[e] \in [interval : Intervals, next_call_time : Nat]
    BY <1>1 DEF Throttles!Registered, Throttles!Items
  <2>2. PICK t \in Nat : t = s3[c] + s2[e].interval /\ t > 0
    <3>1. s3[c] \in Nat \ {0} OBVIOUS
    <3>2. s2[e].interval \in Nat BY <2>1, ThreadsAssumption
    <3> QED BY <3>1, <3>2
  <2>3. s2' = [s2 EXCEPT ![e].next_call_time = t] BY <1>1, <2>2 DEF Throttles!Arm
  <2>4. s2'[e] = [s2[e] EXCEPT !.next_call_time = t] BY <2>3
  <2>5. s2'[e].next_call_time = t /\ s2'[e].interval = s2[e].interval BY <2>1, <2>4
  <2>6. s2' # s2 BY <1>1, <2>2, <2>5
  <2>7. s9' = [s9 EXCEPT ![e] = s3[c]] BY <2>6
  <2>8. s2'[e] \in [interval : Intervals, next_call_time : Nat] BY <2>1, <2>2, <2>4
  <2>9. s2' \in [Events -> Throttles!Items] BY <2>3, <2>8 DEF Throttles!Items
  <2> QED BY <2>2, <2>3, <2>5, <2>7, <2>9 DEF Throttles!NeverEarly
<1>2. CASE ~(Throttles!Registered(e) /\ s2[e].next_call_time = 0)
  <2>1. s2' = s2 BY <1>2 DEF Throttles!Arm
  <2> QED BY <2>1 DEF Throttles!NeverEarly, Throttles!Items
<1> QED BY <1>1, <1>2

LEMMA ThrottleVisit ==
  ASSUME Throttles!Inv, NEW e \in Events, Throttles!RunVisits(e)
  PROVE  Throttles!Inv'
<1> USE DEF Throttles!Inv, Throttles!RunVisits
<1>1. CASE Throttles!Due(e)
  <2>1. s2[e].next_call_time = s9[e] + s2[e].interval /\ s5 >= s2[e].next_call_time
    BY <1>1 DEF Throttles!Due
  <2>2. s2[e] \in Throttles!Items OBVIOUS
  <2>3. s2[e] \in [interval : Intervals, next_call_time : Nat]
    BY <1>1, <2>2 DEF Throttles!Items, Throttles!Due, Throttles!NoEvent
  <2>4. s2[e].next_call_time \in Nat BY <2>3
  <2>5. ~(s1 < s9[e] + s2[e].interval) BY <2>1, <2>4
  <2>6. s10' = s10 BY <2>5
  <2>7. s2' = [s2 EXCEPT ![e].next_call_time = 0] BY <1>1
  <2>8. s2'[e] = [s2[e] EXCEPT !.next_call_time = 0] BY <2>7
  <2>9. s2'[e] \in [interval : Intervals, next_call_time : Nat] BY <2>3, <2>8
  <2>10. s2'[e].next_call_time = 0 BY <2>3, <2>8
  <2>11. s2' \in [Events -> Throttles!Items] BY <2>7, <2>9 DEF Throttles!Items
  <2>12. ASSUME NEW x \in Events, s2'[x].next_call_time > 0
         PROVE  s2'[x].next_call_time = s9'[x] + s2'[x].interval
    <3>1. x # e BY <2>10, <2>12
    <3>2. s2'[x] = s2[x] BY <2>7, <3>1
    <3> QED BY <2>12, <3>2
  <2> QED BY <2>6, <2>11, <2>12 DEF Throttles!NeverEarly
<1>2. CASE ~Throttles!Due(e)
  BY <1>2 DEF Throttles!NeverEarly, Throttles!Items
<1> QED BY <1>1, <1>2

LEMMA ThrottleRegister ==
  ASSUME Throttles!Inv, NEW e \in Events, Throttles!RegisterEvent(e)
  PROVE  Throttles!Inv'
<1> USE DEF Throttles!Inv, Throttles!RegisterEvent
<1>1. PICK n \in Intervals : s2' = [s2 EXCEPT ![e] = [interval |-> n, next_call_time |-> 0]]
  OBVIOUS
<1>2. s2' \in [Events -> Throttles!Items] BY <1>1 DEF Throttles!Items
<1>3. s2'[e].next_call_time = 0 BY <1>1
<1> QED BY <1>1, <1>2, <1>3 DEF Throttles!NeverEarly

LEMMA ThrottleStep ==
  ASSUME Throttles!Inv, Throttles!Next
  PROVE  Throttles!Inv'
<1> USE DEF Throttles!Inv, Throttles!NeverEarly, Throttles!Items
<1>1. ASSUME NEW e \in Events, Throttles!RegisterEvent(e) PROVE Throttles!Inv'
  BY <1>1, ThrottleRegister
<1>2. ASSUME NEW c \in Callers, Throttles!SubmitReadsClock(c) PROVE Throttles!Inv'
  BY <1>2 DEF Throttles!SubmitReadsClock
<1>3. ASSUME NEW c \in Callers, NEW e \in Events, Throttles!Submit(c, e) PROVE Throttles!Inv'
  BY <1>3, ThrottleSubmit
<1>4. CASE Throttles!RegisterEventCall BY <1>4 DEF Throttles!RegisterEventCall
<1>5. CASE Throttles!Run
  <2>1. CASE Throttles!RunReadsClock BY <2>1 DEF Throttles!RunReadsClock
  <2>2. ASSUME NEW e \in Events, Throttles!RunVisits(e) PROVE Throttles!Inv'
    BY <2>2, ThrottleVisit
  <2>3. CASE Throttles!RunSleeps BY <2>3 DEF Throttles!RunSleeps
  <2>4. CASE Throttles!RunLeaves BY <2>4 DEF Throttles!RunLeaves
  <2> QED BY <1>5, <2>1, <2>2, <2>3, <2>4 DEF Throttles!Run
<1>6. CASE Throttles!StopRunning BY <1>6 DEF Throttles!StopRunning
<1>7. CASE Throttles!Second BY <1>7 DEF Throttles!Second
<1>8. CASE Throttles!Constructor BY <1>8 DEF Throttles!Constructor
<1> QED BY <1>1, <1>2, <1>3, <1>4, <1>5, <1>6, <1>7, <1>8 DEF Throttles!Next

-----------------------------------------------------------------------------
(* ConcurrentMap.  s1 shard, s2 hash, s3 call, s5 made, s6 result, s7 erased. *)

LEMMA MapStart == Map!Init => Map!Inv
BY ThreadsAssumption DEF Map!Init, Map!Inv, Map!Found, Map!GetOrInsertAtomic

\* Writing a key changes the entry of that key in the shard of its hash.
LEMMA MapWith ==
  ASSUME Map!Inv, NEW k \in MapKeys, NEW v \in Nat \cup {None}, s1' = Map!With(k, v), s2' = s2
  PROVE  /\ s1' \in [MapShards -> [MapKeys -> Nat \cup {None}]]
         /\ Map!At(k)' = v
         /\ \A x \in MapKeys \ {k} : Map!At(x)' = Map!At(x)
         /\ \A x \in MapKeys : \A s \in MapShards \ {s2[x]} : s1'[s][x] = None
<1> USE DEF Map!Inv, Map!With, Map!At
<1>1. PICK h \in MapShards : h = s2[k] OBVIOUS
<1>2. s1' = [s1 EXCEPT ![h][k] = v] BY <1>1
<1>3. s1'[h] = [s1[h] EXCEPT ![k] = v] /\ \A s \in MapShards \ {h} : s1'[s] = s1[s] BY <1>2
<1>4. s1[h] \in [MapKeys -> Nat \cup {None}] OBVIOUS
<1>5. s1'[h][k] = v /\ \A x \in MapKeys \ {k} : s1'[h][x] = s1[h][x] BY <1>3, <1>4
<1>6. s1' \in [MapShards -> [MapKeys -> Nat \cup {None}]] BY <1>2, <1>4
<1>7. \A x \in MapKeys \ {k} : \A s \in MapShards : s1'[s][x] = s1[s][x] BY <1>3, <1>5
<1>8. ASSUME NEW x \in MapKeys, NEW s \in MapShards \ {s2[x]} PROVE s1'[s][x] = None
  <2>1. s1[s][x] = None BY DEF Map!GetOrInsertAtomic
  <2> QED BY <1>1, <1>3, <1>7, <2>1
<1> QED BY <1>1, <1>5, <1>6, <1>7, <1>8

LEMMA MapStep ==
  ASSUME Map!Inv, Map!Next
  PROVE  Map!Inv'
<1> USE DEF Map!Inv
<1>1. ASSUME NEW t \in MapThreads, NEW k \in MapKeys, Map!Insert(t, k) PROVE Map!Inv'
  <2>1. PICK v \in Nat : v = s5' /\ s1' = Map!With(k, v) /\ s2' = s2
    BY <1>1 DEF Map!Insert
  <2> QED BY <1>1, <2>1, MapWith DEF Map!Insert, Map!Found, Map!GetOrInsertAtomic
<1>2. ASSUME NEW t \in MapThreads, NEW k \in MapKeys, Map!Erase(t, k) PROVE Map!Inv'
  <2>1. PICK v \in Nat \cup {None} : v = None /\ s1' = Map!With(k, v) /\ s2' = s2
    BY <1>2 DEF Map!Erase
  <2> QED BY <1>2, <2>1, MapWith DEF Map!Erase, Map!Found, Map!GetOrInsertAtomic
<1>3. ASSUME NEW t \in MapThreads, NEW k \in MapKeys, Map!GetOrInsertLooks(t, k)
      PROVE  Map!Inv'
  <2>1. PICK v \in Nat \cup {None} : v = Map!At(k) BY DEF Map!At
  <2>2. /\ s1' = s1 /\ s2' = s2 /\ s5' = s5 /\ s7' = s7
        /\ \A x : Map!At(x)' = Map!At(x)
    BY <1>3 DEF Map!GetOrInsertLooks, Map!At
  <2>3. CASE v # None
    <3>1. s3' = s3 /\ s6' = [s6 EXCEPT ![t] = <<k, v>>]
      BY <1>3, <2>1, <2>3 DEF Map!GetOrInsertLooks
    <3> QED BY <2>1, <2>2, <2>3, <3>1 DEF Map!Found, Map!GetOrInsertAtomic
  <2>4. CASE v = None
    <3>1. s6' = s6 /\ s3' = [s3 EXCEPT ![t] = k] BY <1>3, <2>1, <2>4 DEF Map!GetOrInsertLooks
    <3> QED BY <2>2, <3>1 DEF Map!Found, Map!GetOrInsertAtomic
  <2> QED BY <2>3, <2>4
<1>4. ASSUME NEW t \in MapThreads, Map!GetOrInsertInserts(t) PROVE Map!Inv'
  <2>1. PICK k \in MapKeys : k = s3[t] BY <1>4 DEF Map!GetOrInsertInserts
  <2>2. CASE Map!Missing(k)
    <3>1. PICK v \in Nat : v = s5' /\ s1' = Map!With(k, v) /\ s2' = s2
      BY <1>4, <2>1, <2>2 DEF Map!GetOrInsertInserts
    <3>2. s6' = [s6 EXCEPT ![t] = <<k, v>>] /\ s7' = s7
      BY <1>4, <2>1, <2>2, <3>1 DEF Map!GetOrInsertInserts
    <3>3. v # None BY ThreadsAssumption
    <3>4. s6' \in [MapThreads -> (MapKeys \cup {None}) \X (Nat \cup {None})] BY <3>2
    <3>5. ASSUME NEW u \in MapThreads, NEW x \in MapKeys, x = s6'[u][1]
          PROVE  s6'[u][2] # None /\ (x \notin s7' => s6'[u][2] = Map!At(x)')
      <4>1. CASE u = t
        <5>1. x = k /\ s6'[u][2] = v BY <3>2, <3>5, <4>1
        <5> QED BY <3>1, <3>3, <5>1, MapWith
      <4>2. CASE u # t
        <5>1. s6'[u] = s6[u] BY <3>2, <4>2
        <5>2. s6[u][1] = x /\ s6[u][2] # None BY <3>5, <5>1 DEF Map!Found
        <5>3. ASSUME x \notin s7 PROVE s6[u][2] = Map!At(x)'
          <6>1. s6[u][2] = Map!At(x) BY <5>2, <5>3 DEF Map!GetOrInsertAtomic
          <6>2. x # k BY <2>2, <5>2, <6>1 DEF Map!Missing
          <6> QED BY <3>1, <6>1, <6>2, MapWith
        <5> QED BY <3>2, <5>1, <5>2, <5>3
      <4> QED BY <4>1, <4>2
    <3>6. Map!Found' BY <3>5 DEF Map!Found
    <3>7. Map!GetOrInsertAtomic'
      <4>1. \A x \in MapKeys : \A h \in MapShards \ {s2[x]} : s1'[h][x] = None BY <3>1, MapWith
      <4> QED BY <3>1, <3>2, <3>5, <4>1 DEF Map!GetOrInsertAtomic
    <3> QED BY <1>4, <3>1, <3>4, <3>6, <3>7, MapWith DEF Map!GetOrInsertInserts
  <2>3. CASE ~Map!Missing(k)
    <3>1. Map!At(k) \in Nat BY <2>3 DEF Map!At, Map!Missing
    <3>2. /\ s6' = [s6 EXCEPT ![t] = <<k, Map!At(k)>>]
          /\ s1' = s1 /\ s2' = s2 /\ s5' = s5 /\ s7' = s7 /\ s3' = [s3 EXCEPT ![t] = None]
      BY <1>4, <2>1, <2>3 DEF Map!GetOrInsertInserts
    <3>3. \A x \in MapKeys : Map!At(x)' = Map!At(x) BY <3>2 DEF Map!At
    <3>4. Map!At(k) # None BY <3>1, ThreadsAssumption
    <3> QED BY <3>1, <3>2, <3>3, <3>4 DEF Map!Found, Map!GetOrInsertAtomic
  <2> QED BY <2>2, <2>3
<1> QED BY <1>1, <1>2, <1>3, <1>4 DEF Map!Next

-----------------------------------------------------------------------------
(* ReadWriteLock and Semaphore.  s1 readers, s2 writers, s3 waitWriters,    *)
(* s4 count, s5 state.                                                      *)

Those(f, s) == {t \in LockThreads : f[t] = s}
Number(f, s) == Cardinality(Those(f, s))

\* From f to g one thread goes from state a to state b.
Moved(f, g, a, b) ==
  /\ Number(g, a) = Number(f, a) - 1 /\ Number(g, b) = Number(f, b) + 1
  /\ \A s \in RWLock!States \ {a, b} : Number(g, s) = Number(f, s)

LockStates == [LockThreads -> RWLock!States]

\* Inv in numbers.
Numbers(f, readers, writers, waiting, count) ==
  /\ Number(f, "writing") = writers /\ Number(f, "reading") = readers
  /\ Number(f, "asleep_writer") + Number(f, "woken_writer") = waiting
  /\ writers = 0 \/ (writers = 1 /\ readers = 0)
  /\ readers = 0 /\ writers = 0 /\ Number(f, "woken_writer") = 0
       => Number(f, "asleep_writer") = 0
  /\ writers = 0 /\ waiting = 0 => Number(f, "asleep_reader") = 0
  /\ Number(f, "asleep_semaphore") # 0 => count <= Number(f, "woken_semaphore")

\* The instance brings its own copy of the operator.
LEMMA SameCardinality == \A S : RWLock!Cardinality(S) = Cardinality(S)
BY DEF RWLock!Cardinality, Cardinality

LEMMA NumberOf ==
  ASSUME NEW f, NEW s
  PROVE  /\ IsFiniteSet(Those(f, s)) /\ Number(f, s) \in Nat
         /\ (Number(f, s) = 0) <=> (Those(f, s) = {})
<1>1. Those(f, s) \subseteq LockThreads BY DEF Those
<1>2. IsFiniteSet(Those(f, s)) BY <1>1, FS_Subset, ThreadsAssumption
<1> QED BY <1>2, FS_CardinalityType, FS_EmptySet DEF Number

LEMMA OneMoves ==
  ASSUME NEW f \in LockStates, NEW t \in LockThreads, NEW a, a = f[t],
         NEW b \in RWLock!States, a # b, NEW g, g = [f EXCEPT ![t] = b]
  PROVE  g \in LockStates /\ Moved(f, g, a, b)
<1>1. g \in LockStates /\ g[t] = b /\ \A u \in LockThreads \ {t} : g[u] = f[u]
  BY DEF LockStates
<1>2. Those(g, a) = Those(f, a) \ {t} /\ t \in Those(f, a) BY <1>1 DEF Those
<1>3. Those(g, b) = Those(f, b) \cup {t} /\ t \notin Those(f, b) BY <1>1 DEF Those
<1>4. \A s \in RWLock!States \ {a, b} : Those(g, s) = Those(f, s) BY <1>1 DEF Those
<1>5. Number(g, a) = Number(f, a) - 1
  <2>1. IsFiniteSet(Those(f, a)) BY NumberOf
  <2>2. Cardinality(Those(f, a) \ {t}) = Cardinality(Those(f, a)) - 1
    BY <1>2, <2>1, FS_RemoveElement
  <2> QED BY <1>2, <2>2 DEF Number
<1>6. Number(g, b) = Number(f, b) + 1
  BY <1>3, NumberOf, FS_AddElement DEF Number
<1> QED BY <1>1, <1>4, <1>5, <1>6 DEF Moved, Number

LEMMA OneIsNotified ==
  ASSUME NEW f \in LockStates, NEW a, NEW b \in RWLock!States, a # b,
         NEW g, g \in RWLock!NotifyOne(f, a, b)
  PROVE  /\ g \in LockStates
         /\ \/ Number(f, a) = 0 /\ g = f
            \/ Number(f, a) # 0 /\ Moved(f, g, a, b)
<1>1. CASE Those(f, a) = {}
  <2>1. g = f BY <1>1 DEF RWLock!NotifyOne, Those
  <2> QED BY <1>1, <2>1, NumberOf
<1>2. CASE Those(f, a) # {}
  <2>1. PICK t \in LockThreads : f[t] = a /\ g = [f EXCEPT ![t] = b]
    BY <1>2 DEF RWLock!NotifyOne, Those
  <2> QED BY <1>2, <2>1, OneMoves, NumberOf
<1> QED BY <1>1, <1>2

\* LockSafe, and the writers that wait, of f.
Safe(f, readers, writers, waiting, count) ==
  /\ Cardinality(Those(f, "asleep_writer")) + Cardinality(Those(f, "woken_writer")) = waiting
  /\ Cardinality(Those(f, "writing")) = writers
  /\ Cardinality(Those(f, "reading")) = readers
  /\ writers + (IF readers > 0 THEN 1 ELSE 0) <= 1
  /\ readers = 0 /\ writers = 0 /\ Those(f, "woken_writer") = {}
       => Those(f, "asleep_writer") = {}
  /\ writers = 0 /\ waiting = 0 => Those(f, "asleep_reader") = {}
  /\ Those(f, "asleep_semaphore") # {} => count <= Cardinality(Those(f, "woken_semaphore"))

LEMMA SafeInNumbers ==
  ASSUME NEW f, NEW r \in Nat, NEW w \in Nat, NEW q, NEW c
  PROVE  Safe(f, r, w, q, c) <=> Numbers(f, r, w, q, c)
<1>1. (w + (IF r > 0 THEN 1 ELSE 0) <= 1) <=> (w = 0 \/ (w = 1 /\ r = 0))
  <2>1. CASE r > 0 BY <2>1
  <2>2. CASE r = 0 BY <2>2
  <2> QED BY <2>1, <2>2
<1>2. (Those(f, "asleep_writer") = {}) <=> (Number(f, "asleep_writer") = 0) BY NumberOf
<1>3. (Those(f, "woken_writer") = {}) <=> (Number(f, "woken_writer") = 0) BY NumberOf
<1>4. (Those(f, "asleep_reader") = {}) <=> (Number(f, "asleep_reader") = 0) BY NumberOf
<1>5. (Those(f, "asleep_semaphore") = {}) <=> (Number(f, "asleep_semaphore") = 0) BY NumberOf
<1>6. \A s : Cardinality(Those(f, s)) = Number(f, s) BY DEF Number
<1>7. ASSUME Safe(f, r, w, q, c) PROVE Numbers(f, r, w, q, c)
  BY ONLY <1>1, <1>2, <1>3, <1>4, <1>5, <1>6, <1>7 DEF Safe, Numbers
<1>8. ASSUME Numbers(f, r, w, q, c) PROVE Safe(f, r, w, q, c)
  BY ONLY <1>1, <1>2, <1>3, <1>4, <1>5, <1>6, <1>8 DEF Safe, Numbers
<1> QED BY <1>7, <1>8

LEMMA LockStep ==
  ASSUME RWLock!Inv, RWLock!Next
  PROVE  RWLock!Inv'
<1>1. /\ s1 \in Nat /\ s2 \in Nat /\ s3 \in Nat /\ s4 \in Nat /\ s5 \in LockStates
      /\ Numbers(s5, s1, s2, s3, s4)
  <2>1. \A s : RWLock!In(s) = Those(s5, s) BY DEF RWLock!In, Those
  <2>2. Safe(s5, s1, s2, s3, s4) BY <2>1, SameCardinality DEF RWLock!Inv, RWLock!LockSafe, Safe
  <2> QED BY <2>2, SafeInNumbers DEF RWLock!Inv, LockStates
<1>2. /\ \A s : Number(s5, s) \in Nat /\ Number(s5', s) \in Nat
      /\ RWLock!States = {"idle", "reading", "writing", "asleep_reader", "asleep_writer",
             "asleep_semaphore", "woken_reader", "woken_writer", "woken_semaphore"}
  BY NumberOf DEF RWLock!States
<1> SUFFICES /\ s1' \in Nat /\ s2' \in Nat /\ s3' \in Nat /\ s4' \in Nat /\ s5' \in LockStates
             /\ Numbers(s5', s1', s2', s3', s4')
  <2>1. \A s : RWLock!In(s)' = Those(s5', s) BY DEF RWLock!In, Those
  <2>2. Safe(s5', s1', s2', s3', s4') BY SafeInNumbers
  <2> QED BY <2>1, <2>2, SameCardinality DEF RWLock!Inv, RWLock!LockSafe, Safe, LockStates
<1>3. PICK t \in LockThreads :
        \/ RWLock!LockWrite(t) \/ RWLock!LockWriteWakes(t) \/ RWLock!UnlockWrite(t)
        \/ RWLock!LockRead(t) \/ RWLock!UnlockRead(t)
        \/ RWLock!Post(t) \/ RWLock!Wait(t) \/ RWLock!WaitTimesOut(t) \/ RWLock!SpuriousWakeup(t)
  BY DEF RWLock!Next
<1>4. ASSUME NEW a, a = s5[t], NEW b \in RWLock!States, a # b, NEW g, g = RWLock!Becomes(t, b)
      PROVE  g \in LockStates /\ Moved(s5, g, a, b)
  BY <1>1, <1>4, OneMoves DEF RWLock!Becomes
<1> USE DEF Moved, Numbers
<1>5. CASE RWLock!LockWrite(t)
  <2>1. s5[t] = "idle" BY <1>5 DEF RWLock!LockWrite, RWLock!MayCall
  <2>2. CASE RWLock!WriteBlocked
    <3>1. s3' = s3 + 1 /\ s5' = RWLock!Becomes(t, "asleep_writer") /\ s2' = s2 /\ s1' = s1 /\ s4' = s4
      BY <1>5, <2>2 DEF RWLock!LockWrite
    <3>2. s5' \in LockStates /\ Moved(s5, s5', "idle", "asleep_writer") BY <1>2, <1>4, <2>1, <3>1
    <3> QED BY <1>1, <1>2, <2>2, <3>1, <3>2 DEF RWLock!WriteBlocked
  <2>3. CASE ~RWLock!WriteBlocked
    <3>1. s2' = s2 + 1 /\ s5' = RWLock!Becomes(t, "writing") /\ s3' = s3 /\ s1' = s1 /\ s4' = s4
      BY <1>5, <2>3 DEF RWLock!LockWrite
    <3>2. s5' \in LockStates /\ Moved(s5, s5', "idle", "writing") BY <1>2, <1>4, <2>1, <3>1
    <3> QED BY <1>1, <1>2, <2>3, <3>1, <3>2 DEF RWLock!WriteBlocked
  <2> QED BY <2>2, <2>3
<1>6. CASE RWLock!LockWriteWakes(t)
  <2>1. s5[t] = "woken_writer" /\ s1' = s1 /\ s4' = s4 BY <1>6 DEF RWLock!LockWriteWakes
  <2>2. CASE RWLock!WriteBlocked
    <3>1. s5' = RWLock!Becomes(t, "asleep_writer") /\ s2' = s2 /\ s3' = s3
      BY <1>6, <2>2 DEF RWLock!LockWriteWakes
    <3>2. s5' \in LockStates /\ Moved(s5, s5', "woken_writer", "asleep_writer")
      BY <1>2, <1>4, <2>1, <3>1
    <3> QED BY <1>1, <1>2, <2>1, <2>2, <3>1, <3>2 DEF RWLock!WriteBlocked
  <2>3. CASE ~RWLock!WriteBlocked
    <3>1. s2' = s2 + 1 /\ s3' = s3 - 1 /\ s5' = RWLock!Becomes(t, "writing")
      BY <1>6, <2>3 DEF RWLock!LockWriteWakes
    <3>2. s5' \in LockStates /\ Moved(s5, s5', "woken_writer", "writing")
      BY <1>2, <1>4, <2>1, <3>1
    <3> QED BY <1>1, <1>2, <2>1, <2>3, <3>1, <3>2 DEF RWLock!WriteBlocked
  <2> QED BY <2>2, <2>3
<1>7. CASE RWLock!UnlockWrite(t)
  <2>1. s5[t] = "writing" /\ s2' = s2 - 1 /\ s1' = s1 /\ s3' = s3 /\ s4' = s4
    BY <1>7 DEF RWLock!UnlockWrite
  <2>2. PICK g : g = RWLock!Becomes(t, "idle") OBVIOUS
  <2>3. g \in LockStates /\ Moved(s5, g, "writing", "idle") BY <1>2, <1>4, <2>1, <2>2
  <2>4. \A s : Number(g, s) \in Nat BY NumberOf
  <2>5. CASE s3 = 0
    <3>1. s5' = RWLock!NotifyAll(g, "asleep_reader", "woken_reader")
      BY <1>7, <2>2, <2>5 DEF RWLock!UnlockWrite, RWLock!WakesNext
    <3>2. s5' \in LockStates BY <1>2, <2>3, <3>1 DEF RWLock!NotifyAll, LockStates
    <3>3. Those(s5', "asleep_reader") = {} BY <3>1 DEF Those, RWLock!NotifyAll
    <3>4. \A s \in RWLock!States \ {"asleep_reader", "woken_reader"} : Those(s5', s) = Those(g, s)
      BY <3>1 DEF Those, RWLock!NotifyAll
    <3>5. /\ Number(s5', "asleep_reader") = 0
          /\ \A s \in RWLock!States \ {"asleep_reader", "woken_reader"} : Number(s5', s) = Number(g, s)
      BY <3>3, <3>4, NumberOf DEF Number
    <3> QED BY <1>1, <1>2, <2>1, <2>3, <2>4, <2>5, <3>2, <3>5
  <2>6. CASE s3 # 0
    <3>1. s5' \in RWLock!NotifyOne(g, "asleep_writer", "woken_writer")
      BY <1>7, <2>2, <2>6 DEF RWLock!UnlockWrite, RWLock!WakesNext
    <3>2. /\ s5' \in LockStates
          /\ \/ Number(g, "asleep_writer") = 0 /\ s5' = g
             \/ Number(g, "asleep_writer") # 0 /\ Moved(g, s5', "asleep_writer", "woken_writer")
      BY <1>2, <2>3, <3>1, OneIsNotified
    <3> QED BY <1>1, <1>2, <2>1, <2>3, <2>4, <2>6, <3>2
  <2> QED BY <2>5, <2>6
<1>8. CASE RWLock!LockRead(t)
  <2>1. PICK a : a = s5[t] /\ a \in {"idle", "woken_reader"}
    BY <1>8 DEF RWLock!LockRead, RWLock!MayCall
  <2>2. s2' = s2 /\ s3' = s3 /\ s4' = s4 BY <1>8 DEF RWLock!LockRead
  <2>3. CASE RWLock!ReadBlocked
    <3>1. s5' = RWLock!Becomes(t, "asleep_reader") /\ s1' = s1 BY <1>8, <2>3 DEF RWLock!LockRead
    <3>2. s5' \in LockStates /\ Moved(s5, s5', a, "asleep_reader") BY <1>2, <1>4, <2>1, <3>1
    <3> QED BY <1>1, <1>2, <2>1, <2>2, <2>3, <3>1, <3>2 DEF RWLock!ReadBlocked
  <2>4. CASE ~RWLock!ReadBlocked
    <3>1. s5' = RWLock!Becomes(t, "reading") /\ s1' = s1 + 1 BY <1>8, <2>4 DEF RWLock!LockRead
    <3>2. s5' \in LockStates /\ Moved(s5, s5', a, "reading") BY <1>2, <1>4, <2>1, <3>1
    <3> QED BY <1>1, <1>2, <2>1, <2>2, <2>4, <3>1, <3>2 DEF RWLock!ReadBlocked
  <2> QED BY <2>3, <2>4
<1>9. CASE RWLock!UnlockRead(t)
  <2>1. s5[t] = "reading" /\ s1' = s1 - 1 /\ s2' = s2 /\ s3' = s3 /\ s4' = s4
    BY <1>9 DEF RWLock!UnlockRead
  <2>2. PICK g : g = RWLock!Becomes(t, "idle") OBVIOUS
  <2>3. g \in LockStates /\ Moved(s5, g, "reading", "idle") BY <1>2, <1>4, <2>1, <2>2
  <2>4. \A s : Number(g, s) \in Nat BY NumberOf
  <2>5. CASE s1 = 1
    <3>1. s5' \in RWLock!NotifyOne(g, "asleep_writer", "woken_writer")
      BY <1>9, <2>2, <2>5 DEF RWLock!UnlockRead
    <3>2. /\ s5' \in LockStates
          /\ \/ Number(g, "asleep_writer") = 0 /\ s5' = g
             \/ Number(g, "asleep_writer") # 0 /\ Moved(g, s5', "asleep_writer", "woken_writer")
      BY <1>2, <2>3, <3>1, OneIsNotified
    <3> QED BY <1>1, <1>2, <2>1, <2>3, <2>4, <2>5, <3>2
  <2>6. CASE s1 # 1
    <3>1. s5' = g BY <1>9, <2>2, <2>6 DEF RWLock!UnlockRead
    <3> QED BY <1>1, <1>2, <2>1, <2>3, <2>4, <2>6, <3>1
  <2> QED BY <2>5, <2>6
<1>10. CASE RWLock!Post(t)
  <2>1. /\ s4' = s4 + 1 /\ s1' = s1 /\ s2' = s2 /\ s3' = s3
        /\ s5' \in RWLock!NotifyOne(s5, "asleep_semaphore", "woken_semaphore")
    BY <1>10 DEF RWLock!Post
  <2>2. /\ s5' \in LockStates
        /\ \/ Number(s5, "asleep_semaphore") = 0 /\ s5' = s5
           \/ Number(s5, "asleep_semaphore") # 0
              /\ Moved(s5, s5', "asleep_semaphore", "woken_semaphore")
    BY <1>1, <1>2, <2>1, OneIsNotified
  <2> QED BY <1>1, <1>2, <2>1, <2>2
<1>11. CASE RWLock!Wait(t)
  <2>1. PICK a : a = s5[t] /\ a \in {"idle", "woken_semaphore"}
    BY <1>11 DEF RWLock!Wait, RWLock!MayCall
  <2>2. s1' = s1 /\ s2' = s2 /\ s3' = s3 BY <1>11 DEF RWLock!Wait
  <2>3. CASE s4 > 0
    <3>1. s4' = s4 - 1 /\ s5' = RWLock!Becomes(t, "idle") BY <1>11, <2>3 DEF RWLock!Wait
    <3>2. CASE a = "idle"
      <4>1. s5' = s5 BY <1>1, <2>1, <3>1, <3>2 DEF RWLock!Becomes, LockStates
      <4> QED BY <1>1, <1>2, <2>2, <2>3, <3>1, <4>1
    <3>3. CASE a = "woken_semaphore"
      <4>1. s5' \in LockStates /\ Moved(s5, s5', a, "idle") BY <1>2, <1>4, <2>1, <3>1, <3>3
      <4> QED BY <1>1, <1>2, <2>2, <2>3, <3>1, <3>3, <4>1
    <3> QED BY <2>1, <3>2, <3>3
  <2>4. CASE ~(s4 > 0)
    <3>1. s4' = s4 /\ s5' = RWLock!Becomes(t, "asleep_semaphore") BY <1>11, <2>4 DEF RWLock!Wait
    <3>2. s5' \in LockStates /\ Moved(s5, s5', a, "asleep_semaphore") BY <1>2, <1>4, <2>1, <3>1
    <3> QED BY <1>1, <1>2, <2>1, <2>2, <2>4, <3>1, <3>2
  <2> QED BY <2>3, <2>4
<1>12. CASE RWLock!WaitTimesOut(t)
  <2>1. PICK a : a = s5[t] /\ a \in {"asleep_semaphore", "woken_semaphore"}
    BY <1>12 DEF RWLock!WaitTimesOut
  <2>2. /\ s1' = s1 /\ s2' = s2 /\ s3' = s3 /\ s4' \in Nat
        /\ \/ s4 > 0 /\ s4' = s4 - 1
           \/ s4 = 0 /\ s4' = 0
    BY <1>1, <1>12 DEF RWLock!WaitTimesOut
  <2>3. s5' = RWLock!Becomes(t, "idle") BY <1>12 DEF RWLock!WaitTimesOut
  <2>4. s5' \in LockStates /\ Moved(s5, s5', a, "idle") BY <1>2, <1>4, <2>1, <2>3
  <2> QED BY <1>1, <1>2, <2>1, <2>2, <2>4
<1>13. CASE RWLock!SpuriousWakeup(t)
  <2>1. s1' = s1 /\ s2' = s2 /\ s3' = s3 /\ s4' = s4 BY <1>13 DEF RWLock!SpuriousWakeup
  <2>2. CASE s5[t] = "asleep_reader" /\ s5' = RWLock!Becomes(t, "woken_reader")
    <3>1. s5' \in LockStates /\ Moved(s5, s5', "asleep_reader", "woken_reader")
      BY <1>2, <1>4, <2>2
    <3> QED BY <1>1, <1>2, <2>1, <3>1
  <2>3. CASE s5[t] = "asleep_writer" /\ s5' = RWLock!Becomes(t, "woken_writer")
    <3>1. s5' \in LockStates /\ Moved(s5, s5', "asleep_writer", "woken_writer")
      BY <1>2, <1>4, <2>3
    <3> QED BY <1>1, <1>2, <2>1, <3>1
  <2> QED BY <1>13, <2>2, <2>3 DEF RWLock!SpuriousWakeup
<1> QED BY <1>3, <1>5, <1>6, <1>7, <1>8, <1>9, <1>10, <1>11, <1>12, <1>13

LEMMA LockStart == RWLock!Init => RWLock!Inv
<1> SUFFICES ASSUME RWLock!Init PROVE RWLock!Inv OBVIOUS
<1>1. s1 = 0 /\ s2 = 0 /\ s3 = 0 /\ s4 \in Nat /\ s5 \in LockStates
  BY ThreadsAssumption DEF RWLock!Init, RWLock!States, LockStates
<1>2. /\ RWLock!In("writing") = {} /\ RWLock!In("reading") = {}
      /\ RWLock!In("asleep_writer") = {} /\ RWLock!In("woken_writer") = {}
      /\ RWLock!In("asleep_reader") = {} /\ RWLock!In("asleep_semaphore") = {}
  BY DEF RWLock!Init, RWLock!In
<1>3. RWLock!Cardinality({}) = 0 BY SameCardinality, FS_EmptySet
<1>4. RWLock!LockSafe BY <1>1, <1>2, <1>3 DEF RWLock!LockSafe
<1> QED BY <1>1, <1>2, <1>3, <1>4 DEF RWLock!Inv, LockStates

-----------------------------------------------------------------------------
(* Sequences without repetition. *)

Elements(q) == {q[i] : i \in 1..Len(q)}
Distinct(q) == \A i, j \in 1..Len(q) : q[i] = q[j] => i = j

LEMMA SequenceOf ==
  ASSUME NEW S, NEW n \in Nat, NEW q \in [1..n -> S]
  PROVE  q \in Seq(S) /\ Len(q) = n /\ DOMAIN q = 1..n
<1>1. q = [k \in 1..n |-> q[k]] OBVIOUS
<1>2. PICK p : p = [k \in 1..n |-> q[k]] OBVIOUS
<1>3. p \in Seq(S) /\ Len(p) = n /\ DOMAIN p = 1..n BY <1>2
<1> QED BY <1>1, <1>2, <1>3

LEMMA ConcatOf ==
  ASSUME NEW S, NEW a \in Seq(S), NEW b \in Seq(S), NEW m, NEW n, m = Len(a), n = Len(b)
  PROVE  /\ m \in Nat /\ n \in Nat /\ DOMAIN a = 1..m
         /\ a \o b \in Seq(S) /\ Len(a \o b) = m + n /\ DOMAIN (a \o b) = 1..m + n
         /\ \A k \in 1..m : (a \o b)[k] = a[k]
         /\ \A k \in 1..n : (a \o b)[m + k] = b[k]
<1>1. m \in Nat /\ n \in Nat /\ DOMAIN a = 1..m BY LenProperties
<1>2. PICK c : c = a \o b OBVIOUS
<1>3. /\ c \in Seq(S) /\ Len(c) = m + n
      /\ \A i \in 1..m + n : c[i] = IF i <= m THEN a[i] ELSE b[i - m]
  BY <1>2, ConcatProperties
<1>4. DOMAIN c = 1..m + n BY <1>3, LenProperties
<1>5. ASSUME NEW k \in 1..m PROVE c[k] = a[k]
  <2>1. k \in 1..m + n /\ k <= m BY <1>1
  <2> QED BY <1>3, <2>1
<1>6. ASSUME NEW k \in 1..n PROVE c[m + k] = b[k]
  <2>1. m + k \in 1..m + n /\ ~(m + k <= m) /\ (m + k) - m = k BY <1>1
  <2> QED BY <1>3, <2>1
<1> QED BY <1>1, <1>2, <1>3, <1>4, <1>5, <1>6

LEMMA AppendDistinct ==
  ASSUME NEW S, NEW q \in Seq(S), NEW x \in S, Distinct(q), x \notin Elements(q)
  PROVE  /\ Append(q, x) \in Seq(S) /\ Distinct(Append(q, x))
         /\ Elements(Append(q, x)) = Elements(q) \cup {x}
<1>1. PICK p, n : p = Append(q, x) /\ n = Len(q) OBVIOUS
<1>2. /\ n \in Nat /\ p \in Seq(S) /\ Len(p) = n + 1 /\ p[n + 1] = x
      /\ \A i \in 1..n : p[i] = q[i]
  BY <1>1
<1>3. \A i \in 1..n + 1 : i \in 1..n \/ i = n + 1 BY <1>2
<1>4. \A i \in 1..n : q[i] # x BY <1>1 DEF Elements
<1>5. Distinct(p) BY <1>1, <1>2, <1>3, <1>4 DEF Distinct
<1>6. Elements(p) = Elements(q) \cup {x}
  <2>1. ASSUME NEW i \in 1..n + 1 PROVE p[i] \in Elements(q) \cup {x}
    BY <1>1, <1>2, <1>3 DEF Elements
  <2>2. ASSUME NEW i \in 1..n PROVE q[i] \in Elements(p)
    <3>1. i \in 1..n + 1 /\ q[i] = p[i] BY <1>2
    <3> QED BY <1>2, <3>1 DEF Elements
  <2>3. x \in Elements(p)
    <3>1. n + 1 \in 1..n + 1 BY <1>2
    <3> QED BY <1>2, <3>1 DEF Elements
  <2>4. Elements(p) \subseteq Elements(q) \cup {x} BY <1>2, <2>1 DEF Elements
  <2>5. Elements(q) \subseteq Elements(p) BY <1>1, <2>2 DEF Elements
  <2> QED BY <2>3, <2>4, <2>5
<1> QED BY <1>1, <1>2, <1>5, <1>6

LEMMA TailDistinct ==
  ASSUME NEW S, NEW q \in Seq(S), q # <<>>, Distinct(q)
  PROVE  /\ Tail(q) \in Seq(S) /\ Distinct(Tail(q)) /\ Len(Tail(q)) = Len(q) - 1
         /\ Head(q) \in Elements(q) /\ Head(q) \in S
         /\ Elements(Tail(q)) = Elements(q) \ {Head(q)}
<1>1. PICK p, n : p = Tail(q) /\ n = Len(q) - 1 OBVIOUS
<1>2. /\ n \in Nat /\ Len(q) = n + 1 /\ p \in Seq(S) /\ Len(p) = n /\ Head(q) = q[1]
      /\ \A i \in 1..n : p[i] = q[i + 1]
  BY <1>1
<1>3. 1 \in 1..n + 1 /\ \A i \in 1..n : i + 1 \in 1..n + 1 /\ i + 1 # 1 BY <1>2
<1>4. Head(q) \in Elements(q) /\ Head(q) \in S BY <1>2, <1>3 DEF Elements
<1>5. Distinct(p)
  <2> SUFFICES ASSUME NEW i \in 1..n, NEW j \in 1..n, p[i] = p[j] PROVE i = j
    BY <1>2 DEF Distinct
  <2>1. i + 1 = j + 1 BY <1>2, <1>3 DEF Distinct
  <2> QED BY <1>2, <2>1
<1>6. \A i \in 1..n : p[i] \in Elements(q) /\ p[i] # Head(q)
  BY <1>2, <1>3 DEF Elements, Distinct
<1>7. ASSUME NEW i \in 1..n + 1, q[i] # Head(q) PROVE q[i] \in Elements(p)
  <2>1. i - 1 \in 1..n /\ (i - 1) + 1 = i BY <1>2, <1>7
  <2>2. p[i - 1] = q[i] BY <1>2, <2>1
  <2> QED BY <1>2, <2>1, <2>2 DEF Elements
<1>8. Elements(p) \subseteq Elements(q) \ {Head(q)} BY <1>2, <1>6 DEF Elements
<1>9. Elements(q) \ {Head(q)} \subseteq Elements(p) BY <1>2, <1>7 DEF Elements
<1> QED BY <1>1, <1>2, <1>4, <1>5, <1>8, <1>9

LEMMA ConcatDistinct ==
  ASSUME NEW S, NEW a \in Seq(S), NEW b \in Seq(S), Distinct(a), Distinct(b),
         Elements(a) \cap Elements(b) = {}
  PROVE  /\ a \o b \in Seq(S) /\ Distinct(a \o b)
         /\ Elements(a \o b) = Elements(a) \cup Elements(b)
<1>1. PICK c, m, n : c = a \o b /\ m = Len(a) /\ n = Len(b) OBVIOUS
<1>2. /\ m \in Nat /\ n \in Nat /\ c \in Seq(S) /\ Len(c) = m + n
      /\ \A k \in 1..m : c[k] = a[k]
      /\ \A k \in 1..n : c[m + k] = b[k]
  BY <1>1, ConcatOf
<1>3. \A k \in 1..m : k \in 1..m + n /\ c[k] \in Elements(a) BY <1>1, <1>2 DEF Elements
<1>4. \A k \in 1..n : m + k \in 1..m + n /\ c[m + k] \in Elements(b)
  BY <1>1, <1>2 DEF Elements
<1>5. ASSUME NEW k \in 1..m + n PROVE k \in 1..m \/ (k - m \in 1..n /\ m + (k - m) = k)
  BY <1>2
<1>6. Elements(c) \subseteq Elements(a) \cup Elements(b)
  <2> SUFFICES ASSUME NEW k \in 1..m + n PROVE c[k] \in Elements(a) \cup Elements(b)
    BY <1>2 DEF Elements
  <2>1. CASE k \in 1..m BY <1>3, <2>1
  <2>2. CASE k \notin 1..m
    <3>1. k - m \in 1..n /\ m + (k - m) = k BY <1>5, <2>2
    <3>2. c[m + (k - m)] \in Elements(b) BY <1>4, <3>1
    <3> QED BY <3>1, <3>2
  <2> QED BY <2>1, <2>2
<1>7. Elements(a) \subseteq Elements(c)
  <2> SUFFICES ASSUME NEW k \in 1..m PROVE a[k] \in Elements(c) BY <1>1 DEF Elements
  <2> QED BY <1>2, <1>3 DEF Elements
<1>8. Elements(b) \subseteq Elements(c)
  <2> SUFFICES ASSUME NEW k \in 1..n PROVE b[k] \in Elements(c) BY <1>1 DEF Elements
  <2> QED BY <1>2, <1>4 DEF Elements
<1>9. ASSUME NEW j \in 1..m + n, NEW k \in 1..m + n, c[j] = c[k] PROVE j = k
  <2>1. CASE j \in 1..m /\ k \in 1..m BY <1>1, <1>2, <1>9, <2>1 DEF Distinct
  <2>2. CASE j \notin 1..m /\ k \notin 1..m
    <3>1. /\ j - m \in 1..n /\ m + (j - m) = j /\ k - m \in 1..n /\ m + (k - m) = k
      BY <1>5, <2>2
    <3>2. c[m + (j - m)] = b[j - m] /\ c[m + (k - m)] = b[k - m] BY <1>2, <3>1
    <3>3. b[j - m] = b[k - m] BY <1>9, <3>1, <3>2
    <3>4. j - m = k - m BY <1>1, <3>1, <3>3 DEF Distinct
    <3> QED BY <3>1, <3>4
  <2>3. ASSUME NEW x \in 1..m, NEW y \in 1..m + n, y \notin 1..m PROVE c[x] # c[y]
    <3>1. y - m \in 1..n /\ m + (y - m) = y BY <1>5, <2>3
    <3>2. c[m + (y - m)] \in Elements(b) BY <1>4, <3>1
    <3>3. c[y] \in Elements(b) /\ c[x] \in Elements(a) BY <1>3, <3>1, <3>2
    <3> QED BY <3>3
  <2> QED BY <1>9, <2>1, <2>2, <2>3
<1> QED BY <1>1, <1>2, <1>6, <1>7, <1>8, <1>9 DEF Distinct

LEMMA SplitDistinct ==
  ASSUME NEW S, NEW q \in Seq(S), Distinct(q), NEW n \in 0..Len(q)
  PROVE  LET a == SubSeq(q, 1, n)
             b == SubSeq(q, n + 1, Len(q))
         IN  /\ a \in Seq(S) /\ b \in Seq(S) /\ Distinct(a) /\ Distinct(b)
             /\ Len(b) = Len(q) - n
             /\ Elements(a) \cap Elements(b) = {} /\ Elements(a) \cup Elements(b) = Elements(q)
<1>1. PICK a, b, m : a = SubSeq(q, 1, n) /\ b = SubSeq(q, n + 1, Len(q)) /\ m = Len(q) OBVIOUS
<1>2. m \in Nat /\ n \in 0..m /\ \A i \in 1..m : q[i] \in S BY <1>1, LenProperties
<1>3. a \in Seq(S) /\ Len(a) = n /\ \A i \in 1..n : a[i] = q[i]
  <2>1. \A i \in 1..n : q[i] \in S BY <1>2
  <2>2. /\ SubSeq(q, 1, n) \in Seq(S) /\ Len(SubSeq(q, 1, n)) = IF 1 <= n THEN n - 1 + 1 ELSE 0
        /\ \A i \in 1..n - 1 + 1 : SubSeq(q, 1, n)[i] = q[1 + i - 1]
    BY <1>2, <2>1, SubSeqProperties
  <2> QED BY <1>1, <1>2, <2>2
<1>4. b \in Seq(S) /\ Len(b) = m - n /\ \A i \in 1..m - n : b[i] = q[n + i]
  <2>1. \A i \in n + 1..m : q[i] \in S BY <1>2
  <2>2. PICK k \in Int : k = n + 1 BY <1>2
  <2>3. /\ SubSeq(q, k, m) \in Seq(S) /\ Len(SubSeq(q, k, m)) = IF k <= m THEN m - k + 1 ELSE 0
        /\ \A i \in 1..m - k + 1 : SubSeq(q, k, m)[i] = q[k + i - 1]
    BY <1>2, <2>1, <2>2, SubSeqProperties
  <2> QED BY <1>1, <1>2, <2>2, <2>3
<1>5. Elements(a) = {q[i] : i \in 1..n} BY <1>3 DEF Elements
<1>6. Elements(b) = {q[i] : i \in n + 1..m}
  <2>1. \A i \in 1..m - n : n + i \in n + 1..m BY <1>2
  <2>2. \A i \in n + 1..m : i - n \in 1..m - n /\ n + (i - n) = i BY <1>2
  <2>3. Elements(b) \subseteq {q[i] : i \in n + 1..m} BY <1>4, <2>1 DEF Elements
  <2>4. ASSUME NEW i \in n + 1..m PROVE q[i] \in Elements(b)
    <3>1. b[i - n] = q[n + (i - n)] BY <1>4, <2>2
    <3>2. b[i - n] = q[i] BY <2>2, <3>1
    <3> QED BY <1>4, <2>2, <3>2 DEF Elements
  <2> QED BY <2>3, <2>4
<1>7. Distinct(a) BY <1>1, <1>2, <1>3 DEF Distinct
<1>8. Distinct(b)
  <2> SUFFICES ASSUME NEW i \in 1..m - n, NEW j \in 1..m - n, b[i] = b[j] PROVE i = j
    BY <1>4 DEF Distinct
  <2>1. n + i \in 1..m /\ n + j \in 1..m BY <1>2
  <2>2. n + i = n + j BY <1>1, <1>4, <2>1 DEF Distinct
  <2> QED BY <1>2, <2>2
<1>9. Elements(a) \cap Elements(b) = {}
  <2> SUFFICES ASSUME NEW i \in 1..n, NEW j \in n + 1..m, q[i] = q[j] PROVE FALSE
    BY <1>5, <1>6
  <2>1. i \in 1..m /\ j \in 1..m /\ i # j BY <1>2
  <2> QED BY <1>1, <2>1 DEF Distinct
<1>10. Elements(a) \cup Elements(b) = Elements(q)
  <2>1. \A i : i \in 1..m <=> i \in 1..n \/ i \in n + 1..m BY <1>2
  <2> QED BY <1>1, <1>5, <1>6, <2>1 DEF Elements
<1> QED BY <1>1, <1>3, <1>4, <1>7, <1>8, <1>9, <1>10

-----------------------------------------------------------------------------
(* AsyncQueue.  s1 isRunning, s2 taskQueue, s3 worker, s4 task, s5 submit,  *)
(* s6 destructor, s7 runs.                                                  *)

LEMMA TasksStart == Tasks!Init => Tasks!Inv
<1> SUFFICES ASSUME Tasks!Init PROVE Tasks!Inv OBVIOUS
<1>1. Tasks!Queued = {} /\ Tasks!Held = {} BY DEF Tasks!Init, Tasks!Queued, Tasks!Held
<1>2. Len(s2) = 0 /\ s2 \in Seq(TaskNames) BY DEF Tasks!Init
<1> QED BY <1>1, <1>2 DEF Tasks!Init, Tasks!Inv, Tasks!Submitted, Tasks!NoTask

LEMMA TasksRunOnce == Tasks!Inv => Tasks!RunsOnce
<1> SUFFICES ASSUME Tasks!Inv PROVE Tasks!RunsOnce OBVIOUS
<1>1. \A k \in TaskNames : s7[k] <= 1 BY DEF Tasks!Inv
<1>2. ASSUME s6 = "done", NEW k \in TaskNames, s5[k] = "accepted" PROVE s7[k] = 1
  <2>1. PICK w \in Workers : s3[w] = "ended" BY <1>2, ThreadsAssumption DEF Tasks!Inv
  <2>2. s2 = <<>> BY <2>1 DEF Tasks!Inv
  <2>3. Tasks!Queued = {} BY <2>2 DEF Tasks!Queued
  <2>4. Tasks!Held = {} BY <1>2 DEF Tasks!Held, Tasks!Inv
  <2> QED BY <1>2, <2>3, <2>4 DEF Tasks!Inv, Tasks!Submitted
<1> QED BY <1>1, <1>2 DEF Tasks!RunsOnce

\* A step that only sends threads between their test and their sleep.
LEMMA TasksOnlyWake ==
  ASSUME Tasks!Inv, s1' \in BOOLEAN, s1' => s1, s6' = "new" => s1', s6' = "done" => s6 = "done",
         s2' = s2, s4' = s4, s5' = s5, s7' = s7,
         s3' \in [Workers -> {"test", "asleep", "run", "ended"}],
         \A w \in Workers : /\ (s3'[w] = "run") <=> (s3[w] = "run")
                            /\ (s3'[w] = "ended") <=> (s3[w] = "ended")
  PROVE  Tasks!Inv'
<1>1. Tasks!Held' = Tasks!Held BY DEF Tasks!Held
<1>2. Tasks!Queued' = Tasks!Queued BY DEF Tasks!Queued
<1>3. \A k : Tasks!Submitted(k)' <=> Tasks!Submitted(k) BY DEF Tasks!Submitted
<1> QED BY <1>1, <1>2, <1>3 DEF Tasks!Inv

LEMMA TasksNotifyOne ==
  ASSUME Tasks!Inv, s3' \in Tasks!NotifyOne
  PROVE  /\ s3' \in [Workers -> {"test", "asleep", "run", "ended"}]
         /\ \A w \in Workers : /\ (s3'[w] = "run") <=> (s3[w] = "run")
                               /\ (s3'[w] = "ended") <=> (s3[w] = "ended")
<1>1. CASE Tasks!Sleepers = {} BY <1>1 DEF Tasks!NotifyOne, Tasks!Inv
<1>2. CASE Tasks!Sleepers # {}
  <2>1. PICK v \in Workers : s3[v] = "asleep" /\ s3' = [s3 EXCEPT ![v] = "test"]
    BY <1>2 DEF Tasks!NotifyOne, Tasks!Sleepers
  <2> QED BY <2>1 DEF Tasks!Inv
<1> QED BY <1>1, <1>2

LEMMA TasksSubmit ==
  ASSUME Tasks!Inv, NEW k \in TaskNames, Tasks!Submit(k)
  PROVE  Tasks!Inv'
<1> USE DEF Tasks!Inv, Tasks!Submit
<1>1. Tasks!Held' = Tasks!Held BY DEF Tasks!Held
<1>2. ~Tasks!Submitted(k) BY DEF Tasks!Submitted
<1>3. k \notin Tasks!Queued \cup Tasks!Held BY <1>2
<1>4. CASE s1
  <2>1. s2' = Append(s2, k) /\ s5' = [s5 EXCEPT ![k] = "notify"] BY <1>4
  <2>2. Tasks!Queued = Elements(s2) /\ Distinct(s2) BY DEF Tasks!Queued, Elements, Distinct
  <2>3. s2' \in Seq(TaskNames) /\ Distinct(s2') /\ Elements(s2') = Elements(s2) \cup {k}
    BY <1>3, <2>1, <2>2, AppendDistinct
  <2>4. Tasks!Queued' = Tasks!Queued \cup {k} BY <2>2, <2>3 DEF Tasks!Queued, Elements
  <2>5. \A x \in TaskNames : Tasks!Submitted(x)' <=> Tasks!Submitted(x) \/ x = k
    BY <2>1 DEF Tasks!Submitted
  <2>6. \A i, j \in 1..Len(s2') : s2'[i] = s2'[j] => i = j BY <2>3 DEF Distinct
  <2>7. s5' \in [TaskNames -> {"new", "notify", "accepted", "refused"}] BY <2>1
  <2>8. \A x \in TaskNames :
          s7[x] = IF Tasks!Submitted(x)' /\ x \notin Tasks!Queued' \cup Tasks!Held' THEN 1 ELSE 0
    BY <1>1, <1>2, <2>4, <2>5
  <2>9. \A x \in Tasks!Queued' \cup Tasks!Held' : Tasks!Submitted(x)'
    <3>1. Tasks!Queued \subseteq TaskNames BY DEF Tasks!Queued
    <3> QED BY <1>1, <2>4, <2>5, <3>1
  <2>10. Tasks!Held' \subseteq TaskNames /\ Tasks!Queued' \cap Tasks!Held' = {}
    BY <1>1, <1>3, <2>4
  <2> QED BY <1>4, <2>3, <2>6, <2>7, <2>8, <2>9, <2>10
<1>5. CASE ~s1
  <2>1. s2' = s2 /\ s5' = [s5 EXCEPT ![k] = "refused"] BY <1>5
  <2>2. Tasks!Queued' = Tasks!Queued BY <2>1 DEF Tasks!Queued
  <2>3. \A x \in TaskNames : Tasks!Submitted(x)' <=> Tasks!Submitted(x)
    BY <1>2, <2>1 DEF Tasks!Submitted
  <2>4. Tasks!Queued \subseteq TaskNames BY DEF Tasks!Queued
  <2>5. \A x \in Tasks!Queued' \cup Tasks!Held' : Tasks!Submitted(x)'
    BY <1>1, <2>2, <2>3, <2>4
  <2>6. \A x \in TaskNames :
          s7[x] = IF Tasks!Submitted(x)' /\ x \notin Tasks!Queued' \cup Tasks!Held' THEN 1 ELSE 0
    BY <1>1, <2>2, <2>3
  <2> QED BY <1>1, <2>1, <2>2, <2>5, <2>6
<1> QED BY <1>4, <1>5

LEMMA TasksTake ==
  ASSUME Tasks!Inv, NEW w \in Workers, Tasks!Take(w)
  PROVE  Tasks!Inv'
<1> USE DEF Tasks!Inv, Tasks!Take
<1>1. PICK k : k = Head(s2) OBVIOUS
<1>2. Tasks!Queued = Elements(s2) /\ Distinct(s2) BY DEF Tasks!Queued, Elements, Distinct
<1>3. /\ s2' \in Seq(TaskNames) /\ Distinct(s2') /\ k \in Elements(s2) /\ k \in TaskNames
      /\ Elements(s2') = Elements(s2) \ {k}
  BY <1>1, <1>2, TailDistinct
<1>4. Tasks!Queued' = Tasks!Queued \ {k} /\ k \in Tasks!Queued
  BY <1>2, <1>3 DEF Tasks!Queued, Elements
<1>5. s3[w] # "run" /\ s3' = [s3 EXCEPT ![w] = "run"] /\ s4' = [s4 EXCEPT ![w] = k]
  BY <1>1
<1>6. Tasks!Held' = Tasks!Held \cup {k} BY <1>5 DEF Tasks!Held
<1>7. \A x : Tasks!Submitted(x)' <=> Tasks!Submitted(x) BY DEF Tasks!Submitted
<1>8. Tasks!Queued' \cup Tasks!Held' = Tasks!Queued \cup Tasks!Held BY <1>4, <1>6
<1>9. \A u, v \in Workers :
        s3'[u] = "run" /\ s3'[v] = "run" /\ s4'[u] = s4'[v] => u = v
  <2>1. \A v \in Workers : s3[v] = "run" => s4[v] # k BY <1>4 DEF Tasks!Held
  <2> QED BY <1>5, <2>1
<1>10. \A i, j \in 1..Len(s2') : s2'[i] = s2'[j] => i = j BY <1>3 DEF Distinct
<1>11. Tasks!Held' \subseteq TaskNames /\ Tasks!Queued' \cap Tasks!Held' = {}
  BY <1>3, <1>4, <1>6
<1>12. s3' \in [Workers -> {"test", "asleep", "run", "ended"}] BY <1>5
<1>13. s4' \in [Workers -> TaskNames \cup {Tasks!NoTask}] BY <1>3, <1>5
<1>14. /\ \A x \in TaskNames :
            s7[x] = IF Tasks!Submitted(x)' /\ x \notin Tasks!Queued' \cup Tasks!Held' THEN 1 ELSE 0
       /\ \A x \in Tasks!Queued' \cup Tasks!Held' : Tasks!Submitted(x)'
  BY <1>7, <1>8
<1>15. \A v \in Workers : s3'[v] = "ended" => FALSE BY <1>5
<1> QED BY <1>3, <1>9, <1>10, <1>11, <1>12, <1>13, <1>14, <1>15

LEMMA TasksRun ==
  ASSUME Tasks!Inv, NEW w \in Workers, Tasks!Run(w)
  PROVE  Tasks!Inv'
<1> USE DEF Tasks!Inv, Tasks!Run
<1>1. PICK k : k = s4[w] OBVIOUS
<1>2. k \in Tasks!Held BY <1>1 DEF Tasks!Held
<1>3. k \in TaskNames /\ Tasks!Submitted(k) /\ k \notin Tasks!Queued /\ s7[k] = 0 BY <1>2
<1>4. /\ s7' = [s7 EXCEPT ![k] = 1] /\ s4' = [s4 EXCEPT ![w] = Tasks!NoTask]
      /\ s3' = [s3 EXCEPT ![w] = "test"] /\ s2' = s2 /\ s5' = s5
  BY <1>1, <1>3
<1>5. Tasks!Held' = Tasks!Held \ {k}
  <2>1. \A v \in Workers : s3'[v] = "run" <=> (v # w /\ s3[v] = "run") BY <1>4
  <2>2. \A v \in Workers : v # w => s4'[v] = s4[v] BY <1>4
  <2>3. \A v \in Workers : v # w /\ s3[v] = "run" => s4[v] # k BY <1>1
  <2> QED BY <1>1, <2>1, <2>2, <2>3 DEF Tasks!Held
<1>6. Tasks!Queued' = Tasks!Queued BY <1>4 DEF Tasks!Queued
<1>7. \A x : Tasks!Submitted(x)' <=> Tasks!Submitted(x) BY <1>4 DEF Tasks!Submitted
<1>8. ASSUME NEW x \in TaskNames
      PROVE  s7'[x] = IF Tasks!Submitted(x)' /\ x \notin Tasks!Queued' \cup Tasks!Held' THEN 1 ELSE 0
  <2>1. CASE x = k BY <1>3, <1>4, <1>5, <1>6, <1>7, <2>1
  <2>2. CASE x # k BY <1>4, <1>5, <1>6, <1>7, <2>2
  <2> QED BY <2>1, <2>2
<1>9. \A x \in Tasks!Queued' \cup Tasks!Held' : Tasks!Submitted(x)' BY <1>5, <1>6, <1>7
<1>10. Tasks!Held' \subseteq TaskNames /\ Tasks!Queued' \cap Tasks!Held' = {} BY <1>5, <1>6
<1>11. /\ s3' \in [Workers -> {"test", "asleep", "run", "ended"}]
       /\ s4' \in [Workers -> TaskNames \cup {Tasks!NoTask}] /\ s7' \in [TaskNames -> Nat]
  <2>1. s3' \in [Workers -> {"test", "asleep", "run", "ended"}] BY <1>4
  <2>2. s4' \in [Workers -> TaskNames \cup {Tasks!NoTask}] BY <1>4
  <2>3. s7' \in [TaskNames -> Nat] BY <1>3, <1>4
  <2> QED BY <2>1, <2>2, <2>3
<1>12. \A u, v \in Workers :
         s3'[u] = "run" /\ s3'[v] = "run" /\ s4'[u] = s4'[v] => u = v
  BY <1>4
<1>13. \A v \in Workers : s3'[v] = "ended" => s3[v] = "ended" BY <1>4
<1>14. s3[w] # "ended" /\ s6 # "done" OBVIOUS
<1> QED BY <1>4, <1>8, <1>9, <1>10, <1>11, <1>12, <1>13, <1>14

LEMMA TasksStep ==
  ASSUME Tasks!Inv, Tasks!Next
  PROVE  Tasks!Inv'
<1>1. ASSUME NEW k \in TaskNames, Tasks!Submit(k) PROVE Tasks!Inv' BY <1>1, TasksSubmit
<1>2. ASSUME NEW k \in TaskNames, Tasks!SubmitNotifies(k) PROVE Tasks!Inv'
  <2> USE DEF Tasks!SubmitNotifies
  <2>1. Tasks!Held' = Tasks!Held
    BY <1>2, TasksNotifyOne DEF Tasks!Held
  <2>2. Tasks!Queued' = Tasks!Queued BY <1>2 DEF Tasks!Queued
  <2>3. s5' = [s5 EXCEPT ![k] = "accepted"] BY <1>2
  <2>4. \A x \in TaskNames : Tasks!Submitted(x)' <=> Tasks!Submitted(x)
    BY <1>2, <2>3 DEF Tasks!Submitted, Tasks!Inv
  <2>5. Tasks!Queued \subseteq TaskNames /\ Tasks!Held \subseteq TaskNames
    BY DEF Tasks!Queued, Tasks!Inv
  <2>6. \A x \in Tasks!Queued' \cup Tasks!Held' : Tasks!Submitted(x)'
    BY <2>1, <2>2, <2>4, <2>5 DEF Tasks!Inv
  <2>7. \A x \in TaskNames :
          s7[x] = IF Tasks!Submitted(x)' /\ x \notin Tasks!Queued' \cup Tasks!Held' THEN 1 ELSE 0
    BY <2>1, <2>2, <2>4 DEF Tasks!Inv
  <2>8. s5' \in [TaskNames -> {"new", "notify", "accepted", "refused"}] BY <2>3 DEF Tasks!Inv
  <2>9. \A u, v \in Workers :
          s3'[u] = "run" /\ s3'[v] = "run" /\ s4'[u] = s4'[v] => u = v
    BY <1>2, TasksNotifyOne DEF Tasks!Inv
  <2> QED BY <1>2, <2>1, <2>2, <2>6, <2>7, <2>8, <2>9, TasksNotifyOne DEF Tasks!Inv
<1>3. ASSUME NEW w \in Workers, Tasks!Sleep(w) PROVE Tasks!Inv'
  BY <1>3, TasksOnlyWake DEF Tasks!Sleep, Tasks!Inv
<1>4. ASSUME NEW w \in Workers, Tasks!Leave(w) PROVE Tasks!Inv'
  <2>1. Tasks!Held' = Tasks!Held BY <1>4 DEF Tasks!Leave, Tasks!Held, Tasks!Inv
  <2>2. Tasks!Queued' = Tasks!Queued BY <1>4 DEF Tasks!Leave, Tasks!Queued
  <2>3. \A k : Tasks!Submitted(k)' <=> Tasks!Submitted(k)
    BY <1>4 DEF Tasks!Leave, Tasks!Submitted
  <2> QED BY <1>4, <2>1, <2>2, <2>3 DEF Tasks!Leave, Tasks!Inv
<1>5. ASSUME NEW w \in Workers, Tasks!Take(w) PROVE Tasks!Inv' BY <1>5, TasksTake
<1>6. ASSUME NEW w \in Workers, Tasks!Run(w) PROVE Tasks!Inv' BY <1>6, TasksRun
<1>7. ASSUME NEW w \in Workers, Tasks!SpuriousWakeup(w) PROVE Tasks!Inv'
  BY <1>7, TasksOnlyWake DEF Tasks!SpuriousWakeup, Tasks!Inv
<1>8. CASE Tasks!DestructorStops
  BY <1>8, TasksNotifyOne, TasksOnlyWake DEF Tasks!DestructorStops
<1>9. CASE Tasks!DestructorNotifies
  BY <1>9, TasksOnlyWake DEF Tasks!DestructorNotifies, Tasks!NotifyAll, Tasks!Inv
<1>10. CASE Tasks!DestructorReturns
  <2>1. Tasks!Held' = Tasks!Held BY <1>10 DEF Tasks!DestructorReturns, Tasks!Held
  <2>2. Tasks!Queued' = Tasks!Queued BY <1>10 DEF Tasks!DestructorReturns, Tasks!Queued
  <2>3. \A k : Tasks!Submitted(k)' <=> Tasks!Submitted(k)
    BY <1>10 DEF Tasks!DestructorReturns, Tasks!Submitted
  <2> QED BY <1>10, <2>1, <2>2, <2>3 DEF Tasks!DestructorReturns, Tasks!Inv
<1> QED BY <1>1, <1>2, <1>3, <1>4, <1>5, <1>6, <1>7, <1>8, <1>9, <1>10
        DEF Tasks!Next, Tasks!Work

-----------------------------------------------------------------------------
(* Positions around a ring of c cells. *)

LEMMA DivMod ==
  ASSUME NEW a \in Nat, NEW c \in Nat \ {0}
  PROVE  \E q \in Nat, r \in 0..c - 1 : a = c * q + r /\ r = a % c
<1>1. a \div c \in Nat /\ a % c \in 0..c - 1 /\ a = c * (a \div c) + (a % c) OBVIOUS
<1> QED BY <1>1

LEMMA Multiple ==
  ASSUME NEW k \in Int, NEW c \in Nat \ {0}, k >= 1
  PROVE  c * k >= c /\ c * k \in Int
<1>1. c * (k - 1) >= 0 OBVIOUS
<1>2. c * k = c * (k - 1) + c OBVIOUS
<1> QED BY <1>1, <1>2

LEMMA DivModUnique ==
  ASSUME NEW c \in Nat \ {0}, NEW q \in Int, NEW r \in 0..c - 1, NEW p \in Int, NEW t \in 0..c - 1,
         c * q + r = c * p + t
  PROVE  q = p /\ r = t
<1>1. c * (q - p) = t - r OBVIOUS
<1>2. ASSUME q - p >= 1 PROVE FALSE
  <2>1. c * (q - p) >= c BY <1>2, Multiple
  <2> QED BY <1>1, <2>1
<1>3. ASSUME p - q >= 1 PROVE FALSE
  <2>1. c * (p - q) >= c BY <1>3, Multiple
  <2>2. c * (p - q) = r - t OBVIOUS
  <2> QED BY <2>1, <2>2
<1>4. q = p BY <1>2, <1>3
<1> QED BY <1>4

\* Fewer than c positions apart is in another cell.
LEMMA ModuloApart ==
  ASSUME NEW c \in Nat \ {0}, NEW a \in Nat, NEW b \in Nat, a < b, b < a + c
  PROVE  a % c # b % c
<1> SUFFICES ASSUME a % c = b % c PROVE FALSE OBVIOUS
<1>0. PICK q \in Nat, r \in 0..c - 1 : a = c * q + r /\ r = a % c BY DivMod
<1>1. PICK p \in Nat : b = c * p + r
  <2>1. PICK p \in Nat, t \in 0..c - 1 : b = c * p + t /\ t = b % c BY DivMod
  <2> QED BY <1>0, <2>1
<1>2. b - a = c * (p - q) BY <1>0, <1>1
<1>3. CASE p - q >= 1
  <2>1. c * (p - q) >= c BY <1>3, Multiple
  <2> QED BY <1>2, <2>1
<1>4. CASE ~(p - q >= 1)
  <2>1. c * (p - q) <= 0 BY <1>4
  <2> QED BY <1>2, <2>1
<1> QED BY <1>3, <1>4

LEMMA ModuloNext ==
  ASSUME NEW c \in Nat \ {0}, NEW a \in Nat
  PROVE  ((a % c) + 1) % c = (a + 1) % c
<1>1. PICK q \in Nat, r \in 0..c - 1 : a = c * q + r /\ r = a % c BY DivMod
<1>2. PICK p \in Nat, t \in 0..c - 1 : r + 1 = c * p + t /\ t = (r + 1) % c
  <2>1. r + 1 \in Nat OBVIOUS
  <2> QED BY <2>1, DivMod
<1>3. PICK k \in Nat, u \in 0..c - 1 : a + 1 = c * k + u /\ u = (a + 1) % c
  <2>1. a + 1 \in Nat OBVIOUS
  <2> QED BY <2>1, DivMod
<1>4. c * (q + p) + t = c * k + u
  <2>1. c * (q + p) = c * q + c * p OBVIOUS
  <2> QED BY <1>1, <1>2, <1>3, <2>1
<1>5. t = u BY <1>4, DivModUnique
<1> QED BY <1>1, <1>2, <1>3, <1>5

LEMMA ModuloAround ==
  ASSUME NEW c \in Nat \ {0}, NEW a \in Nat
  PROVE  (a + c) % c = a % c
<1>1. PICK q \in Nat, r \in 0..c - 1 : a = c * q + r /\ r = a % c BY DivMod
<1>2. PICK p \in Nat, t \in 0..c - 1 : a + c = c * p + t /\ t = (a + c) % c
  <2>1. a + c \in Nat OBVIOUS
  <2> QED BY <2>1, DivMod
<1>3. c * (q + 1) + r = c * p + t
  <2>1. c * (q + 1) = c * q + c OBVIOUS
  <2> QED BY <1>1, <1>2, <2>1
<1>4. r = t BY <1>3, DivModUnique
<1> QED BY <1>1, <1>2, <1>4

LEMMA ModuloRange ==
  ASSUME NEW c \in Nat \ {0}, NEW a \in Nat
  PROVE  a % c \in 0..c - 1
BY DivMod

-----------------------------------------------------------------------------
(* SPSCRingQueue.  s1 head, s2 tail, s3 buffer, s4 producer, s5 consumer,   *)
(* s6 pushed, s7 accepted, s8 popped.                                       *)

LEMMA PairStart == SPSC!Init => SPSC!Inv
<1> SUFFICES ASSUME SPSC!Init PROVE SPSC!Inv OBVIOUS
<1>1. PairCells \in Nat \ {0} BY ThreadsAssumption
<1>2. 0 % PairCells = 0
  <2>1. PICK q \in Nat, r \in 0..PairCells - 1 : 0 = PairCells * q + r /\ r = 0 % PairCells
    BY <1>1, DivMod
  <2> QED BY <1>1, <2>1
<1>3. Len(s7) = 0 /\ Len(s8) = 0 /\ SPSC!Freed = 0 BY DEF SPSC!Init, SPSC!Freed
<1>4. s7 \in Seq(Nat) /\ s8 \in Seq(Nat) BY DEF SPSC!Init
<1>5. s3 \in [0..(PairCells - 1) -> Nat] BY DEF SPSC!Init
<1> QED BY <1>1, <1>2, <1>3, <1>4, <1>5 DEF SPSC!Init, SPSC!Inv

LEMMA PairFifo == SPSC!Inv => SPSC!Fifo
<1> SUFFICES ASSUME SPSC!Inv PROVE SPSC!Fifo OBVIOUS
<1>1. PICK n \in Nat, m \in Nat : n = Len(s7) /\ m = Len(s8) BY DEF SPSC!Inv
<1>2. m <= n /\ n - m < PairCells
  <2>1. CASE s5 = "store"
    <3>1. m - 1 < n /\ n < (m - 1) + PairCells BY <1>1, <2>1 DEF SPSC!Inv, SPSC!Freed
    <3> QED BY <3>1, ThreadsAssumption
  <2>2. CASE s5 # "store" BY <1>1, <2>2, ThreadsAssumption DEF SPSC!Inv, SPSC!Freed
  <2> QED BY <2>1, <2>2
<1>3. PICK p : p = SubSeq(s7, 1, m) OBVIOUS
<1>4. s7 \in Seq(Nat) /\ s8 \in Seq(Nat) BY DEF SPSC!Inv
<1>5. p \in Seq(Nat) /\ Len(p) = m /\ \A i \in 1..m : p[i] = s7[i]
  <2>1. m <= Len(s7) BY <1>1, <1>2
  <2> QED BY <1>3, <1>4, <2>1, SubSeqProperties
<1>6. \A i \in 1..m : p[i] = s8[i] BY <1>1, <1>5 DEF SPSC!Inv
<1>7. p = s8 BY <1>1, <1>4, <1>5, <1>6, SeqEqual
<1> QED BY <1>1, <1>2, <1>3, <1>7 DEF SPSC!Fifo

LEMMA PairStep ==
  ASSUME SPSC!Inv, SPSC!Next
  PROVE  SPSC!Inv'
<1>1. PICK c \in Nat \ {0} : c = PairCells BY ThreadsAssumption
<1>2. PICK f \in Nat, n \in Nat : f = SPSC!Freed /\ n = Len(s7)
  <2>1. SPSC!Freed \in 0..Len(s7) /\ s7 \in Seq(Nat) BY DEF SPSC!Inv
  <2> QED BY <2>1
<1>3. /\ f <= n /\ n < f + c /\ s1 = f % c /\ s2 = n % c
      /\ s4 # "idle" => n + 1 < f + c
      /\ s5 # "idle" => f < n
      /\ \A i \in f..n - 1 : s3[i % c] = s7[i + 1]
      /\ s7 \in Seq(Nat) /\ s8 \in Seq(Nat) /\ s6 \in Nat /\ s3 \in [0..c - 1 -> Nat]
      /\ s4 \in {"idle", "write", "store"} /\ s5 \in {"idle", "read", "store"}
      /\ s4 = "store" => s3[s2] = s6
      /\ \A i \in 1..Len(s8) : s8[i] = s7[i]
  BY <1>1, <1>2 DEF SPSC!Inv
<1>4. CASE SPSC!PushLooks
  <2> USE <1>4 DEF SPSC!PushLooks
  <2>1. SPSC!Freed' = f BY <1>2 DEF SPSC!Freed
  <2>2. s4' # "idle" => n + 1 < f + c
    <3> SUFFICES ASSUME ~SPSC!Full PROVE n + 1 < f + c OBVIOUS
    <3>1. SPSC!After(s2) = (n + 1) % c BY <1>1, <1>3, ModuloNext DEF SPSC!After
    <3>2. n + 1 # f + c BY <1>3, <3>1, ModuloAround DEF SPSC!Full
    <3> QED BY <1>3, <3>2
  <2> QED BY <1>1, <1>2, <1>3, <2>1, <2>2 DEF SPSC!Inv
<1>5. CASE SPSC!PushWrites
  <2> USE <1>5 DEF SPSC!PushWrites
  <2>1. SPSC!Freed' = f BY <1>2 DEF SPSC!Freed
  <2>2. s3' = [s3 EXCEPT ![s2] = s6] /\ s2 \in 0..c - 1 BY <1>3, ModuloRange
  <2>3. s3' \in [0..c - 1 -> Nat] /\ s3'[s2] = s6 BY <1>3, <2>2
  <2>4. ASSUME NEW i \in f..n - 1 PROVE s3'[i % c] = s7[i + 1]
    <3>1. i \in Nat /\ i < n /\ n < i + c BY <1>3
    <3>2. i % c # n % c BY <3>1, ModuloApart
    <3>3. i % c \in 0..c - 1 BY <3>1, ModuloRange
    <3> QED BY <1>3, <2>2, <3>2, <3>3
  <2> QED BY <1>1, <1>2, <1>3, <2>1, <2>3, <2>4 DEF SPSC!Inv
<1>6. CASE SPSC!PushStores
  <2> USE <1>6 DEF SPSC!PushStores
  <2>1. SPSC!Freed' = f BY <1>2 DEF SPSC!Freed
  <2>2. s2' = (n + 1) % c BY <1>1, <1>3, ModuloNext DEF SPSC!After
  <2>3. /\ s7' \in Seq(Nat) /\ Len(s7') = n + 1 /\ s7'[n + 1] = s6
        /\ \A i \in 1..n : s7'[i] = s7[i]
    BY <1>2, <1>3
  <2>4. n + 1 < f + c /\ s3[n % c] = s6 BY <1>3
  <2>5. ASSUME NEW i \in f..(n + 1) - 1 PROVE s3'[i % c] = s7'[i + 1]
    <3>1. CASE i = n BY <2>3, <2>4, <3>1
    <3>2. CASE i # n
      <4>1. i \in f..n - 1 /\ i + 1 \in 1..n BY <1>3, <3>2
      <4> QED BY <1>3, <2>3, <4>1
    <3> QED BY <3>1, <3>2
  <2>6. ASSUME NEW i \in 1..Len(s8') PROVE s8'[i] = s7'[i]
    <3>1. i \in 1..Len(s8) /\ Len(s8) <= n BY <1>2, <1>3 DEF SPSC!Freed
    <3>2. i \in 1..n BY <1>3, <3>1
    <3> QED BY <1>3, <2>3, <3>1, <3>2
  <2>7. /\ SPSC!Freed' \in 0..Len(s7)' /\ Len(s7') < f + PairCells
        /\ s1' = f % PairCells /\ s2' = Len(s7') % PairCells
    BY <1>1, <1>3, <2>1, <2>2, <2>3, <2>4
  <2>8. \A i \in SPSC!Freed'..(Len(s7)' - 1) : s3'[i % PairCells] = s7'[i + 1]
    BY <1>1, <2>1, <2>3, <2>5
  <2>9. s5' # "idle" => SPSC!Freed' < Len(s7)' BY <1>3, <2>1, <2>3
  <2>10. s4' = "idle" /\ s3' = s3 /\ s5' = s5 /\ s6' = s6 /\ s8' = s8 OBVIOUS
  <2>11. Len(s7)' < SPSC!Freed' + PairCells /\ s1' = SPSC!Freed' % PairCells BY <2>1, <2>7
  <2> QED BY <1>1, <1>3, <2>3, <2>6, <2>7, <2>8, <2>9, <2>10, <2>11 DEF SPSC!Inv
<1>7. CASE SPSC!PopLooks
  <2> USE <1>7 DEF SPSC!PopLooks
  <2>1. SPSC!Freed' = f BY <1>2 DEF SPSC!Freed
  <2>2. f # n BY <1>3
  <2>3. f < n BY <1>3, <2>2
  <2> QED BY <1>1, <1>2, <1>3, <2>1, <2>3 DEF SPSC!Inv
<1>8. CASE SPSC!PopReads
  <2> USE <1>8 DEF SPSC!PopReads
  <2>1. Len(s8) = f /\ f < n BY <1>2, <1>3 DEF SPSC!Freed
  <2>2. s3[s1] = s7[f + 1] /\ s7[f + 1] \in Nat
    <3>1. f \in f..n - 1 /\ f + 1 \in 1..n BY <2>1
    <3>2. s1 = f % c /\ s3[f % c] = s7[f + 1] BY <1>3, <3>1
    <3>3. f + 1 \in 1..Len(s7) /\ s7 \in Seq(Nat) BY <1>2, <1>3, <3>1
    <3>4. s7[f + 1] \in Nat BY ONLY <3>3, ElementOfSeq
    <3> QED BY <3>2, <3>4
  <2>3. /\ s8' \in Seq(Nat) /\ Len(s8') = f + 1 /\ s8'[f + 1] = s7[f + 1]
        /\ \A i \in 1..f : s8'[i] = s8[i]
    BY <1>3, <2>1, <2>2
  <2>4. SPSC!Freed' = f BY <2>3 DEF SPSC!Freed
  <2>5. ASSUME NEW i \in 1..f + 1 PROVE s8'[i] = s7'[i]
    <3>1. CASE i = f + 1 BY <2>3, <3>1
    <3>2. CASE i # f + 1
      <4>1. i \in 1..f BY <3>2
      <4> QED BY <1>3, <2>1, <2>3, <4>1
    <3> QED BY <3>1, <3>2
  <2> QED BY <1>1, <1>2, <1>3, <2>1, <2>3, <2>4, <2>5 DEF SPSC!Inv
<1>9. CASE SPSC!PopStores
  <2> USE <1>9 DEF SPSC!PopStores
  <2>1. SPSC!Freed' = f + 1 BY <1>2, <1>3 DEF SPSC!Freed
  <2>2. s1' = (f + 1) % c BY <1>1, <1>3, ModuloNext DEF SPSC!After
  <2>3. f + 1 <= n BY <1>3
  <2>4. \A i \in f + 1..n - 1 : i \in f..n - 1 OBVIOUS
  <2>5. /\ SPSC!Freed' \in 0..Len(s7)' /\ Len(s7)' < SPSC!Freed' + PairCells
        /\ s1' = SPSC!Freed' % PairCells /\ s2' = Len(s7') % PairCells
    BY <1>1, <1>2, <1>3, <2>1, <2>2, <2>3
  <2>6. s4' # "idle" => Len(s7)' + 1 < SPSC!Freed' + PairCells BY <1>1, <1>2, <1>3, <2>1
  <2>7. \A i \in SPSC!Freed'..(Len(s7)' - 1) : s3'[i % PairCells] = s7'[i + 1]
    BY <1>1, <1>2, <1>3, <2>1, <2>4
  <2> QED BY <1>1, <1>3, <2>5, <2>6, <2>7 DEF SPSC!Inv
<1> QED BY <1>4, <1>5, <1>6, <1>7, <1>8, <1>9 DEF SPSC!Next

-----------------------------------------------------------------------------
(* MPMCRingQueue.  s1 head, s2 tail, s3 sequence, s4 data, s5 pc, s6 pos,   *)
(* s7 pushed, s8 put, s9 got.                                               *)

LEMMA RingCellOf ==
  /\ RingCells \in Nat /\ RingCells >= 2
  /\ \A p \in Nat : MPMC!Cell(p) \in MPMC!Cells /\ MPMC!Cell(p + RingCells) = MPMC!Cell(p)
  /\ \A p, q \in Nat : p < q /\ q < p + RingCells => MPMC!Cell(p) # MPMC!Cell(q)
<1>1. RingCells \in Nat \ {0} /\ RingCells >= 2 BY ThreadsAssumption
<1>2. PICK c \in Nat \ {0} : c = RingCells BY <1>1
<1>3. ASSUME NEW p \in Nat
      PROVE  MPMC!Cell(p) \in MPMC!Cells /\ MPMC!Cell(p + RingCells) = MPMC!Cell(p)
  <2>1. p % c \in 0..c - 1 /\ (p + c) % c = p % c BY ModuloRange, ModuloAround
  <2> QED BY <1>2, <2>1 DEF MPMC!Cell, MPMC!Cells
<1>4. ASSUME NEW p \in Nat, NEW q \in Nat, p < q, q < p + RingCells
      PROVE  MPMC!Cell(p) # MPMC!Cell(q)
  <2>1. p % c # q % c BY <1>2, <1>4, ModuloApart
  <2> QED BY <1>2, <2>1 DEF MPMC!Cell
<1> QED BY <1>1, <1>3, <1>4

LEMMA RingStart == MPMC!Init => MPMC!Inv
<1> SUFFICES ASSUME MPMC!Init PROVE MPMC!Inv OBVIOUS
<1> USE DEF MPMC!Init
<1>1. \A t \in MPMC!Threads : s5[t] = "idle" /\ s6[t] = 0 OBVIOUS
<1>2. Producers \subseteq MPMC!Threads /\ Consumers \subseteq MPMC!Threads BY DEF MPMC!Threads
<1>3. MPMC!InvTypes
  <2>1. s3 \in [MPMC!Cells -> Int] BY DEF MPMC!Cells
  <2> QED BY <1>1, <1>2, <2>1, RingCellOf DEF MPMC!InvTypes, MPMC!Reads, MPMC!Writes
<1>4. MPMC!InvCells
  <2>1. ASSUME NEW p \in s2..s1 + RingCells - 1 PROVE s3[MPMC!Cell(p)] = p
    <3>1. p \in Nat /\ p \in 0..RingCells - 1 BY RingCellOf
    <3>2. MPMC!Cell(p) = p
      <4>1. PICK c \in Nat \ {0} : c = RingCells BY RingCellOf
      <4>2. PICK q \in Nat, r \in 0..c - 1 : p = c * q + r /\ r = p % c BY <3>1, DivMod
      <4>3. c * 0 + p = c * q + r BY <3>1, <4>2
      <4>4. p \in 0..c - 1 BY <3>1, <4>1
      <4>5. p = r BY <4>3, <4>4, DivModUnique
      <4> QED BY <4>1, <4>2, <4>5 DEF MPMC!Cell
    <3> QED BY <3>1, <3>2 DEF MPMC!Cells
  <2> QED BY <2>1 DEF MPMC!InvCells
<1>5. /\ \A t \in Producers : MPMC!InvProducer(t)
      /\ \A t \in Consumers : MPMC!InvConsumer(t)
  BY <1>1, <1>2 DEF MPMC!InvProducer, MPMC!InvConsumer, MPMC!Reads, MPMC!Writes
<1>6. MPMC!InvApart BY <1>1, <1>2 DEF MPMC!InvApart, MPMC!Reads, MPMC!Writes
<1>7. MPMC!InvGot BY DEF MPMC!InvGot
<1> QED BY <1>3, <1>4, <1>5, <1>6, <1>7 DEF MPMC!Inv

\* A call that moves among its first three places touches nothing but itself.
LEMMA RingCallMoves ==
  ASSUME MPMC!Inv, NEW t \in MPMC!Threads, NEW l \in {"idle", "look", "claim"}, NEW n \in Nat,
         UNCHANGED <<s1, s2, s3, s4, s8, s9>>,
         s5' = [s5 EXCEPT ![t] = l], s6' = [s6 EXCEPT ![t] = n],
         DOMAIN s7' = DOMAIN s7, \A u \in Producers : u # t => s7'[u] = s7[u],
         t \in Producers => n <= s2 /\ (l = "claim" /\ n = s2 => s3[MPMC!Cell(n)] = n),
         t \in Consumers => n <= s1 /\ (l = "claim" /\ n = s1 => s3[MPMC!Cell(n)] = n + 1)
  PROVE  MPMC!Inv'
<1> USE DEF MPMC!Inv
<1>1. /\ s5 \in [MPMC!Threads -> {"idle", "look", "claim", "write", "publish", "read", "release"}]
      /\ s6 \in [MPMC!Threads -> Nat]
  BY DEF MPMC!InvTypes
<1>2. /\ \A u \in MPMC!Threads : u # t => s5'[u] = s5[u] /\ s6'[u] = s6[u]
      /\ s5'[t] = l /\ s6'[t] = n
  BY <1>1
<1>3. Producers \subseteq MPMC!Threads /\ Consumers \subseteq MPMC!Threads BY DEF MPMC!Threads
<1>4. \A u \in MPMC!Threads : (MPMC!Writes(u)' => u # t /\ MPMC!Writes(u))
                              /\ (MPMC!Reads(u)' => u # t /\ MPMC!Reads(u))
  BY <1>2 DEF MPMC!Writes, MPMC!Reads
<1>5. MPMC!InvTypes' BY <1>1, <1>3, <1>4 DEF MPMC!InvTypes
<1>6. MPMC!InvCells' BY DEF MPMC!InvCells
<1>7. MPMC!InvGot' BY DEF MPMC!InvGot
<1>8. MPMC!InvApart' BY <1>2, <1>3, <1>4 DEF MPMC!InvApart
<1>9. ASSUME NEW u \in Producers PROVE MPMC!InvProducer(u)'
  <2>1. CASE u = t BY <1>2, <1>4, <2>1 DEF MPMC!InvProducer
  <2>2. CASE u # t
    <3>1. s5'[u] = s5[u] /\ s6'[u] = s6[u] /\ s7'[u] = s7[u] BY <1>2, <1>3, <2>2
    <3>2. MPMC!Value(u)' = MPMC!Value(u) BY <3>1 DEF MPMC!Value
    <3> QED BY <3>1, <3>2 DEF MPMC!InvProducer, MPMC!Writes
  <2> QED BY <2>1, <2>2
<1>10. ASSUME NEW u \in Consumers PROVE MPMC!InvConsumer(u)'
  <2>1. CASE u = t BY <1>2, <1>4, <2>1 DEF MPMC!InvConsumer
  <2>2. CASE u # t
    <3>1. s5'[u] = s5[u] /\ s6'[u] = s6[u] BY <1>2, <1>3, <2>2
    <3> QED BY <3>1 DEF MPMC!InvConsumer, MPMC!Reads
  <2> QED BY <2>1, <2>2
<1> QED BY <1>5, <1>6, <1>7, <1>8, <1>9, <1>10

\* What the invariant says of the thread that moves.
LEMMA RingThread ==
  ASSUME MPMC!Inv, NEW t \in MPMC!Threads
  PROVE  /\ s5[t] \in {"idle", "look", "claim", "write", "publish", "read", "release"}
         /\ s6[t] \in Nat /\ s1 \in Nat /\ s2 \in Nat
         /\ t \in Producers => MPMC!InvProducer(t)
         /\ t \in Consumers => MPMC!InvConsumer(t)
         /\ \A l : l \in {"idle", "look", "claim", "write", "publish", "read", "release"} =>
              /\ [s5 EXCEPT ![t] = l] \in
                   [MPMC!Threads -> {"idle", "look", "claim", "write", "publish", "read", "release"}]
              /\ [s5 EXCEPT ![t] = l][t] = l
              /\ \A u \in MPMC!Threads : u # t => [s5 EXCEPT ![t] = l][u] = s5[u]
BY DEF MPMC!Inv, MPMC!InvTypes

LEMMA RingPushClaims ==
  ASSUME MPMC!Inv, NEW t \in Producers, MPMC!PushClaims(t)
  PROVE  MPMC!Inv'
<1> USE DEF MPMC!Inv
<1>1. Producers \subseteq MPMC!Threads /\ Consumers \subseteq MPMC!Threads BY DEF MPMC!Threads
<1>2. PICK h \in Nat, p \in Nat, c \in Nat : h = s1 /\ p = s2 /\ c = RingCells /\ c >= 2
  BY RingCellOf DEF MPMC!InvTypes
<1>3. /\ s6[t] = p /\ s2' = p + 1 /\ s5' = [s5 EXCEPT ![t] = "write"] /\ s5[t] = "claim"
      /\ s8' = [s8 EXCEPT ![p] = MPMC!Value(t)]
      /\ UNCHANGED <<s1, s3, s4, s6, s7, s9>>
  BY <1>2 DEF MPMC!PushClaims, MPMC!ClaimForPush, MPMC!Goto
<1>4. /\ s5'[t] = "write" /\ \A u \in MPMC!Threads : u # t => s5'[u] = s5[u]
      /\ s5' \in [MPMC!Threads -> {"idle", "look", "claim", "write", "publish", "read", "release"}]
  BY <1>1, <1>3, RingThread
<1>5. s3[MPMC!Cell(p)] = p BY <1>2, <1>3 DEF MPMC!InvProducer
<1>6. p < h + c
  <2>1. h <= p /\ p <= h + c BY <1>2 DEF MPMC!InvTypes
  <2>2. ASSUME p = h + c PROVE FALSE
    <3>1. MPMC!Cell(p) = MPMC!Cell(h) BY <1>2, <2>2, RingCellOf
    <3>2. h \in h..p - 1 BY <1>2, <2>2
    <3>3. s3[MPMC!Cell(h)] \in {h, h + 1} BY <1>2, <3>2 DEF MPMC!InvCells
    <3> QED BY <1>2, <1>5, <2>2, <3>1, <3>3
  <2> QED BY <2>1, <2>2
<1>7. MPMC!InvTypes'
  <2>1. h <= p + 1 /\ p + 1 <= h + c /\ p + 1 \in Nat BY <1>2, <1>6 DEF MPMC!InvTypes
  <2>2. ASSUME NEW u \in Producers PROVE ~MPMC!Reads(u)'
    BY <1>1, <1>4 DEF MPMC!InvTypes, MPMC!Reads
  <2>3. ASSUME NEW u \in Consumers PROVE ~MPMC!Writes(u)'
    BY <1>1, <1>4, ThreadsAssumption DEF MPMC!InvTypes, MPMC!Writes
  <2>4. DOMAIN s8' = DOMAIN s8 BY <1>3
  <2> QED BY <1>2, <1>3, <1>4, <2>1, <2>2, <2>3, <2>4 DEF MPMC!InvTypes
<1>8. MPMC!InvCells'
  <2>1. ASSUME NEW i \in h..p
        PROVE  /\ s3[MPMC!Cell(i)] \in {i, i + 1}
               /\ s3[MPMC!Cell(i)] = i + 1 /\ i \in MPMC!Positions => s4[MPMC!Cell(i)] = s8'[i]
    <3>1. CASE i = p BY <1>2, <1>5, <3>1
    <3>2. CASE i # p
      <4>1. i \in s1..s2 - 1 BY <1>2, <3>2
      <4>2. s8'[i] = s8[i] BY <1>3, <3>2 DEF MPMC!InvTypes
      <4> QED BY <4>1, <4>2 DEF MPMC!InvCells
    <3> QED BY <3>1, <3>2
  <2>2. \A i \in p + 1..h + c - 1 : i \in p..h + c - 1 BY <1>2
  <2> QED BY <1>2, <1>3, <2>1, <2>2 DEF MPMC!InvCells
<1>9. MPMC!InvApart'
  <2>1. ASSUME NEW u \in Producers, u # t, MPMC!Writes(u) PROVE s6[u] # p
    <3>1. s6[u] \in h..p - 1 BY <1>2, <2>1 DEF MPMC!InvProducer
    <3> QED BY <1>2, <3>1
  <2>2. \A u \in Producers : MPMC!Writes(u)' => u = t \/ MPMC!Writes(u)
    BY <1>1, <1>4 DEF MPMC!Writes
  <2>3. \A u \in Consumers : u # t BY ThreadsAssumption
  <2>4. \A u \in Consumers : MPMC!Reads(u)' => MPMC!Reads(u)
    BY <1>1, <1>4, <2>3 DEF MPMC!Reads
  <2> QED BY <1>3, <2>1, <2>2, <2>4 DEF MPMC!InvApart
<1>10. MPMC!InvGot'
  <2>1. ASSUME NEW i \in MPMC!Positions, s9[i] # <<>> PROVE i < h /\ s9[i] = <<s8'[i]>>
    <3>1. i < h /\ s9[i] = <<s8[i]>> /\ i \in Int
      BY <1>2, <2>1 DEF MPMC!InvGot, MPMC!Positions
    <3>2. i # p BY <1>2, <3>1 DEF MPMC!InvTypes
    <3> QED BY <1>3, <3>1, <3>2 DEF MPMC!InvTypes
  <2> QED BY <1>2, <1>3, <2>1 DEF MPMC!InvGot
<1>11. ASSUME NEW u \in Producers PROVE MPMC!InvProducer(u)'
  <2>1. MPMC!Value(u)' = MPMC!Value(u) BY <1>3 DEF MPMC!Value
  <2>2. CASE u = t
    <3>1. p \in MPMC!Positions => s8'[p] = MPMC!Value(t) BY <1>3 DEF MPMC!InvTypes
    <3>2. p \in h..(p + 1) - 1 BY <1>2 DEF MPMC!InvTypes
    <3>3. s6'[u] = p /\ s5'[u] = "write" /\ s3' = s3 BY <1>3, <1>4, <2>2
    <3> QED BY <1>2, <1>3, <1>5, <2>1, <2>2, <3>1, <3>2, <3>3 DEF MPMC!InvProducer, MPMC!Writes
  <2>3. CASE u # t
    <3>1. s5'[u] = s5[u] /\ s6'[u] = s6[u] /\ s6[u] \in Nat /\ MPMC!InvProducer(u)
      BY <1>1, <1>3, <1>4, <2>3, RingThread
    <3>2. s6[u] <= p /\ s6[u] # p + 1 BY <1>2, <3>1 DEF MPMC!InvProducer
    <3>3. MPMC!Writes(u) => s6[u] \in h..p - 1 /\ s6[u] # p
      BY <1>2, <3>1 DEF MPMC!InvProducer
    <3>4. \A i : i # p => s8'[i] = s8[i] \/ i \notin MPMC!Positions BY <1>3 DEF MPMC!InvTypes
    <3>5. MPMC!Writes(u)' <=> MPMC!Writes(u) BY <3>1 DEF MPMC!Writes
    <3>6. MPMC!Writes(u) => s6[u] \in h..(p + 1) - 1 BY <1>2, <3>3
    <3> QED BY <1>2, <1>3, <2>1, <3>1, <3>2, <3>3, <3>4, <3>5, <3>6 DEF MPMC!InvProducer
  <2> QED BY <2>2, <2>3
<1>12. ASSUME NEW u \in Consumers PROVE MPMC!InvConsumer(u)'
  <2>1. u # t BY ThreadsAssumption
  <2>2. s5'[u] = s5[u] /\ s6'[u] = s6[u] /\ s6[u] \in Nat /\ MPMC!InvConsumer(u)
    BY <1>1, <1>3, <1>4, <2>1, RingThread
  <2>3. ASSUME MPMC!Reads(u) PROVE p + 1 <= s6[u] + c /\ s6[u] # p
    <3>1. s6[u] < h /\ p <= s6[u] + c /\ s3[MPMC!Cell(s6[u])] = s6[u] + 1
      BY <1>2, <2>2, <2>3 DEF MPMC!InvConsumer
    <3>2. ASSUME p = s6[u] + c PROVE FALSE
      <4>1. MPMC!Cell(p) = MPMC!Cell(s6[u]) BY <1>2, <2>2, <3>2, RingCellOf
      <4> QED BY <1>2, <1>5, <2>2, <3>1, <3>2, <4>1
    <3> QED BY <1>2, <2>2, <3>1, <3>2 DEF MPMC!InvTypes
  <2>4. MPMC!Reads(u)' <=> MPMC!Reads(u) BY <2>2 DEF MPMC!Reads
  <2>5. s5[u] = "read" => MPMC!Reads(u) BY DEF MPMC!Reads
  <2>6. \A i : i # p => s8'[i] = s8[i] \/ i \notin MPMC!Positions BY <1>3 DEF MPMC!InvTypes
  <2> QED BY <1>2, <1>3, <2>2, <2>3, <2>4, <2>5, <2>6 DEF MPMC!InvConsumer
<1> QED BY <1>7, <1>8, <1>9, <1>10, <1>11, <1>12

LEMMA RingPopClaims ==
  ASSUME MPMC!Inv, NEW t \in Consumers, MPMC!PopClaims(t)
  PROVE  MPMC!Inv'
<1> USE DEF MPMC!Inv
<1>1. Producers \subseteq MPMC!Threads /\ Consumers \subseteq MPMC!Threads BY DEF MPMC!Threads
<1>2. PICK h \in Nat, p \in Nat, c \in Nat : h = s1 /\ p = s2 /\ c = RingCells /\ c >= 2
  BY RingCellOf DEF MPMC!InvTypes
<1>3. /\ s6[t] = h /\ s1' = h + 1 /\ s5' = [s5 EXCEPT ![t] = "read"] /\ s5[t] = "claim"
      /\ UNCHANGED <<s2, s3, s4, s6, s7, s8, s9>>
  BY <1>2 DEF MPMC!PopClaims, MPMC!Goto
<1>4. /\ s5'[t] = "read" /\ \A u \in MPMC!Threads : u # t => s5'[u] = s5[u]
      /\ s5' \in [MPMC!Threads -> {"idle", "look", "claim", "write", "publish", "read", "release"}]
  BY <1>1, <1>3, RingThread
<1>5. s3[MPMC!Cell(h)] = h + 1 BY <1>2, <1>3 DEF MPMC!InvConsumer
<1>6. h < p
  <2>1. h <= p BY <1>2 DEF MPMC!InvTypes
  <2>2. ASSUME h = p PROVE FALSE
    <3>1. h \in p..h + c - 1 BY <1>2, <2>2
    <3>2. s3[MPMC!Cell(h)] \in {h, h - c + 1} BY <1>2, <3>1 DEF MPMC!InvCells
    <3> QED BY <1>2, <1>5, <3>2
  <2> QED BY <1>2, <2>1, <2>2
<1>7. MPMC!InvTypes'
  <2>1. h + 1 <= p /\ p <= (h + 1) + c /\ h + 1 \in Nat BY <1>2, <1>6 DEF MPMC!InvTypes
  <2>2. ASSUME NEW u \in Producers PROVE ~MPMC!Reads(u)'
    BY <1>1, <1>4, ThreadsAssumption DEF MPMC!InvTypes, MPMC!Reads
  <2>3. ASSUME NEW u \in Consumers PROVE ~MPMC!Writes(u)'
    BY <1>1, <1>4 DEF MPMC!InvTypes, MPMC!Writes
  <2> QED BY <1>2, <1>3, <1>4, <2>1, <2>2, <2>3 DEF MPMC!InvTypes
<1>8. MPMC!InvCells'
  <2>1. \A i \in h + 1..p - 1 : i \in h..p - 1 BY <1>2
  <2>2. ASSUME NEW i \in p..(h + 1) + c - 1
        PROVE  s3[MPMC!Cell(i)] \in {i, i - c + 1}
    <3>1. CASE i = h + c
      <4>1. MPMC!Cell(i) = MPMC!Cell(h) BY <1>2, <3>1, RingCellOf
      <4> QED BY <1>2, <1>5, <3>1, <4>1
    <3>2. CASE i # h + c
      <4>1. i \in p..h + c - 1 BY <1>2, <3>2
      <4> QED BY <1>2, <4>1 DEF MPMC!InvCells
    <3> QED BY <3>1, <3>2
  <2> QED BY <1>2, <1>3, <2>1, <2>2 DEF MPMC!InvCells
<1>9. MPMC!InvApart'
  <2>1. ASSUME NEW u \in Consumers, u # t, MPMC!Reads(u) PROVE s6[u] # h
    <3>1. s6[u] < h /\ s6[u] \in Nat BY <1>1, <1>2, <2>1, RingThread DEF MPMC!InvConsumer
    <3> QED BY <1>2, <3>1
  <2>2. \A u \in Consumers : MPMC!Reads(u)' => u = t \/ MPMC!Reads(u)
    BY <1>1, <1>4 DEF MPMC!Reads
  <2>3. \A u \in Producers : u # t BY ThreadsAssumption
  <2>4. \A u \in Producers : MPMC!Writes(u)' => MPMC!Writes(u)
    BY <1>1, <1>4, <2>3 DEF MPMC!Writes
  <2> QED BY <1>3, <2>1, <2>2, <2>4 DEF MPMC!InvApart
<1>10. MPMC!InvGot'
  <2>1. ASSUME NEW i \in MPMC!Positions, s9[i] # <<>> PROVE i < h + 1 /\ s9[i] = <<s8[i]>>
    <3>1. i < h /\ s9[i] = <<s8[i]>> /\ i \in Int
      BY <1>2, <2>1 DEF MPMC!InvGot, MPMC!Positions
    <3> QED BY <1>2, <3>1
  <2> QED BY <1>2, <1>3, <2>1 DEF MPMC!InvGot
<1>11. ASSUME NEW u \in Producers PROVE MPMC!InvProducer(u)'
  <2>1. u # t BY ThreadsAssumption
  <2>2. s5'[u] = s5[u] /\ s6'[u] = s6[u] /\ s6[u] \in Nat /\ MPMC!InvProducer(u)
    BY <1>1, <1>3, <1>4, <2>1, RingThread
  <2>3. MPMC!Value(u)' = MPMC!Value(u) BY <1>3 DEF MPMC!Value
  <2>4. MPMC!Writes(u)' <=> MPMC!Writes(u) BY <2>2 DEF MPMC!Writes
  <2>5. ASSUME MPMC!Writes(u) PROVE s6[u] \in h + 1..p - 1
    <3>1. s6[u] \in h..p - 1 /\ s3[MPMC!Cell(s6[u])] = s6[u]
      BY <1>2, <2>2, <2>5 DEF MPMC!InvProducer
    <3>2. s6[u] # h BY <1>2, <1>5, <3>1
    <3> QED BY <1>2, <3>1, <3>2
  <2> QED BY <1>2, <1>3, <2>2, <2>3, <2>4, <2>5 DEF MPMC!InvProducer
<1>12. ASSUME NEW u \in Consumers PROVE MPMC!InvConsumer(u)'
  <2>1. CASE u = t
    <3>1. s6'[u] = h /\ s5'[u] = "read" /\ s3' = s3 /\ s4' = s4 /\ s8' = s8 /\ s2' = p
      BY <1>2, <1>3, <1>4, <2>1
    <3>2. h \in MPMC!Positions => s4[MPMC!Cell(h)] = s8[h]
      <4>1. h \in h..p - 1 BY <1>2, <1>6
      <4> QED BY <1>2, <1>5, <4>1 DEF MPMC!InvCells
    <3>3. h < h + 1 /\ p <= h + c BY <1>2 DEF MPMC!InvTypes
    <3>4. h \in MPMC!Positions => s9'[h] = <<>> BY <1>2, <1>3 DEF MPMC!InvGot
    <3> QED BY <1>2, <1>3, <1>5, <3>1, <3>2, <3>3, <3>4 DEF MPMC!InvConsumer
  <2>2. CASE u # t
    <3>1. s5'[u] = s5[u] /\ s6'[u] = s6[u] /\ s6[u] \in Nat /\ MPMC!InvConsumer(u)
      BY <1>1, <1>3, <1>4, <2>2, RingThread
    <3>2. s6[u] <= h /\ s6[u] # h + 1 /\ s6[u] <= h + 1
      BY <1>2, <3>1 DEF MPMC!InvConsumer
    <3>3. MPMC!Reads(u)' <=> MPMC!Reads(u) BY <3>1 DEF MPMC!Reads
    <3>4. MPMC!Reads(u) => s6[u] < h + 1 BY <1>2, <3>1 DEF MPMC!InvConsumer
    <3> QED BY <1>2, <1>3, <3>1, <3>2, <3>3, <3>4 DEF MPMC!InvConsumer
  <2> QED BY <2>1, <2>2
<1> QED BY <1>7, <1>8, <1>9, <1>10, <1>11, <1>12

LEMMA RingPushWrites ==
  ASSUME MPMC!Inv, NEW t \in Producers, MPMC!PushWrites(t)
  PROVE  MPMC!Inv'
<1> USE DEF MPMC!Inv
<1>1. Producers \subseteq MPMC!Threads /\ Consumers \subseteq MPMC!Threads BY DEF MPMC!Threads
<1>2. PICK h \in Nat, e \in Nat, c \in Nat, p \in Nat :
         h = s1 /\ e = s2 /\ c = RingCells /\ c >= 2 /\ p = s6[t]
  BY <1>1, RingCellOf, RingThread
<1>3. /\ s4' = [s4 EXCEPT ![MPMC!Cell(p)] = MPMC!Value(t)]
      /\ s5' = [s5 EXCEPT ![t] = "publish"] /\ s5[t] = "write"
      /\ UNCHANGED <<s1, s2, s3, s6, s7, s8, s9>>
  BY <1>2 DEF MPMC!PushWrites, MPMC!Goto
<1>4. /\ s5'[t] = "publish" /\ \A u \in MPMC!Threads : u # t => s5'[u] = s5[u]
      /\ s5' \in [MPMC!Threads -> {"idle", "look", "claim", "write", "publish", "read", "release"}]
  BY <1>1, <1>3, RingThread
<1>5. MPMC!Writes(t) /\ MPMC!InvProducer(t) BY <1>3 DEF MPMC!Writes
<1>6. p \in h..e - 1 /\ s3[MPMC!Cell(p)] = p BY <1>2, <1>5 DEF MPMC!InvProducer
<1>7. MPMC!Cell(p) \in MPMC!Cells /\ MPMC!Cell(p) \in DOMAIN s4
  BY <1>2, RingCellOf DEF MPMC!InvTypes
<1>8. /\ s4'[MPMC!Cell(p)] = MPMC!Value(t) /\ DOMAIN s4' = DOMAIN s4
      /\ \A i : i # MPMC!Cell(p) => s4'[i] = s4[i] \/ i \notin MPMC!Cells
  BY <1>3, <1>7 DEF MPMC!InvTypes
<1>9. MPMC!InvTypes'
  <2>1. ASSUME NEW u \in Producers PROVE ~MPMC!Reads(u)'
    BY <1>1, <1>4 DEF MPMC!InvTypes, MPMC!Reads
  <2>2. ASSUME NEW u \in Consumers PROVE ~MPMC!Writes(u)'
    BY <1>1, <1>4, ThreadsAssumption DEF MPMC!InvTypes, MPMC!Writes
  <2> QED BY <1>3, <1>4, <1>8, <2>1, <2>2 DEF MPMC!InvTypes
<1>10. MPMC!InvCells'
  <2>1. ASSUME NEW i \in h..e - 1, s3[MPMC!Cell(i)] = i + 1
        PROVE  s4'[MPMC!Cell(i)] = s4[MPMC!Cell(i)]
    <3>1. i \in Nat /\ i # p BY <1>2, <1>6, <2>1
    <3>2. h <= i /\ i < e /\ h <= p /\ p < e /\ e <= h + c BY <1>2, <1>6 DEF MPMC!InvTypes
    <3>3. (i < p /\ p < i + c) \/ (p < i /\ i < p + c) BY <1>2, <3>1, <3>2
    <3>4. MPMC!Cell(i) # MPMC!Cell(p) BY <1>2, <3>1, <3>3, RingCellOf
    <3> QED BY <1>8, <3>1, <3>4, RingCellOf
  <2> QED BY <1>2, <1>3, <2>1 DEF MPMC!InvCells
<1>11. MPMC!InvApart'
  <2>1. \A u \in Producers : MPMC!Writes(u)' <=> MPMC!Writes(u)
    BY <1>1, <1>3, <1>4 DEF MPMC!Writes
  <2>2. \A u \in Consumers : MPMC!Reads(u)' <=> MPMC!Reads(u)
    BY <1>1, <1>3, <1>4 DEF MPMC!Reads
  <2> QED BY <1>3, <2>1, <2>2 DEF MPMC!InvApart
<1>12. MPMC!InvGot' BY <1>3 DEF MPMC!InvGot
<1>13. ASSUME NEW u \in Producers PROVE MPMC!InvProducer(u)'
  <2>1. MPMC!Value(u)' = MPMC!Value(u) BY <1>3 DEF MPMC!Value
  <2>2. CASE u = t
    <3>1. s6'[u] = p /\ s5'[u] = "publish" /\ s8' = s8 /\ MPMC!Writes(t)
      BY <1>2, <1>3, <1>4, <1>5, <2>2
    <3>2. s4'[MPMC!Cell(s6'[u])] = MPMC!Value(u) BY <1>8, <2>2, <3>1
    <3> QED BY <1>2, <1>3, <1>5, <2>1, <2>2, <3>1, <3>2 DEF MPMC!InvProducer
  <2>3. CASE u # t
    <3>1. s5'[u] = s5[u] /\ s6'[u] = s6[u] /\ s6[u] \in Nat /\ MPMC!InvProducer(u)
      BY <1>1, <1>3, <1>4, <2>3, RingThread
    <3>2. ASSUME s5[u] = "publish" PROVE s4'[MPMC!Cell(s6[u])] = s4[MPMC!Cell(s6[u])]
      <4>1. MPMC!Writes(u) BY <3>2 DEF MPMC!Writes
      <4>2. s6[u] # p /\ s3[MPMC!Cell(s6[u])] = s6[u]
        BY <1>2, <1>5, <2>3, <3>1, <4>1 DEF MPMC!InvApart, MPMC!InvProducer
      <4>3. MPMC!Cell(s6[u]) # MPMC!Cell(p) BY <1>6, <4>2
      <4> QED BY <1>8, <3>1, <4>3, RingCellOf
    <3>3. MPMC!Writes(u)' <=> MPMC!Writes(u) BY <3>1 DEF MPMC!Writes
    <3> QED BY <1>3, <2>1, <3>1, <3>2, <3>3 DEF MPMC!InvProducer
  <2> QED BY <2>2, <2>3
<1>14. ASSUME NEW u \in Consumers PROVE MPMC!InvConsumer(u)'
  <2>1. u # t BY ThreadsAssumption
  <2>2. s5'[u] = s5[u] /\ s6'[u] = s6[u] /\ s6[u] \in Nat /\ MPMC!InvConsumer(u)
    BY <1>1, <1>3, <1>4, <2>1, RingThread
  <2>3. ASSUME s5[u] = "read" PROVE s4'[MPMC!Cell(s6[u])] = s4[MPMC!Cell(s6[u])]
    <3>1. MPMC!Reads(u) BY <2>3 DEF MPMC!Reads
    <3>2. s6[u] < h /\ s3[MPMC!Cell(s6[u])] = s6[u] + 1
      BY <1>2, <2>2, <3>1 DEF MPMC!InvConsumer
    <3>3. MPMC!Cell(s6[u]) # MPMC!Cell(p)
      <4> SUFFICES ASSUME MPMC!Cell(s6[u]) = MPMC!Cell(p) PROVE FALSE OBVIOUS
      <4>1. p = s6[u] + 1 BY <1>6, <3>2
      <4>2. s6[u] < p /\ p < s6[u] + c BY <1>2, <2>2, <4>1
      <4> QED BY <1>2, <2>2, <4>2, RingCellOf
    <3> QED BY <1>8, <2>2, <3>3, RingCellOf
  <2>4. MPMC!Reads(u)' <=> MPMC!Reads(u) BY <2>2 DEF MPMC!Reads
  <2> QED BY <1>3, <2>2, <2>3, <2>4 DEF MPMC!InvConsumer
<1> QED BY <1>9, <1>10, <1>11, <1>12, <1>13, <1>14

LEMMA RingPopReads ==
  ASSUME MPMC!Inv, NEW t \in Consumers, MPMC!PopReads(t)
  PROVE  MPMC!Inv'
<1> USE DEF MPMC!Inv
<1>1. Producers \subseteq MPMC!Threads /\ Consumers \subseteq MPMC!Threads BY DEF MPMC!Threads
<1>2. PICK p \in Nat : p = s6[t] BY <1>1, RingThread
<1>3. /\ s9' = [s9 EXCEPT ![p] = Append(@, s4[MPMC!Cell(p)])]
      /\ s5' = [s5 EXCEPT ![t] = "release"] /\ s5[t] = "read"
      /\ UNCHANGED <<s1, s2, s3, s4, s6, s7, s8>>
  BY <1>2 DEF MPMC!PopReads, MPMC!Goto
<1>4. /\ s5'[t] = "release" /\ \A u \in MPMC!Threads : u # t => s5'[u] = s5[u]
      /\ s5' \in [MPMC!Threads -> {"idle", "look", "claim", "write", "publish", "read", "release"}]
  BY <1>1, <1>3, RingThread
<1>5. MPMC!Reads(t) /\ MPMC!InvConsumer(t) BY <1>3 DEF MPMC!Reads
<1>6. p < s1 /\ (p \in MPMC!Positions => s4[MPMC!Cell(p)] = s8[p] /\ s9[p] = <<>>)
  BY <1>2, <1>3, <1>5 DEF MPMC!InvConsumer
<1>7. \A u \in Producers : MPMC!Writes(u)' <=> MPMC!Writes(u)
  BY <1>1, <1>4, ThreadsAssumption DEF MPMC!Writes
<1>8. \A u \in Consumers : MPMC!Reads(u)' <=> MPMC!Reads(u)
  BY <1>1, <1>3, <1>4 DEF MPMC!Reads
<1>9. MPMC!InvTypes'
  <2>1. ASSUME NEW u \in Producers PROVE ~MPMC!Reads(u)'
    BY <1>1, <1>4, ThreadsAssumption DEF MPMC!InvTypes, MPMC!Reads
  <2>2. ASSUME NEW u \in Consumers PROVE ~MPMC!Writes(u)'
    BY <1>1, <1>4 DEF MPMC!InvTypes, MPMC!Writes
  <2>3. DOMAIN s9' = DOMAIN s9 BY <1>3
  <2> QED BY <1>3, <1>4, <2>1, <2>2, <2>3 DEF MPMC!InvTypes
<1>10. MPMC!InvCells' BY <1>3 DEF MPMC!InvCells
<1>11. MPMC!InvApart' BY <1>3, <1>7, <1>8 DEF MPMC!InvApart
<1>12. MPMC!InvGot'
  <2>1. ASSUME p \in MPMC!Positions PROVE s9'[p] = <<s8[p]>>
    <3>1. \A x : Append(<<>>, x) = <<x>> OBVIOUS
    <3>2. s9'[p] = Append(s9[p], s4[MPMC!Cell(p)]) BY <1>3, <2>1 DEF MPMC!InvTypes
    <3> QED BY <1>6, <2>1, <3>1, <3>2
  <2>2. ASSUME NEW i \in MPMC!Positions, i # p PROVE s9'[i] = s9[i]
    BY <1>3, <2>2 DEF MPMC!InvTypes
  <2> QED BY <1>3, <1>6, <2>1, <2>2 DEF MPMC!InvGot
<1>13. ASSUME NEW u \in Producers PROVE MPMC!InvProducer(u)'
  <2>1. u # t BY ThreadsAssumption
  <2>2. s5'[u] = s5[u] /\ s6'[u] = s6[u] BY <1>1, <1>3, <1>4, <2>1
  <2>3. MPMC!Value(u)' = MPMC!Value(u) BY <1>3 DEF MPMC!Value
  <2> QED BY <1>3, <1>7, <2>2, <2>3 DEF MPMC!InvProducer
<1>14. ASSUME NEW u \in Consumers PROVE MPMC!InvConsumer(u)'
  <2>1. s5'[u] = s5[u] \/ s5'[u] = "release" BY <1>1, <1>4
  <2>2. s6'[u] = s6[u] BY <1>3
  <2>3. ASSUME s5'[u] = "read", s6[u] \in MPMC!Positions PROVE s9'[s6[u]] = <<>>
    <3>1. u # t /\ s5[u] = "read" BY <1>1, <1>4, <2>3
    <3>2. s6[u] # p BY <1>2, <1>5, <3>1 DEF MPMC!InvApart, MPMC!Reads
    <3>3. s9'[s6[u]] = s9[s6[u]] BY <1>3, <2>3, <3>2 DEF MPMC!InvTypes
    <3> QED BY <2>3, <3>1, <3>3 DEF MPMC!InvConsumer
  <2> QED BY <1>3, <1>8, <2>1, <2>2, <2>3 DEF MPMC!InvConsumer
<1> QED BY <1>9, <1>10, <1>11, <1>12, <1>13, <1>14

\* A cell is handed on: the calls of the others see the same places as before.
LEMMA RingHand ==
  ASSUME MPMC!Inv, NEW t \in MPMC!Threads, NEW p \in Nat, p = s6[t], NEW n \in Int,
         s3' = [s3 EXCEPT ![MPMC!Cell(p)] = n], s5' = [s5 EXCEPT ![t] = "idle"],
         UNCHANGED <<s1, s2, s4, s6, s7, s8, s9>>,
         \A u \in Producers \ {t} : MPMC!Writes(u) \/ (s5[u] = "claim" /\ s6[u] = s2) =>
             MPMC!Cell(s6[u]) # MPMC!Cell(p),
         \A u \in Consumers \ {t} : MPMC!Reads(u) \/ (s5[u] = "claim" /\ s6[u] = s1) =>
             MPMC!Cell(s6[u]) # MPMC!Cell(p),
         MPMC!InvCells'
  PROVE  MPMC!Inv'
<1> USE DEF MPMC!Inv
<1>1. Producers \subseteq MPMC!Threads /\ Consumers \subseteq MPMC!Threads BY DEF MPMC!Threads
<1>2. /\ s5'[t] = "idle" /\ \A u \in MPMC!Threads : u # t => s5'[u] = s5[u]
      /\ s5' \in [MPMC!Threads -> {"idle", "look", "claim", "write", "publish", "read", "release"}]
  BY <1>1, RingThread
<1>3. /\ s3' \in [MPMC!Cells -> Int]
      /\ \A q \in Nat : MPMC!Cell(q) # MPMC!Cell(p) => s3'[MPMC!Cell(q)] = s3[MPMC!Cell(q)]
  BY RingCellOf DEF MPMC!InvTypes
<1>4. \A u \in MPMC!Threads : (MPMC!Writes(u)' <=> u # t /\ MPMC!Writes(u))
                              /\ (MPMC!Reads(u)' <=> u # t /\ MPMC!Reads(u))
  BY <1>2 DEF MPMC!Writes, MPMC!Reads
<1>5. MPMC!InvTypes' BY <1>1, <1>2, <1>3, <1>4 DEF MPMC!InvTypes
<1>6. MPMC!InvApart' BY <1>1, <1>4 DEF MPMC!InvApart
<1>7. MPMC!InvGot' BY DEF MPMC!InvGot
<1>8. ASSUME NEW u \in Producers PROVE MPMC!InvProducer(u)'
  <2>1. s6'[u] = s6[u] /\ s6[u] \in Nat BY <1>1, RingThread
  <2>2. CASE u = t
    <3>1. ~MPMC!Writes(u)' /\ s5'[u] = "idle" BY <1>1, <1>2, <1>4, <2>2
    <3> QED BY <2>1, <3>1 DEF MPMC!InvProducer
  <2>3. CASE u # t
    <3>1. s5'[u] = s5[u] /\ (MPMC!Writes(u)' <=> MPMC!Writes(u)) BY <1>1, <1>2, <1>4, <2>3
    <3>2. MPMC!Value(u)' = MPMC!Value(u) BY DEF MPMC!Value
    <3>3. MPMC!Writes(u) \/ (s5[u] = "claim" /\ s6[u] = s2) =>
            s3'[MPMC!Cell(s6[u])] = s3[MPMC!Cell(s6[u])]
      BY <1>3, <2>1, <2>3
    <3> QED BY <2>1, <3>1, <3>2, <3>3 DEF MPMC!InvProducer
  <2> QED BY <2>2, <2>3
<1>9. ASSUME NEW u \in Consumers PROVE MPMC!InvConsumer(u)'
  <2>1. s6'[u] = s6[u] /\ s6[u] \in Nat BY <1>1, RingThread
  <2>2. CASE u = t
    <3>1. ~MPMC!Reads(u)' /\ s5'[u] = "idle" BY <1>1, <1>2, <1>4, <2>2
    <3> QED BY <2>1, <3>1 DEF MPMC!InvConsumer
  <2>3. CASE u # t
    <3>1. s5'[u] = s5[u] /\ (MPMC!Reads(u)' <=> MPMC!Reads(u)) BY <1>1, <1>2, <1>4, <2>3
    <3>2. MPMC!Reads(u) \/ (s5[u] = "claim" /\ s6[u] = s1) =>
            s3'[MPMC!Cell(s6[u])] = s3[MPMC!Cell(s6[u])]
      BY <1>3, <2>1, <2>3
    <3> QED BY <2>1, <3>1, <3>2 DEF MPMC!InvConsumer
  <2> QED BY <2>2, <2>3
<1> QED BY <1>5, <1>6, <1>7, <1>8, <1>9

LEMMA RingPushPublishes ==
  ASSUME MPMC!Inv, NEW t \in Producers, MPMC!PushPublishes(t)
  PROVE  MPMC!Inv'
<1>1. Producers \subseteq MPMC!Threads /\ Consumers \subseteq MPMC!Threads BY DEF MPMC!Threads
<1>2. PICK h \in Nat, e \in Nat, c \in Nat, p \in Nat :
         h = s1 /\ e = s2 /\ c = RingCells /\ c >= 2 /\ p = s6[t]
  BY <1>1, RingCellOf, RingThread
<1>3. h <= e /\ e <= h + c BY <1>2 DEF MPMC!Inv, MPMC!InvTypes
<1>4. /\ s3' = [s3 EXCEPT ![MPMC!Cell(p)] = p + 1]
      /\ s5' = [s5 EXCEPT ![t] = "idle"] /\ s5[t] = "publish"
      /\ UNCHANGED <<s1, s2, s4, s6, s7, s8, s9>>
  BY <1>2 DEF MPMC!PushPublishes, MPMC!Hand, MPMC!Goto
<1>5. MPMC!Writes(t) /\ MPMC!InvProducer(t) BY <1>4 DEF MPMC!Writes, MPMC!Inv
<1>6. /\ p \in h..e - 1 /\ s3[MPMC!Cell(p)] = p
      /\ p \in MPMC!Positions => s4[MPMC!Cell(p)] = s8[p]
  BY <1>2, <1>4, <1>5 DEF MPMC!InvProducer
<1>7. \A q \in Nat : MPMC!Cell(q) # MPMC!Cell(p) => s3'[MPMC!Cell(q)] = s3[MPMC!Cell(q)]
  BY <1>4, RingCellOf DEF MPMC!Inv, MPMC!InvTypes
<1>8. s3'[MPMC!Cell(p)] = p + 1 BY <1>2, <1>4, RingCellOf DEF MPMC!Inv, MPMC!InvTypes
<1>9. ASSUME NEW q \in h..h + c - 1, q # p PROVE MPMC!Cell(q) # MPMC!Cell(p)
  <2>1. q \in Nat /\ ((q < p /\ p < q + c) \/ (p < q /\ q < p + c)) BY <1>2, <1>3, <1>6, <1>9
  <2> QED BY <1>2, <2>1, RingCellOf
<1>10. MPMC!InvCells'
  <2>1. ASSUME NEW i \in h..e - 1
        PROVE  /\ s3'[MPMC!Cell(i)] \in {i, i + 1}
               /\ s3'[MPMC!Cell(i)] = i + 1 /\ i \in MPMC!Positions => s4[MPMC!Cell(i)] = s8[i]
    <3>1. CASE i = p BY <1>6, <1>8, <3>1
    <3>2. CASE i # p
      <4>1. i \in Nat /\ i \in h..h + c - 1 BY <1>2, <1>3
      <4>2. s3'[MPMC!Cell(i)] = s3[MPMC!Cell(i)] BY <1>7, <1>9, <3>2, <4>1
      <4> QED BY <1>2, <4>2 DEF MPMC!Inv, MPMC!InvCells
    <3> QED BY <3>1, <3>2
  <2>2. ASSUME NEW i \in e..h + c - 1 PROVE s3'[MPMC!Cell(i)] \in {i, i - c + 1}
    <3>1. i \in Nat /\ i \in h..h + c - 1 /\ i # p BY <1>2, <1>3, <1>6
    <3>2. s3'[MPMC!Cell(i)] = s3[MPMC!Cell(i)] BY <1>7, <1>9, <3>1
    <3> QED BY <1>2, <3>2 DEF MPMC!Inv, MPMC!InvCells
  <2> QED BY <1>2, <1>4, <2>1, <2>2 DEF MPMC!InvCells
<1>11. ASSUME NEW u \in Producers \ {t}, MPMC!Writes(u) \/ (s5[u] = "claim" /\ s6[u] = s2)
       PROVE  MPMC!Cell(s6[u]) # MPMC!Cell(p)
  <2>1. MPMC!InvProducer(u) /\ s6[u] \in Nat BY <1>1, RingThread
  <2>2. s3[MPMC!Cell(s6[u])] = s6[u] BY <1>11, <2>1 DEF MPMC!InvProducer
  <2>3. s6[u] # p
    <3>1. CASE MPMC!Writes(u) BY <1>2, <1>5, <3>1 DEF MPMC!Inv, MPMC!InvApart
    <3>2. CASE s6[u] = s2 BY <1>2, <1>6, <3>2
    <3> QED BY <1>11, <3>1, <3>2
  <2> QED BY <1>6, <2>2, <2>3
<1>12. ASSUME NEW u \in Consumers \ {t}, MPMC!Reads(u) \/ (s5[u] = "claim" /\ s6[u] = s1)
       PROVE  MPMC!Cell(s6[u]) # MPMC!Cell(p)
  <2>1. MPMC!InvConsumer(u) /\ s6[u] \in Nat BY <1>1, RingThread
  <2>2. s3[MPMC!Cell(s6[u])] = s6[u] + 1 /\ s6[u] <= h
    BY <1>2, <1>12, <2>1 DEF MPMC!InvConsumer
  <2> SUFFICES ASSUME MPMC!Cell(s6[u]) = MPMC!Cell(p) PROVE FALSE OBVIOUS
  <2>3. s6[u] + 1 = p BY <1>6, <2>2
  <2>4. s6[u] < p /\ p < s6[u] + c BY <1>2, <2>1, <2>3
  <2> QED BY <1>2, <2>1, <2>4, RingCellOf
<1> QED
  <2>1. MPMC!Inv /\ t \in MPMC!Threads /\ p \in Nat /\ p = s6[t] BY <1>1, <1>2
  <2>2. PICK n \in Int : n = p + 1 BY <1>2
  <2>3. s3' = [s3 EXCEPT ![MPMC!Cell(p)] = n] /\ s5' = [s5 EXCEPT ![t] = "idle"] BY <1>4, <2>2
  <2>4. UNCHANGED <<s1, s2, s4, s6, s7, s8, s9>> BY <1>4
  <2>5. /\ \A u \in Producers \ {t} : MPMC!Writes(u) \/ (s5[u] = "claim" /\ s6[u] = s2) =>
              MPMC!Cell(s6[u]) # MPMC!Cell(p)
        /\ \A u \in Consumers \ {t} : MPMC!Reads(u) \/ (s5[u] = "claim" /\ s6[u] = s1) =>
              MPMC!Cell(s6[u]) # MPMC!Cell(p)
    BY <1>11, <1>12
  <2> QED BY ONLY n \in Int, <1>10, <2>1, <2>3, <2>4, <2>5, RingHand, ZenonT(60)

LEMMA RingPopReleases ==
  ASSUME MPMC!Inv, NEW t \in Consumers, MPMC!PopReleases(t)
  PROVE  MPMC!Inv'
<1>1. Producers \subseteq MPMC!Threads /\ Consumers \subseteq MPMC!Threads BY DEF MPMC!Threads
<1>2. PICK h \in Nat, e \in Nat, c \in Nat, p \in Nat :
         h = s1 /\ e = s2 /\ c = RingCells /\ c >= 2 /\ p = s6[t]
  BY <1>1, RingCellOf, RingThread
<1>3. h <= e /\ e <= h + c BY <1>2 DEF MPMC!Inv, MPMC!InvTypes
<1>4. /\ s3' = [s3 EXCEPT ![MPMC!Cell(p)] = p + c]
      /\ s5' = [s5 EXCEPT ![t] = "idle"] /\ s5[t] = "release"
      /\ UNCHANGED <<s1, s2, s4, s6, s7, s8, s9>>
  BY <1>2 DEF MPMC!PopReleases, MPMC!Hand, MPMC!Goto
<1>5. MPMC!Reads(t) /\ MPMC!InvConsumer(t) BY <1>4 DEF MPMC!Reads, MPMC!Inv
<1>6. p < h /\ e <= p + c /\ s3[MPMC!Cell(p)] = p + 1
  BY <1>2, <1>5 DEF MPMC!InvConsumer
<1>7. \A q \in Nat : MPMC!Cell(q) # MPMC!Cell(p) => s3'[MPMC!Cell(q)] = s3[MPMC!Cell(q)]
  BY <1>4, RingCellOf DEF MPMC!Inv, MPMC!InvTypes
<1>8. s3'[MPMC!Cell(p)] = p + c BY <1>2, <1>4, RingCellOf DEF MPMC!Inv, MPMC!InvTypes
<1>9. ASSUME NEW q \in h..h + c - 1, q # p + c PROVE MPMC!Cell(q) # MPMC!Cell(p)
  <2>1. MPMC!Cell(p + c) = MPMC!Cell(p) BY <1>2, RingCellOf
  <2>2. q \in Nat /\ ((q < p + c /\ p + c < q + c) \/ (p + c < q /\ q < (p + c) + c))
    BY <1>2, <1>3, <1>6, <1>9
  <2>3. p + c \in Nat BY <1>2
  <2> QED BY <1>2, <2>1, <2>2, <2>3, RingCellOf
<1>10. MPMC!InvCells'
  <2>1. ASSUME NEW i \in h..e - 1
        PROVE  s3'[MPMC!Cell(i)] = s3[MPMC!Cell(i)]
    <3>1. i \in Nat /\ i \in h..h + c - 1 /\ i # p + c BY <1>2, <1>3, <1>6
    <3> QED BY <1>7, <1>9, <3>1
  <2>2. ASSUME NEW i \in e..h + c - 1 PROVE s3'[MPMC!Cell(i)] \in {i, i - c + 1}
    <3>1. i \in Nat /\ i \in h..h + c - 1 BY <1>2, <1>3
    <3>2. CASE i = p + c
      <4>1. MPMC!Cell(i) = MPMC!Cell(p) BY <1>2, <3>2, RingCellOf
      <4> QED BY <1>8, <3>2, <4>1
    <3>3. CASE i # p + c
      <4>1. s3'[MPMC!Cell(i)] = s3[MPMC!Cell(i)] BY <1>7, <1>9, <3>1, <3>3
      <4> QED BY <1>2, <4>1 DEF MPMC!Inv, MPMC!InvCells
    <3> QED BY <3>2, <3>3
  <2>3. ASSUME NEW i \in h..e - 1
        PROVE  /\ s3'[MPMC!Cell(i)] \in {i, i + 1}
               /\ s3'[MPMC!Cell(i)] = i + 1 /\ i \in MPMC!Positions => s4[MPMC!Cell(i)] = s8[i]
    BY <1>2, <2>1 DEF MPMC!Inv, MPMC!InvCells
  <2> QED BY <1>2, <1>4, <2>2, <2>3 DEF MPMC!InvCells
<1>11. ASSUME NEW u \in Producers \ {t}, MPMC!Writes(u) \/ (s5[u] = "claim" /\ s6[u] = s2)
       PROVE  MPMC!Cell(s6[u]) # MPMC!Cell(p)
  <2>1. MPMC!InvProducer(u) /\ s6[u] \in Nat BY <1>1, RingThread
  <2>2. s3[MPMC!Cell(s6[u])] = s6[u] /\ h <= s6[u]
    BY <1>2, <1>3, <1>11, <2>1 DEF MPMC!InvProducer
  <2> SUFFICES ASSUME MPMC!Cell(s6[u]) = MPMC!Cell(p) PROVE FALSE OBVIOUS
  <2>3. s6[u] = p + 1 BY <1>6, <2>2
  <2>4. p < s6[u] /\ s6[u] < p + c BY <1>2, <2>3
  <2> QED BY <1>2, <2>1, <2>4, RingCellOf
<1>12. ASSUME NEW u \in Consumers \ {t}, MPMC!Reads(u) \/ (s5[u] = "claim" /\ s6[u] = s1)
       PROVE  MPMC!Cell(s6[u]) # MPMC!Cell(p)
  <2>1. MPMC!InvConsumer(u) /\ s6[u] \in Nat BY <1>1, RingThread
  <2>2. s3[MPMC!Cell(s6[u])] = s6[u] + 1 BY <1>12, <2>1 DEF MPMC!InvConsumer
  <2>3. s6[u] # p
    <3>1. CASE MPMC!Reads(u) BY <1>2, <1>5, <3>1 DEF MPMC!Inv, MPMC!InvApart
    <3>2. CASE s6[u] = s1 BY <1>2, <1>6, <3>2
    <3> QED BY <1>12, <3>1, <3>2
  <2> QED BY <1>2, <1>6, <2>1, <2>2, <2>3
<1> QED
  <2>1. MPMC!Inv /\ t \in MPMC!Threads /\ p \in Nat /\ p = s6[t] BY <1>1, <1>2
  <2>2. PICK n \in Int : n = p + c BY <1>2
  <2>3. s3' = [s3 EXCEPT ![MPMC!Cell(p)] = n] /\ s5' = [s5 EXCEPT ![t] = "idle"] BY <1>4, <2>2
  <2>4. UNCHANGED <<s1, s2, s4, s6, s7, s8, s9>> BY <1>4
  <2>5. /\ \A u \in Producers \ {t} : MPMC!Writes(u) \/ (s5[u] = "claim" /\ s6[u] = s2) =>
              MPMC!Cell(s6[u]) # MPMC!Cell(p)
        /\ \A u \in Consumers \ {t} : MPMC!Reads(u) \/ (s5[u] = "claim" /\ s6[u] = s1) =>
              MPMC!Cell(s6[u]) # MPMC!Cell(p)
    BY <1>11, <1>12
  <2> QED BY ONLY n \in Int, <1>10, <2>1, <2>3, <2>4, <2>5, RingHand, ZenonT(60)

\* The same, for a call of push and a call of pop.
LEMMA RingPushMoves ==
  ASSUME MPMC!Inv, NEW t \in Producers, NEW l \in {"idle", "look", "claim"}, NEW n \in Nat,
         UNCHANGED <<s1, s2, s3, s4, s8, s9>>,
         s5' = [s5 EXCEPT ![t] = l], s6' = [s6 EXCEPT ![t] = n],
         s7' = s7 \/ (\E k : s7' = [s7 EXCEPT ![t] = k]),
         n <= s2, l = "claim" => s3[MPMC!Cell(n)] = n
  PROVE  MPMC!Inv'
<1>1. t \in MPMC!Threads /\ t \notin Consumers BY ThreadsAssumption DEF MPMC!Threads
<1>2. DOMAIN s7' = DOMAIN s7 /\ \A u \in Producers : u # t => s7'[u] = s7[u]
  BY DEF MPMC!Inv, MPMC!InvTypes
<1>3. /\ t \in Producers => n <= s2 /\ (l = "claim" /\ n = s2 => s3[MPMC!Cell(n)] = n)
      /\ t \in Consumers => n <= s1 /\ (l = "claim" /\ n = s1 => s3[MPMC!Cell(n)] = n + 1)
  BY <1>1
<1> QED BY <1>1, <1>2, <1>3, RingCallMoves, Zenon

LEMMA RingPopMoves ==
  ASSUME MPMC!Inv, NEW t \in Consumers, NEW l \in {"idle", "look", "claim"}, NEW n \in Nat,
         UNCHANGED <<s1, s2, s3, s4, s7, s8, s9>>,
         s5' = [s5 EXCEPT ![t] = l], s6' = [s6 EXCEPT ![t] = n],
         n <= s1, l = "claim" => s3[MPMC!Cell(n)] = n + 1
  PROVE  MPMC!Inv'
<1>1. t \in MPMC!Threads /\ t \notin Producers BY ThreadsAssumption DEF MPMC!Threads
<1>2. DOMAIN s7' = DOMAIN s7 /\ \A u \in Producers : u # t => s7'[u] = s7[u] OBVIOUS
<1>3. /\ t \in Producers => n <= s2 /\ (l = "claim" /\ n = s2 => s3[MPMC!Cell(n)] = n)
      /\ t \in Consumers => n <= s1 /\ (l = "claim" /\ n = s1 => s3[MPMC!Cell(n)] = n + 1)
  BY <1>1
<1> QED BY <1>1, <1>2, <1>3, RingCallMoves, Zenon

\* What the sequence of the cell decides.
LEMMA RingDecides ==
  ASSUME MPMC!Inv, NEW t \in MPMC!Threads, NEW k \in Int, NEW end \in Nat, MPMC!Look(t, k, end)
  PROVE  \E l \in {"idle", "look", "claim"}, n \in Nat :
           /\ s5' = [s5 EXCEPT ![t] = l] /\ s6' = [s6 EXCEPT ![t] = n]
           /\ n = s6[t] \/ n = end
           /\ l = "claim" => n = s6[t] /\ s3[MPMC!Cell(n)] = k
           /\ UNCHANGED <<s1, s2, s3, s4, s7, s8, s9>>
<1>1. PICK p \in Nat : p = s6[t] BY RingThread
<1>2. s3[MPMC!Cell(p)] \in Int BY RingCellOf DEF MPMC!Inv, MPMC!InvTypes
<1>3. PICK d \in Int : d = MPMC!Diff(t, k) /\ d = s3[MPMC!Cell(p)] - k
  BY <1>1, <1>2 DEF MPMC!Diff
<1>4. /\ s5' = [s5 EXCEPT ![t] = IF d = 0 THEN "claim" ELSE IF d < 0 THEN "idle" ELSE "look"]
      /\ s6' = IF d > 0 THEN [s6 EXCEPT ![t] = end] ELSE s6
      /\ UNCHANGED <<s1, s2, s3, s4, s7, s8, s9>>
  BY <1>3 DEF MPMC!Look, MPMC!Goto
<1>5. s6 = [s6 EXCEPT ![t] = p] BY <1>1 DEF MPMC!Inv, MPMC!InvTypes
<1>6. CASE d = 0
  <2>1. s3[MPMC!Cell(p)] = k BY <1>2, <1>3, <1>6
  <2>2. s5' = [s5 EXCEPT ![t] = "claim"] /\ s6' = [s6 EXCEPT ![t] = p] BY <1>4, <1>5, <1>6
  <2> QED BY <1>1, <1>4, <2>1, <2>2
<1>7. CASE d < 0
  <2>1. ~(d = 0) /\ ~(d > 0) BY <1>7
  <2>2. s5' = [s5 EXCEPT ![t] = "idle"] BY <1>4, <1>7, <2>1
  <2>3. s6' = [s6 EXCEPT ![t] = p] BY <1>4, <1>5, <2>1
  <2> QED BY <1>1, <1>4, <2>2, <2>3
<1>8. CASE d > 0
  <2>1. ~(d = 0) /\ ~(d < 0) BY <1>8
  <2>2. s5' = [s5 EXCEPT ![t] = "look"] BY <1>4, <2>1
  <2>3. s6' = [s6 EXCEPT ![t] = end] BY <1>4, <1>8
  <2> QED BY <1>4, <2>2, <2>3
<1> QED BY <1>6, <1>7, <1>8

LEMMA RingStep ==
  ASSUME MPMC!Inv, MPMC!Next
  PROVE  MPMC!Inv'
<1>1. Producers \subseteq MPMC!Threads /\ Consumers \subseteq MPMC!Threads BY DEF MPMC!Threads
<1>2. s1 \in Nat /\ s2 \in Nat BY DEF MPMC!Inv, MPMC!InvTypes
<1>3. ASSUME NEW t \in Producers, MPMC!Push(t) PROVE MPMC!Inv'
  <2>1. s6[t] \in Nat /\ s6[t] <= s2 BY <1>1, RingThread DEF MPMC!InvProducer
  <2>2. CASE MPMC!PushBegin(t) \/ MPMC!ClaimFails(t, s2)
    <3>1. /\ UNCHANGED <<s1, s2, s3, s4, s8, s9>>
          /\ s5' = [s5 EXCEPT ![t] = "look"] /\ s6' = [s6 EXCEPT ![t] = s2]
          /\ s7' = s7 \/ (\E k : s7' = [s7 EXCEPT ![t] = k])
      BY <2>2 DEF MPMC!PushBegin, MPMC!ClaimFails, MPMC!Goto
    <3>2. s2 <= s2 /\ "look" # "claim" BY <1>2
    <3> QED BY <1>2, <3>1, <3>2, RingPushMoves
  <2>3. CASE MPMC!LookForPush(t)
    <3>1. MPMC!Look(t, s6[t], s2) /\ s6[t] \in Int BY <2>1, <2>3 DEF MPMC!LookForPush
    <3>2. PICK l \in {"idle", "look", "claim"}, n \in Nat :
            /\ s5' = [s5 EXCEPT ![t] = l] /\ s6' = [s6 EXCEPT ![t] = n]
            /\ n = s6[t] \/ n = s2
            /\ l = "claim" => n = s6[t] /\ s3[MPMC!Cell(n)] = s6[t]
            /\ UNCHANGED <<s1, s2, s3, s4, s7, s8, s9>>
      BY <1>1, <1>2, <3>1, RingDecides
    <3>3. n <= s2 /\ (l = "claim" => s3[MPMC!Cell(n)] = n) BY <1>2, <2>1, <3>2
    <3>4. UNCHANGED <<s1, s2, s3, s4, s8, s9>> /\ s7' = s7 BY <3>2
    <3> QED BY <3>2, <3>3, <3>4, RingPushMoves
  <2>4. CASE MPMC!PushClaims(t) BY <2>4, RingPushClaims
  <2>5. CASE MPMC!PushWrites(t) BY <2>5, RingPushWrites
  <2>6. CASE MPMC!PushPublishes(t) BY <2>6, RingPushPublishes
  <2> QED BY <1>3, <2>2, <2>3, <2>4, <2>5, <2>6 DEF MPMC!Push
<1>4. ASSUME NEW t \in Consumers, MPMC!Pop(t) PROVE MPMC!Inv'
  <2>1. s6[t] \in Nat /\ s6[t] <= s1 BY <1>1, RingThread DEF MPMC!InvConsumer
  <2>2. CASE MPMC!PopBegin(t) \/ MPMC!ClaimFails(t, s1)
    <3>1. /\ UNCHANGED <<s1, s2, s3, s4, s7, s8, s9>>
          /\ s5' = [s5 EXCEPT ![t] = "look"] /\ s6' = [s6 EXCEPT ![t] = s1]
      BY <2>2 DEF MPMC!PopBegin, MPMC!ClaimFails, MPMC!Goto
    <3>2. s1 <= s1 /\ "look" # "claim" BY <1>2
    <3> QED BY <1>2, <3>1, <3>2, RingPopMoves
  <2>3. CASE MPMC!LookForPop(t)
    <3>1. MPMC!Look(t, s6[t] + 1, s1) /\ s6[t] + 1 \in Int BY <2>1, <2>3 DEF MPMC!LookForPop
    <3>2. PICK l \in {"idle", "look", "claim"}, n \in Nat :
            /\ s5' = [s5 EXCEPT ![t] = l] /\ s6' = [s6 EXCEPT ![t] = n]
            /\ n = s6[t] \/ n = s1
            /\ l = "claim" => n = s6[t] /\ s3[MPMC!Cell(n)] = s6[t] + 1
            /\ UNCHANGED <<s1, s2, s3, s4, s7, s8, s9>>
      BY <1>1, <1>2, <3>1, RingDecides
    <3>3. n <= s1 /\ (l = "claim" => s3[MPMC!Cell(n)] = n + 1) BY <1>2, <2>1, <3>2
    <3> QED BY <3>2, <3>3, RingPopMoves
  <2>4. CASE MPMC!PopClaims(t) BY <2>4, RingPopClaims
  <2>5. CASE MPMC!PopReads(t) BY <2>5, RingPopReads
  <2>6. CASE MPMC!PopReleases(t) BY <2>6, RingPopReleases
  <2> QED BY <1>4, <2>2, <2>3, <2>4, <2>5, <2>6 DEF MPMC!Pop
<1> QED BY <1>3, <1>4 DEF MPMC!Next

LEMMA RingFifo == MPMC!Inv => MPMC!Fifo
BY DEF MPMC!Inv, MPMC!InvGot, MPMC!Fifo

-----------------------------------------------------------------------------
(* Timer.  s1 currentId, s2 timerMap, s3 timer, s4 queued, s5 running,      *)
(* s6 manager, s7 fired, s8 dangling, s9 cut.                               *)

LEMMA TimerCardinality == \A S : Timers!Cardinality(S) = Cardinality(S)
BY DEF Timers!Cardinality, Cardinality

LEMMA TimerStart == Timers!Init => Timers!Inv
<1> SUFFICES ASSUME Timers!Init PROVE Timers!Inv OBVIOUS
<1> USE DEF Timers!Init
<1>1. Timers!Idle \in Timers!Timers
  BY ThreadsAssumption DEF Timers!Idle, Timers!Timers
<1>2. s3 \in [Timers!Ids -> Timers!Timers] /\ s7 \in [Timers!Ids -> Nat] BY <1>1
<1>3. Timers!InvCut BY DEF Timers!Init, Timers!InvCut, Timers!HasTask, Timers!Queued
<1> QED BY <1>2, <1>3, ThreadsAssumption DEF Timers!Inv

LEMMA TimerInTurn == Timers!Inv => Timers!FiresInTurn
<1> SUFFICES ASSUME Timers!Inv, NEW i \in s2
             PROVE  /\ Timers!Occurrences(i) + Timers!Cardinality(s5 \cap {i}) <= 1
                    /\ Timers!Occurrences(i) = 1 \/ i \in s5 => s3[i].remainTime = -1
                    /\ ~s3[i].repeat => s7[i] <= 1
  BY DEF Timers!FiresInTurn, Timers!Inv, Timers!InvCut
<1>1. Timers!InTurn(i) BY DEF Timers!Inv
<1>2. PICK K : K = {k \in DOMAIN s4 : s4[k] = i} OBVIOUS
<1>3. (Timers!Occurrences(i) = 0 /\ ~Timers!Queued(i))
      \/ (Timers!Occurrences(i) = 1 /\ Timers!Queued(i))
  <2>1. Timers!Occurrences(i) = Cardinality(K)
    BY <1>2, TimerCardinality DEF Timers!Occurrences
  <2>2. CASE K = {} BY <1>2, <2>1, <2>2, FS_EmptySet DEF Timers!Queued
  <2>3. CASE K # {}
    <3>1. PICK k : k \in K BY <2>3
    <3>2. K = {k} BY <1>1, <1>2, <3>1 DEF Timers!InTurn, Timers!HasTask
    <3>3. Cardinality(K) = 1 BY <3>2, FS_Singleton
    <3> QED BY <1>2, <2>1, <3>1, <3>3 DEF Timers!Queued
  <2> QED BY <2>2, <2>3
<1>4. Timers!Cardinality(s5 \cap {i}) = IF i \in s5 THEN 1 ELSE 0
  <2>1. CASE i \in s5
    <3>1. s5 \cap {i} = {i} BY <2>1
    <3> QED BY <2>1, <3>1, FS_Singleton, TimerCardinality
  <2>2. CASE i \notin s5
    <3>1. s5 \cap {i} = {} BY <2>2
    <3> QED BY <2>2, <3>1, FS_EmptySet, TimerCardinality
  <2> QED BY <2>1, <2>2
<1> QED BY <1>1, <1>3, <1>4 DEF Timers!InTurn, Timers!HasTask

\* What the invariant says of the timers, once.
LEMMA TimerKnown ==
  ASSUME Timers!Inv
  PROVE  /\ s1 \in Nat /\ s1 <= TimerCount /\ TimerCount \in Nat
         /\ s2 \subseteq Timers!Ids /\ (\A i \in s2 : i \in 1..s1)
         /\ \A k \in DOMAIN s4 : s4[k] \in 1..s1
         /\ \A i \in Timers!Ids :
              /\ s3[i].remainTime \in Int /\ s3[i].repeat \in BOOLEAN /\ s3[i].callback \in BOOLEAN
              /\ s3[i] \in Timers!Timers
<1>1. s1 \in Nat /\ s1 <= TimerCount /\ TimerCount \in Nat
  BY ThreadsAssumption DEF Timers!Inv
<1>2. s2 \subseteq Timers!Ids /\ (\A i \in s2 : i \in 1..s1)
  BY <1>1 DEF Timers!Inv, Timers!Ids
<1>3. \A k \in DOMAIN s4 : s4[k] \in 1..s1 BY DEF Timers!Inv
<1>4. \A i \in Timers!Ids :
         /\ s3[i].remainTime \in Int /\ s3[i].repeat \in BOOLEAN /\ s3[i].callback \in BOOLEAN
         /\ s3[i] \in Timers!Timers
  BY ThreadsAssumption DEF Timers!Inv, Timers!Timers
<1> QED BY <1>1, <1>2, <1>3, <1>4

\* A step that gives no timer a task and removes none keeps the account of removed timers.
LEMMA TimerCut ==
  ASSUME Timers!InvCut, UNCHANGED s9, s2 \subseteq s2',
         \A i \in Timers!Ids : Timers!HasTask(i)' => Timers!HasTask(i) \/ i \in s2,
         \A i \in s8' : i \in s8 \/ (Timers!HasTask(i) /\ i \in Timers!Ids /\ i \notin s2)
  PROVE  Timers!InvCut'
BY DEF Timers!InvCut

LEMMA TimerStarts ==
  ASSUME Timers!Inv, Timers!Start
  PROVE  Timers!Inv'
<1> USE DEF Timers!Start
<1>1. PICK n \in Nat : n = s1 + 1 /\ s1' = n /\ n <= TimerCount /\ n \in Timers!Ids
  BY TimerKnown DEF Timers!Ids
<1>2. s2' = s2 \cup {n} BY <1>1
<1>3. PICK r \in BOOLEAN :
        s3' = [s3 EXCEPT ![s1'] = [Timers!Idle EXCEPT !.repeat = r, !.callback = TRUE]]
  BY Zenon
<1>4. PICK x : x = [Timers!Idle EXCEPT !.repeat = r, !.callback = TRUE] OBVIOUS
<1>5. x \in Timers!Timers
  <2>1. x = [remainTime |-> TimerInterval, repeat |-> r, callback |-> TRUE]
    BY <1>4 DEF Timers!Idle
  <2>2. TimerInterval \in -1..TimerInterval BY ThreadsAssumption
  <2> QED BY <2>1, <2>2 DEF Timers!Timers
<1>6. s3' \in [Timers!Ids -> Timers!Timers] BY <1>1, <1>3, <1>4, <1>5 DEF Timers!Inv
<1>7. n \notin s2 /\ n \notin s5 /\ (\A k \in DOMAIN s4 : s4[k] # n) /\ s7[n] = 0
  BY <1>1, TimerKnown DEF Timers!Inv
<1>8. s4' \in Seq(1..s1') /\ s5' \subseteq 1..s1' /\ s2' \subseteq 1..s1' /\ s1' \in 0..TimerCount
  <2>1. 1..s1 \subseteq 1..n BY <1>1, TimerKnown
  <2>2. Seq(1..s1) \subseteq Seq(1..n) BY <2>1, SeqMonotonic
  <2> QED BY <1>1, <1>2, <2>1, <2>2, TimerKnown DEF Timers!Inv
<1>9. ASSUME NEW i \in s2' PROVE Timers!InTurn(i)'
  <2>1. Timers!Queued(i)' <=> Timers!Queued(i) BY DEF Timers!Queued
  <2>2. CASE i = n
    <3>1. ~Timers!Queued(n) BY <1>7 DEF Timers!Queued
    <3> QED BY <1>7, <2>1, <2>2, <3>1 DEF Timers!InTurn, Timers!HasTask, Timers!Queued
  <2>3. CASE i # n
    <3>1. Timers!InTurn(i) /\ s3'[i] = s3[i]
      BY <1>2, <1>3, <2>3, TimerKnown DEF Timers!Inv
    <3> QED BY <2>1, <3>1 DEF Timers!InTurn, Timers!HasTask
  <2> QED BY <2>2, <2>3
<1>10. \A i \in Timers!Ids : i > s1' => s7'[i] = 0
  <2>1. \A i \in Timers!Ids : i \in Int BY DEF Timers!Ids
  <2> QED BY <1>1, <2>1, TimerKnown DEF Timers!Inv
<1>11. Timers!InvCut'
  BY <1>2, TimerCut DEF Timers!Inv, Timers!HasTask, Timers!Queued
<1> QED BY <1>6, <1>8, <1>9, <1>10, <1>11 DEF Timers!Inv

LEMMA TimerTicks ==
  ASSUME Timers!Inv, Timers!Tick
  PROVE  Timers!Inv'
<1> USE DEF Timers!Tick
<1>1. PICK S : S = Timers!HandedOver OBVIOUS
<1>2. S \subseteq s2 /\ \A i \in S : s3[i].remainTime = 0
  BY <1>1 DEF Timers!HandedOver, Timers!Due
<1>3. Cardinality(S) \in Nat
  <2>1. IsFiniteSet(1..s1) BY TimerKnown, FS_Interval
  <2>2. S \subseteq 1..s1 BY <1>2, TimerKnown
  <2> QED BY <2>1, <2>2, FS_Subset, FS_CardinalityType
<1>4. PICK n \in Nat : n = Timers!Cardinality(S) BY <1>3, TimerCardinality
<1>5. PICK q : q \in Timers!InOrderOfIds(S) /\ s4' = s4 \o q BY <1>1
<1>6. q \in [1..n -> S] /\ \A j, k \in DOMAIN q : j < k => q[j] < q[k]
  BY <1>4, <1>5 DEF Timers!InOrderOfIds
<1>7. \A j, k \in 1..n : q[j] = q[k] => j = k
  <2>1. \A j \in 1..n : q[j] \in Int BY <1>2, <1>6, TimerKnown
  <2> SUFFICES ASSUME NEW j \in 1..n, NEW k \in 1..n, q[j] = q[k], j # k PROVE FALSE OBVIOUS
  <2>2. j < k \/ k < j OBVIOUS
  <2> QED BY <1>6, <2>1, <2>2
<1>8. q \in Seq(1..s1) /\ Len(q) = n
  <2>1. \A j \in 1..n : q[j] \in 1..s1 BY <1>2, <1>6, TimerKnown
  <2>2. q \in [1..n -> 1..s1] BY <1>6, <2>1
  <2> QED BY ONLY n \in Nat, <2>2, SequenceOf
<1>9. PICK m \in Nat : m = Len(s4) BY DEF Timers!Inv
<1>10. /\ s4' \in Seq(1..s1) /\ Len(s4') = m + n /\ DOMAIN s4' = 1..m + n
       /\ \A k \in 1..m : s4'[k] = s4[k]
       /\ \A k \in m + 1..m + n : s4'[k] = q[k - m]
  <2>1. s4 \in Seq(1..s1) /\ q \in Seq(1..s1) /\ m = Len(s4) /\ n = Len(q)
    BY <1>8, <1>9 DEF Timers!Inv
  <2>2. PICK c : c = s4' /\ c = s4 \o q BY <1>5
  <2>3. /\ c \in Seq(1..s1) /\ Len(c) = m + n /\ DOMAIN c = 1..m + n
        /\ \A k \in 1..m : c[k] = s4[k]
        /\ \A k \in 1..n : c[m + k] = q[k]
    BY ONLY <2>1, <2>2, ConcatOf
  <2>4. ASSUME NEW k \in m + 1..m + n PROVE c[k] = q[k - m]
    <3>1. k - m \in 1..n /\ m + (k - m) = k OBVIOUS
    <3>2. c[m + (k - m)] = q[k - m] BY <2>3, <3>1
    <3> QED BY <3>1, <3>2
  <2> QED BY <2>2, <2>3, <2>4
<1>11. DOMAIN s4 = 1..m BY <1>9 DEF Timers!Inv
<1>12. \A i \in Timers!Ids : s3'[i] = IF i \in s2 THEN Timers!Ticked(i) ELSE s3[i] OBVIOUS
<1>13. ASSUME NEW i \in s2
       PROVE  /\ Timers!Ticked(i) \in Timers!Timers /\ Timers!Ticked(i).repeat = s3[i].repeat
              /\ s3[i].remainTime <= 0 => Timers!Ticked(i).remainTime = -1
  <2>1. PICK a \in -1..TimerInterval, r \in BOOLEAN, b \in BOOLEAN :
          s3[i] = [remainTime |-> a, repeat |-> r, callback |-> b]
    BY TimerKnown DEF Timers!Timers
  <2>2. CASE a > 0
    <3>1. Timers!Ticked(i) = [remainTime |-> a - 1, repeat |-> r, callback |-> b]
      BY <2>1, <2>2 DEF Timers!Ticked
    <3>2. a - 1 \in -1..TimerInterval BY <2>2, ThreadsAssumption
    <3> QED BY <2>1, <2>2, <3>1, <3>2 DEF Timers!Timers
  <2>3. CASE ~(a > 0)
    <3>1. Timers!Ticked(i) = [remainTime |-> -1, repeat |-> r, callback |-> b]
      BY <2>1, <2>3 DEF Timers!Ticked
    <3>2. -1 \in -1..TimerInterval BY ThreadsAssumption
    <3> QED BY <2>1, <3>1, <3>2 DEF Timers!Timers
  <2> QED BY <2>2, <2>3
<1>14. s3' \in [Timers!Ids -> Timers!Timers]
  <2>1. \A i \in Timers!Ids : (IF i \in s2 THEN Timers!Ticked(i) ELSE s3[i]) \in Timers!Timers
    BY <1>13, TimerKnown
  <2> QED BY <2>1
<1>15. ASSUME NEW i \in s2 PROVE Timers!InTurn(i)'
  <2>1. Timers!InTurn(i) /\ s3'[i] = Timers!Ticked(i) BY <1>12, TimerKnown DEF Timers!Inv
  <2>2. CASE i \in S
    <3>1. ~Timers!Queued(i) /\ i \notin s5 /\ s3[i].remainTime = 0
      BY <1>2, <2>1, <2>2 DEF Timers!InTurn, Timers!HasTask
    <3>2. \A k \in 1..m : s4'[k] # i BY <1>10, <1>11, <3>1 DEF Timers!Queued
    <3>3. s3'[i].remainTime = -1 /\ s3'[i].repeat = s3[i].repeat
      BY <1>13, <2>1, <3>1
    <3>4. ASSUME NEW j \in DOMAIN s4', NEW k \in DOMAIN s4', s4'[j] = i, s4'[k] = i PROVE j = k
      <4>1. j \in 1..m + n /\ k \in 1..m + n /\ j \notin 1..m /\ k \notin 1..m
        BY <1>10, <3>2, <3>4
      <4>2. j - m \in 1..n /\ k - m \in 1..n /\ j \in m + 1..m + n /\ k \in m + 1..m + n
        BY <4>1
      <4>4. q[j - m] = q[k - m] BY <1>10, <3>4, <4>2
      <4>3. j - m = k - m BY <1>7, <4>2, <4>4
      <4> QED BY <4>1, <4>3
    <3>5. ~s3[i].repeat => s7[i] # 1 BY <2>1, <3>1 DEF Timers!InTurn, Timers!HasTask
    <3> QED BY <2>1, <3>1, <3>3, <3>4, <3>5 DEF Timers!InTurn, Timers!HasTask
  <2>3. CASE i \notin S
    <3>1. \A k \in m + 1..m + n : s4'[k] # i
      <4>1. \A k \in m + 1..m + n : k - m \in 1..n OBVIOUS
      <4> QED BY <1>6, <1>10, <2>3, <4>1
    <3>2. \A k \in 1..m + n : s4'[k] = i => k \in 1..m /\ s4[k] = i BY <1>10, <3>1
    <3>3. Timers!Queued(i)' <=> Timers!Queued(i)
      <4>1. Timers!Queued(i) => Timers!Queued(i)' BY <1>10, <1>11 DEF Timers!Queued
      <4>2. Timers!Queued(i)' => Timers!Queued(i) BY <1>10, <1>11, <3>2 DEF Timers!Queued
      <4> QED BY <4>1, <4>2
    <3>4. \A j, k \in DOMAIN s4' : s4'[j] = i /\ s4'[k] = i => j = k
      BY <1>10, <1>11, <2>1, <3>2 DEF Timers!InTurn, Timers!HasTask
    <3>5. s3[i].remainTime = -1 => s3'[i].remainTime = -1 BY <1>13, <2>1
    <3>6. s3'[i].repeat = s3[i].repeat BY <1>13, <2>1
    <3> QED BY <2>1, <3>3, <3>4, <3>5, <3>6 DEF Timers!InTurn, Timers!HasTask
  <2> QED BY <2>2, <2>3
<1>16. Timers!InvCut'
  <2>1. ASSUME NEW i, Timers!Queued(i)' PROVE Timers!Queued(i) \/ i \in s2
    <3>1. PICK k \in 1..m + n : s4'[k] = i BY <1>10, <2>1 DEF Timers!Queued
    <3>2. CASE k \in 1..m BY <1>10, <1>11, <3>1, <3>2 DEF Timers!Queued
    <3>3. CASE k \notin 1..m
      <4>1. k \in m + 1..m + n /\ k - m \in 1..n BY <3>3
      <4> QED BY <1>2, <1>6, <1>10, <3>1, <4>1
    <3> QED BY <3>2, <3>3
  <2> QED BY <2>1, TimerCut DEF Timers!Inv, Timers!HasTask
<1> QED BY <1>10, <1>14, <1>15, <1>16 DEF Timers!Inv

LEMMA TimerDropsCallback ==
  ASSUME Timers!Inv, NEW t \in Timers!Ids, s3' = [s3 EXCEPT ![t].callback = FALSE]
  PROVE  /\ s3' \in [Timers!Ids -> Timers!Timers]
         /\ \A i \in Timers!Ids :
              s3'[i].remainTime = s3[i].remainTime /\ s3'[i].repeat = s3[i].repeat
         /\ \A i \in Timers!Ids : i # t => s3'[i] = s3[i]
<1>1. PICK x : x = [s3[t] EXCEPT !.callback = FALSE] OBVIOUS
<1>2. s3[t] \in Timers!Timers BY TimerKnown
<1>3. x \in Timers!Timers /\ x.remainTime = s3[t].remainTime /\ x.repeat = s3[t].repeat
  BY <1>1, <1>2 DEF Timers!Timers
<1>4. s3' = [s3 EXCEPT ![t] = x] BY <1>1
<1> QED BY <1>3, <1>4, TimerKnown DEF Timers!Inv

LEMMA TimerTaskBegins ==
  ASSUME Timers!Inv, Timers!TaskBegins
  PROVE  Timers!Inv'
<1> USE DEF Timers!TaskBegins
<1>1. PICK h, n : h = Head(s4) /\ n = Len(s4) OBVIOUS
<1>2. /\ s4 \in Seq(1..s1) /\ n \in Nat /\ n >= 1 /\ h = s4[1] /\ h \in 1..s1
      /\ DOMAIN s4 = 1..n /\ s4[1] = h /\ s4' = Tail(s4)
  BY <1>1 DEF Timers!Inv
<1>3. /\ s4' \in Seq(1..s1) /\ DOMAIN s4' = 1..n - 1
      /\ \A k \in 1..n - 1 : s4'[k] = s4[k + 1]
  BY <1>1, <1>2
<1>4. s5' = s5 \cup {h} BY <1>1
<1>5. /\ h \in s2 => s7' = [s7 EXCEPT ![h] = IF @ < 2 THEN @ + 1 ELSE @]
      /\ h \notin s2 => s7' = s7
      /\ s1' = s1 /\ s2' = s2 /\ s3' = s3
  BY <1>1
<1>6. h \in Timers!Ids /\ s7[h] \in Nat BY <1>2, TimerKnown DEF Timers!Inv, Timers!Ids
<1>7. s7' \in [Timers!Ids -> Nat] /\ \A i \in Timers!Ids : i # h => s7'[i] = s7[i]
  <2>1. PICK m \in Nat : m = IF s7[h] < 2 THEN s7[h] + 1 ELSE s7[h] BY <1>6
  <2>2. s7' = [s7 EXCEPT ![h] = m] \/ s7' = s7 BY <1>5, <2>1
  <2> QED BY <1>6, <2>2 DEF Timers!Inv
<1>8. \A i \in Timers!Ids : i > s1 => s7'[i] = 0
  BY <1>2, <1>7, TimerKnown DEF Timers!Inv
<1>9. \A k \in 1..n - 1 : k + 1 \in 1..n /\ k + 1 # 1 BY <1>2
<1>10. ASSUME NEW i \in s2 PROVE Timers!InTurn(i)'
  <2>1. Timers!InTurn(i) /\ i \in Timers!Ids BY TimerKnown DEF Timers!Inv
  <2>2. ASSUME NEW j \in DOMAIN s4', NEW k \in DOMAIN s4', s4'[j] = i, s4'[k] = i PROVE j = k
    <3>1. j + 1 = k + 1 BY <1>2, <1>3, <1>9, <2>1, <2>2 DEF Timers!InTurn, Timers!HasTask
    <3> QED BY <1>3, <2>2, <3>1
  <2>3. Timers!Queued(i)' => Timers!Queued(i) BY <1>2, <1>3, <1>9 DEF Timers!Queued
  <2>4. CASE i = h
    <3>1. Timers!Queued(i) BY <1>2, <2>4 DEF Timers!Queued
    <3>2. ~Timers!Queued(i)'
      <4> SUFFICES ASSUME NEW k \in 1..n - 1, s4'[k] = i PROVE FALSE
        BY <1>3 DEF Timers!Queued
      <4>1. k + 1 = 1 BY <1>2, <1>3, <1>9, <2>1, <2>4 DEF Timers!InTurn, Timers!HasTask
      <4> QED BY <1>9, <4>1
    <3>3. ~s3[i].repeat => s7[i] = 0
      BY <1>6, <2>1, <2>4, <3>1 DEF Timers!InTurn, Timers!HasTask
    <3>4. ~s3[i].repeat => s7'[i] = 1 BY <1>5, <1>6, <2>4, <3>3 DEF Timers!Inv
    <3> QED BY <1>5, <2>1, <2>2, <3>1, <3>2, <3>4 DEF Timers!InTurn, Timers!HasTask
  <2>5. CASE i # h
    <3>1. s7'[i] = s7[i] /\ (i \in s5' <=> i \in s5) BY <1>4, <1>7, <2>1, <2>5
    <3> QED BY <1>5, <2>1, <2>2, <2>3, <3>1 DEF Timers!InTurn, Timers!HasTask
  <2> QED BY <2>4, <2>5
<1>11. s5' \subseteq 1..s1 BY <1>2, <1>4 DEF Timers!Inv
<1>12. Timers!InvCut'
  <2>1. Timers!Queued(h) BY <1>2 DEF Timers!Queued
  <2>2. \A i : Timers!Queued(i)' => Timers!Queued(i) BY <1>2, <1>3, <1>9 DEF Timers!Queued
  <2>3. \A i : Timers!HasTask(i)' => Timers!HasTask(i) BY <1>4, <2>1, <2>2 DEF Timers!HasTask
  <2>4. s8' = s8 \/ (s8' = s8 \cup {h} /\ h \notin s2) BY <1>1
  <2> QED BY <1>5, <1>6, <2>1, <2>3, <2>4, TimerCut DEF Timers!Inv, Timers!HasTask
<1> QED BY <1>3, <1>5, <1>7, <1>8, <1>10, <1>11, <1>12 DEF Timers!Inv

LEMMA TimerTaskEnds ==
  ASSUME Timers!Inv, NEW t \in Timers!Ids, Timers!TaskEnds(t)
  PROVE  Timers!Inv'
<1> USE DEF Timers!TaskEnds
<1>1. PICK a \in -1..TimerInterval, r \in BOOLEAN, b \in BOOLEAN :
        s3[t] = [remainTime |-> a, repeat |-> r, callback |-> b]
  BY TimerKnown DEF Timers!Timers
<1>2. /\ t \in s5 /\ s5' = s5 \ {t}
      /\ t \in s2 => s3' = Timers!AfterCallback(t)
      /\ t \notin s2 => s3' = s3
      /\ s1' = s1 /\ s2' = s2 /\ s4' = s4 /\ s7' = s7
  OBVIOUS
<1>3. /\ s3' \in [Timers!Ids -> Timers!Timers] /\ s3'[t].repeat = r
      /\ ~r => s3'[t].remainTime = a
      /\ \A i \in Timers!Ids : i # t => s3'[i] = s3[i]
  <2>1. CASE t \notin s2 BY <1>1, <1>2, <2>1 DEF Timers!Inv
  <2>2. CASE t \in s2 /\ s3[t].repeat
    <3>1. s3' = [s3 EXCEPT ![t].remainTime = TimerInterval]
      BY <1>2, <2>2 DEF Timers!AfterCallback
    <3>2. s3'[t] = [remainTime |-> TimerInterval, repeat |-> r, callback |-> b]
      BY <1>1, <3>1 DEF Timers!Inv
    <3>3. TimerInterval \in -1..TimerInterval BY ThreadsAssumption
    <3>4. s3'[t] \in Timers!Timers BY <3>2, <3>3 DEF Timers!Timers
    <3>5. DOMAIN s3' = Timers!Ids /\ \A i \in Timers!Ids : i # t => s3'[i] = s3[i]
      BY <3>1 DEF Timers!Inv
    <3>6. s3' \in [Timers!Ids -> Timers!Timers] BY <3>1, <3>4, <3>5, TimerKnown DEF Timers!Inv
    <3> QED BY <1>1, <2>2, <3>2, <3>5, <3>6
  <2>3. CASE t \in s2 /\ ~s3[t].repeat
    <3>1. s3' = [s3 EXCEPT ![t].callback = FALSE]
      BY <1>2, <2>3 DEF Timers!AfterCallback
    <3>2. /\ s3' \in [Timers!Ids -> Timers!Timers]
          /\ s3'[t].remainTime = s3[t].remainTime /\ s3'[t].repeat = s3[t].repeat
          /\ \A i \in Timers!Ids : i # t => s3'[i] = s3[i]
      BY <3>1, TimerDropsCallback
    <3>3. s3[t].remainTime = a /\ s3[t].repeat = r BY <1>1
    <3> QED BY <3>2, <3>3
  <2> QED BY <2>1, <2>2, <2>3
<1>4. ASSUME NEW i \in s2 PROVE Timers!InTurn(i)'
  <2>1. Timers!InTurn(i) /\ i \in Timers!Ids BY TimerKnown DEF Timers!Inv
  <2>2. Timers!Queued(i)' <=> Timers!Queued(i) BY <1>2 DEF Timers!Queued
  <2>3. CASE i = t
    <3>1. ~Timers!Queued(i) /\ i \notin s5' BY <1>2, <2>1, <2>3 DEF Timers!InTurn, Timers!HasTask
    <3> QED BY <1>1, <1>2, <1>3, <2>1, <2>2, <2>3, <3>1 DEF Timers!InTurn, Timers!HasTask
  <2>4. CASE i # t
    <3>1. s3'[i] = s3[i] /\ (i \in s5' <=> i \in s5) BY <1>2, <1>3, <2>1, <2>4
    <3> QED BY <1>2, <2>1, <2>2, <3>1 DEF Timers!InTurn, Timers!HasTask
  <2> QED BY <2>3, <2>4
<1>5. Timers!InvCut'
  <2>1. s8' = s8 \/ (s8' = s8 \cup {t} /\ t \notin s2) BY <1>2
  <2> QED BY <1>2, <2>1, TimerCut DEF Timers!Inv, Timers!HasTask, Timers!Queued
<1> QED BY <1>2, <1>3, <1>4, <1>5 DEF Timers!Inv

\* Timers that leave the map, and callbacks that are dropped, disturb no other.
LEMMA TimerLeaves ==
  ASSUME Timers!Inv, UNCHANGED <<s1, s4, s5, s7, s8>>, s2' \subseteq s2, s9 \subseteq s9',
         \A i \in s2 \ s2' : Timers!HasTask(i) => i \in s9',
         s3' \in [Timers!Ids -> Timers!Timers],
         \A i \in Timers!Ids : s3'[i].remainTime = s3[i].remainTime /\ s3'[i].repeat = s3[i].repeat
  PROVE  Timers!Inv'
<1>1. ASSUME NEW i \in s2' PROVE Timers!InTurn(i)'
  <2>1. Timers!InTurn(i) /\ i \in Timers!Ids BY TimerKnown DEF Timers!Inv
  <2>2. Timers!Queued(i)' <=> Timers!Queued(i) BY DEF Timers!Queued
  <2> QED BY <2>1, <2>2 DEF Timers!InTurn, Timers!HasTask
<1>2. Timers!InvCut'
  <2>1. \A i : Timers!HasTask(i)' <=> Timers!HasTask(i) BY DEF Timers!HasTask, Timers!Queued
  <2> QED BY <2>1 DEF Timers!Inv, Timers!InvCut
<1> QED BY <1>1, <1>2 DEF Timers!Inv

LEMMA TimerStep ==
  ASSUME Timers!Inv, Timers!Next
  PROVE  Timers!Inv'
<1>1. ASSUME NEW t \in Timers!Ids, Timers!Stop(t) PROVE Timers!Inv'
  <2>1. /\ s3' = [s3 EXCEPT ![t].callback = FALSE] /\ s2' \subseteq s2
        /\ UNCHANGED <<s1, s4, s5, s7, s8>> /\ s9 \subseteq s9'
        /\ \A i \in s2 \ s2' : Timers!HasTask(i) => i \in s9'
    BY <1>1 DEF Timers!Stop
  <2> QED BY <2>1, TimerDropsCallback, TimerLeaves
<1>2. CASE Timers!ManagerStops
  <2>1. PICK gone \in SUBSET s2 :
          /\ s3' = [i \in Timers!Ids |-> [s3[i] EXCEPT !.callback = @ /\ i \notin gone]]
          /\ s2' = s2 \ gone /\ s9' = s9 \cup {i \in gone : Timers!HasTask(i)}
          /\ UNCHANGED <<s1, s4, s5, s7, s8>>
    BY <1>2 DEF Timers!ManagerStops
  <2>2. ASSUME NEW i \in Timers!Ids
        PROVE  /\ [s3[i] EXCEPT !.callback = @ /\ i \notin gone] \in Timers!Timers
               /\ s3'[i].remainTime = s3[i].remainTime /\ s3'[i].repeat = s3[i].repeat
    <3>1. PICK a \in -1..TimerInterval, r \in BOOLEAN, b \in BOOLEAN :
            s3[i] = [remainTime |-> a, repeat |-> r, callback |-> b]
      BY TimerKnown DEF Timers!Timers
    <3>2. PICK d \in BOOLEAN : d = (b /\ i \notin gone) OBVIOUS
    <3>3. s3'[i] = [remainTime |-> a, repeat |-> r, callback |-> d] BY <2>1, <3>1, <3>2
    <3>4. s3'[i] \in Timers!Timers BY <3>3 DEF Timers!Timers
    <3>5. s3'[i] = [s3[i] EXCEPT !.callback = @ /\ i \notin gone] BY <2>1
    <3> QED BY <3>1, <3>3, <3>4, <3>5
  <2>3. s3' \in [Timers!Ids -> Timers!Timers] BY <2>1, <2>2
  <2>4. /\ s2' \subseteq s2 /\ s9 \subseteq s9'
        /\ \A i \in s2 \ s2' : Timers!HasTask(i) => i \in s9'
    BY <2>1
  <2> QED BY <2>1, <2>2, <2>3, <2>4, TimerLeaves
<1> QED BY <1>1, <1>2, TimerStarts, TimerTicks, TimerTaskBegins, TimerTaskEnds DEF Timers!Next

-----------------------------------------------------------------------------
(* AsyncLogger.  s1 running, s2 queue, s3 call, s4 worker, s5 batch,        *)
(* s6 flushing, s7 hand, s8 stopper, s9 starts, s10 sink, s11 history.      *)

LEMMA LogSequence ==
  ASSUME NEW S, NEW q \in Seq(S)
  PROVE  Log!Range(q) = Elements(q) /\ (Log!IsInjective(q) <=> Distinct(q))
<1>1. DOMAIN q = 1..Len(q) BY LenProperties
<1> QED BY <1>1 DEF Log!Range, Log!IsInjective, Elements, Distinct

\* The entries of h are in one place each: queue q, batch b, sink s, the hands x and y.
Placed(q, b, s, x, y, h) ==
  /\ q \in Seq(LogEntries) /\ b \in Seq(LogEntries) /\ s \in Seq(LogEntries)
  /\ x \in LogEntries \cup {"none"} /\ y \in LogEntries \cup {"none"}
  /\ Distinct(q) /\ Distinct(b) /\ Distinct(s) /\ (x = y => x = "none")
  /\ Elements(q) \cap Elements(b) = {} /\ (Elements(q) \cup Elements(b)) \cap Elements(s) = {}
  /\ (Elements(q) \cup Elements(b) \cup Elements(s)) \cap {x, y} = {}
  /\ Elements(q) \cup Elements(b) \cup Elements(s) \cup ({x, y} \ {"none"}) = h

LogRest(q, b, w, c, x) ==
  /\ x \in [Log!Flushers -> LogEntries \cup {"none"}] /\ DOMAIN c = LogEntries
  /\ Len(q) <= LogQueueSize /\ (w \notin {"notify", "write"} => b = <<>>)

LEMMA LogElements == \A q \in Seq(LogEntries) : Elements(q) \subseteq LogEntries
<1>1. ASSUME NEW q \in Seq(LogEntries) PROVE Elements(q) \subseteq LogEntries
  <2>1. \A i \in 1..Len(q) : q[i] \in LogEntries BY LenProperties
  <2> QED BY <2>1 DEF Elements
<1> QED BY <1>1

LEMMA LogInv ==
  Log!InvPlaces <=> /\ Placed(s2, s5, s10, s7["caller"], s7["stop"], Log!Handed)
              /\ LogRest(s2, s5, s4, s3, s7)
<1>1. Log!InHands = {s7["caller"], s7["stop"]} \ {"none"}
  BY DEF Log!InHands, Log!Flushers, Log!NoEntry
<1>2. "none" \notin LogEntries BY ThreadsAssumption
<1>3. ASSUME s2 \in Seq(LogEntries), s5 \in Seq(LogEntries), s10 \in Seq(LogEntries)
      PROVE  /\ Log!Range(s2) = Elements(s2) /\ Log!Range(s5) = Elements(s5)
             /\ Log!Range(s10) = Elements(s10)
             /\ Log!IsInjective(s2) <=> Distinct(s2)
             /\ Log!IsInjective(s5) <=> Distinct(s5)
             /\ Log!IsInjective(s10) <=> Distinct(s10)
             /\ "none" \notin Elements(s2) /\ "none" \notin Elements(s5)
             /\ "none" \notin Elements(s10)
  BY <1>2, <1>3, LogSequence, LogElements
<1>4. ASSUME Log!InvPlaces PROVE Placed(s2, s5, s10, s7["caller"], s7["stop"], Log!Handed)
  <2>1. s7["caller"] \in LogEntries \cup {"none"} /\ s7["stop"] \in LogEntries \cup {"none"}
    BY <1>4 DEF Log!InvPlaces, Log!Flushers, Log!NoEntry
  <2> QED BY <1>1, <1>3, <1>4, <2>1 DEF Log!InvPlaces, Placed, Log!NoEntry
<1>5. ASSUME Log!InvPlaces PROVE LogRest(s2, s5, s4, s3, s7)
  BY <1>5 DEF Log!InvPlaces, LogRest, Log!NoEntry
<1>6. ASSUME Placed(s2, s5, s10, s7["caller"], s7["stop"], Log!Handed),
             LogRest(s2, s5, s4, s3, s7)
      PROVE  Log!InvPlaces
  BY <1>1, <1>3, <1>6 DEF Log!InvPlaces, Placed, LogRest, Log!NoEntry
<1> QED BY <1>4, <1>5, <1>6

LEMMA LogPlacesStart == Log!Init => Log!InvPlaces
<1> SUFFICES ASSUME Log!Init PROVE Log!InvPlaces OBVIOUS
<1> USE DEF Log!Init
<1>1. <<>> \in Seq(LogEntries) /\ Len(<<>>) = 0 OBVIOUS
<1>2. Elements(<<>>) = {} /\ Distinct(<<>>) BY DEF Elements, Distinct
<1>3. Log!Handed = {} BY DEF Log!Handed
<1>4. s7["caller"] = "none" /\ s7["stop"] = "none" BY DEF Log!Flushers, Log!NoEntry
<1>5. Placed(s2, s5, s10, s7["caller"], s7["stop"], Log!Handed)
  BY <1>1, <1>2, <1>3, <1>4 DEF Placed
<1>6. LogRest(s2, s5, s4, s3, s7)
  BY <1>1, ThreadsAssumption DEF LogRest, Log!NoEntry
<1> QED BY <1>5, <1>6, LogInv

LEMMA LogKept == Log!Inv => Log!EntriesKept
<1> SUFFICES ASSUME Log!Inv PROVE Log!EntriesKept OBVIOUS
<1> USE DEF Log!Inv
<1>1. PICK q, b, s, x, y, h :
        q = s2 /\ b = s5 /\ s = s10 /\ x = s7["caller"] /\ y = s7["stop"] /\ h = Log!Handed
  OBVIOUS
<1>2. Placed(q, b, s, x, y, h) /\ Len(q) <= LogQueueSize
  BY <1>1, LogInv DEF LogRest
<1>3. PICK u, v : u = Log!InHand("caller") /\ v = Log!InHand("stop") OBVIOUS
<1>4. "none" \notin LogEntries BY ThreadsAssumption
<1>5. ASSUME NEW z \in LogEntries \cup {"none"}, NEW w, w = IF z = "none" THEN <<>> ELSE <<z>>
      PROVE  w \in Seq(LogEntries) /\ Distinct(w) /\ Elements(w) = {z} \ {"none"}
  <2>1. CASE z = "none"
    <3>1. w = <<>> /\ Len(w) = 0 /\ w \in Seq(LogEntries) BY <1>5, <2>1
    <3> QED BY <2>1, <3>1 DEF Elements, Distinct
  <2>2. CASE z # "none"
    <3>1. w = <<z>> /\ Len(w) = 1 /\ w \in Seq(LogEntries) /\ w[1] = z BY <1>5, <2>2
    <3>2. 1..1 = {1} OBVIOUS
    <3> QED BY <2>2, <3>1, <3>2 DEF Elements, Distinct
  <2> QED BY <2>1, <2>2
<1>6. /\ u \in Seq(LogEntries) /\ Distinct(u) /\ Elements(u) = {x} \ {"none"}
      /\ v \in Seq(LogEntries) /\ Distinct(v) /\ Elements(v) = {y} \ {"none"}
  BY <1>1, <1>2, <1>3, <1>5 DEF Placed, Log!InHand, Log!NoEntry
<1>7. PICK d : d = q \o b OBVIOUS
<1>8. d \in Seq(LogEntries) /\ Distinct(d) /\ Elements(d) = Elements(q) \cup Elements(b)
  BY <1>2, <1>7, ConcatDistinct DEF Placed
<1>9. PICK e : e = d \o s OBVIOUS
<1>10. e \in Seq(LogEntries) /\ Distinct(e)
       /\ Elements(e) = Elements(q) \cup Elements(b) \cup Elements(s)
  <2>1. s \in Seq(LogEntries) /\ Distinct(s) /\ Elements(d) \cap Elements(s) = {}
    BY <1>2, <1>8 DEF Placed
  <2> QED BY <1>8, <1>9, <2>1, ConcatDistinct
<1>11. PICK f : f = e \o u OBVIOUS
<1>12. f \in Seq(LogEntries) /\ Distinct(f) /\ Elements(f) = Elements(e) \cup Elements(u)
  <2>1. Elements(e) \cap Elements(u) = {} BY <1>2, <1>6, <1>10 DEF Placed
  <2> QED BY <1>6, <1>10, <1>11, <2>1, ConcatDistinct
<1>13. PICK g : g = f \o v OBVIOUS
<1>14. g \in Seq(LogEntries) /\ Distinct(g) /\ Elements(g) = Elements(f) \cup Elements(v)
  <2>1. Elements(f) \cap Elements(v) = {} BY <1>2, <1>6, <1>10, <1>12 DEF Placed
  <2> QED BY <1>6, <1>12, <1>13, <2>1, ConcatDistinct
<1>15. Elements(g) = h BY <1>2, <1>6, <1>10, <1>12, <1>14 DEF Placed
<1>16. Log!IsInjective(g) /\ Log!Range(g) = h BY <1>14, <1>15, LogSequence
<1>17. \A i, j \in DOMAIN s10 :
         i < j /\ Log!FromQueue(s10[i]) /\ Log!Writer(s10[i]) = Log!Writer(s10[j])
           => Log!Place(s10[i]) < Log!Place(s10[j])
  BY DEF Log!InvOrder
<1>18. ASSUME NEW i \in DOMAIN s10, NEW j \in DOMAIN s2, Log!FromQueue(s10[i])
       PROVE  Log!Place(s10[i]) < Log!Place(s2[j])
  <2>1. s10[i] \in Log!Range(s10) /\ s2[j] \in Log!Range(s2) BY DEF Log!Range
  <2>2. CASE Log!Writer(s10[i]) = "worker"
    BY <2>1, <2>2 DEF Log!InvOrder, Log!Before, Log!By
  <2>3. CASE Log!Writer(s10[i]) \in Log!Flushers
    BY <2>1, <2>3 DEF Log!InvOrder, Log!Before, Log!By
  <2> QED BY <1>18, <2>2, <2>3 DEF Log!FromQueue
<1> QED BY <1>1, <1>2, <1>3, <1>7, <1>9, <1>11, <1>13, <1>16, <1>17, <1>18 DEF Log!EntriesKept

\* The five ways in which an entry moves.
LEMMA LogMoves ==
  ASSUME NEW q, NEW b, NEW s, NEW x, NEW y, NEW h, Placed(q, b, s, x, y, h)
  PROVE  /\ \A e \in LogEntries \ h : /\ Placed(q, b, Append(s, e), x, y, h \cup {e})
                                   /\ Placed(Append(q, e), b, s, x, y, h \cup {e})
                                   /\ Len(Append(q, e)) = Len(q) + 1
         /\ b = <<>> => \A n \in 0..Len(q) :
              /\ Placed(SubSeq(q, n + 1, Len(q)), SubSeq(q, 1, n), s, x, y, h)
              /\ Len(SubSeq(q, n + 1, Len(q))) = Len(q) - n
         /\ b # <<>> => Placed(q, Tail(b), Append(s, Head(b)), x, y, h)
         /\ q # <<>> => /\ Len(Tail(q)) = Len(q) - 1
                        /\ x = "none" => Placed(Tail(q), b, s, Head(q), y, h)
                        /\ y = "none" => Placed(Tail(q), b, s, x, Head(q), h)
         /\ x # "none" => Placed(q, b, Append(s, x), "none", y, h)
         /\ y # "none" => Placed(q, b, Append(s, y), x, "none", h)
<1> USE DEF Placed
<1>1. "none" \notin LogEntries BY ThreadsAssumption
<1>2. /\ Elements(q) \subseteq LogEntries /\ Elements(b) \subseteq LogEntries
      /\ Elements(s) \subseteq LogEntries
  BY LogElements
<1>3. ASSUME NEW e \in LogEntries \ h
      PROVE  /\ Placed(q, b, Append(s, e), x, y, h \cup {e})
             /\ Placed(Append(q, e), b, s, x, y, h \cup {e})
             /\ Len(Append(q, e)) = Len(q) + 1
  <2>1. e \notin Elements(q) /\ e \notin Elements(b) /\ e \notin Elements(s) /\ e # x /\ e # y
    BY <1>1, <1>3
  <2>2. /\ Append(s, e) \in Seq(LogEntries) /\ Distinct(Append(s, e))
        /\ Elements(Append(s, e)) = Elements(s) \cup {e}
    BY <2>1, AppendDistinct
  <2>3. /\ Append(q, e) \in Seq(LogEntries) /\ Distinct(Append(q, e))
        /\ Elements(Append(q, e)) = Elements(q) \cup {e}
    BY <2>1, AppendDistinct
  <2>4. PICK sa, qa : sa = Append(s, e) /\ qa = Append(q, e) OBVIOUS
  <2>5. Placed(q, b, sa, x, y, h \cup {e}) BY <2>1, <2>2, <2>4
  <2>6. Placed(qa, b, s, x, y, h \cup {e}) BY <2>1, <2>3, <2>4
  <2>7. Len(Append(q, e)) = Len(q) + 1 OBVIOUS
  <2> QED BY <2>4, <2>5, <2>6, <2>7
<1>4. ASSUME b = <<>>, NEW n \in 0..Len(q)
      PROVE  /\ Placed(SubSeq(q, n + 1, Len(q)), SubSeq(q, 1, n), s, x, y, h)
             /\ Len(SubSeq(q, n + 1, Len(q))) = Len(q) - n
  <2>1. PICK u, v : u = SubSeq(q, 1, n) /\ v = SubSeq(q, n + 1, Len(q)) OBVIOUS
  <2>2. /\ u \in Seq(LogEntries) /\ v \in Seq(LogEntries) /\ Distinct(u) /\ Distinct(v)
        /\ Len(v) = Len(q) - n
        /\ Elements(u) \cap Elements(v) = {} /\ Elements(u) \cup Elements(v) = Elements(q)
    BY <2>1, SplitDistinct
  <2>3. Elements(b) = {} BY <1>4 DEF Elements
  <2>4. Placed(v, u, s, x, y, h) BY <2>2, <2>3
  <2> QED BY <2>1, <2>2, <2>4
<1>5. ASSUME b # <<>> PROVE Placed(q, Tail(b), Append(s, Head(b)), x, y, h)
  <2>1. PICK e, t : e = Head(b) /\ t = Tail(b) OBVIOUS
  <2>2. /\ t \in Seq(LogEntries) /\ Distinct(t) /\ e \in Elements(b) /\ e \in LogEntries
        /\ Elements(t) = Elements(b) \ {e}
    BY <1>5, <2>1, TailDistinct
  <2>3. PICK sa : sa = Append(s, e) OBVIOUS
  <2>4. e \notin Elements(s) BY <2>2
  <2>5. sa \in Seq(LogEntries) /\ Distinct(sa) /\ Elements(sa) = Elements(s) \cup {e}
    BY <2>2, <2>3, <2>4, AppendDistinct
  <2>6. Placed(q, t, sa, x, y, h) BY <2>2, <2>5
  <2> QED BY <2>1, <2>3, <2>6
<1>6. ASSUME q # <<>>
      PROVE  /\ Len(Tail(q)) = Len(q) - 1
             /\ x = "none" => Placed(Tail(q), b, s, Head(q), y, h)
             /\ y = "none" => Placed(Tail(q), b, s, x, Head(q), h)
  <2>1. PICK e, t : e = Head(q) /\ t = Tail(q) OBVIOUS
  <2>2. /\ t \in Seq(LogEntries) /\ Distinct(t) /\ e \in Elements(q) /\ e \in LogEntries
        /\ Elements(t) = Elements(q) \ {e} /\ Len(t) = Len(q) - 1
    BY <1>6, <2>1, TailDistinct
  <2>3. e # "none" BY <1>1, <2>2
  <2>4. x = "none" => Placed(t, b, s, e, y, h) BY <2>2, <2>3
  <2>5. y = "none" => Placed(t, b, s, x, e, h) BY <2>2, <2>3
  <2> QED BY <2>1, <2>2, <2>4, <2>5
<1>7. ASSUME NEW z \in {x, y}, z # "none"
      PROVE  /\ Append(s, z) \in Seq(LogEntries) /\ Distinct(Append(s, z))
             /\ Elements(Append(s, z)) = Elements(s) \cup {z}
  <2>1. z \in LogEntries /\ z \notin Elements(s) BY <1>7
  <2> QED BY <2>1, AppendDistinct
<1>8. ASSUME x # "none" PROVE Placed(q, b, Append(s, x), "none", y, h)
  <2>1. PICK sa : sa = Append(s, x) OBVIOUS
  <2>2. sa \in Seq(LogEntries) /\ Distinct(sa) /\ Elements(sa) = Elements(s) \cup {x}
    BY <1>7, <1>8, <2>1
  <2>3. Placed(q, b, sa, "none", y, h) BY <1>1, <1>2, <1>8, <2>2
  <2> QED BY <2>1, <2>3
<1>9. ASSUME y # "none" PROVE Placed(q, b, Append(s, y), x, "none", h)
  <2>1. PICK sa : sa = Append(s, y) OBVIOUS
  <2>2. sa \in Seq(LogEntries) /\ Distinct(sa) /\ Elements(sa) = Elements(s) \cup {y}
    BY <1>7, <1>9, <2>1
  <2>3. Placed(q, b, sa, x, "none", h) BY <1>1, <1>2, <1>9, <2>2
  <2> QED BY <2>1, <2>3
<1> QED BY <1>3, <1>4, <1>5, <1>6, <1>8, <1>9

PlacesKept(q, b, s, x, y, h) ==
  /\ \A e \in LogEntries \ h : /\ Placed(q, b, Append(s, e), x, y, h \cup {e})
                            /\ Placed(Append(q, e), b, s, x, y, h \cup {e})
                            /\ Len(Append(q, e)) = Len(q) + 1
  /\ b = <<>> => \A n \in 0..Len(q) :
       /\ Placed(SubSeq(q, n + 1, Len(q)), SubSeq(q, 1, n), s, x, y, h)
       /\ Len(SubSeq(q, n + 1, Len(q))) = Len(q) - n
  /\ b # <<>> => Placed(q, Tail(b), Append(s, Head(b)), x, y, h)
  /\ q # <<>> => /\ Len(Tail(q)) = Len(q) - 1
                 /\ x = "none" => Placed(Tail(q), b, s, Head(q), y, h)
                 /\ y = "none" => Placed(Tail(q), b, s, x, Head(q), h)
  /\ x # "none" => Placed(q, b, Append(s, x), "none", y, h)
  /\ y # "none" => Placed(q, b, Append(s, y), x, "none", h)

LEMMA LogPlacesKept ==
  ASSUME NEW q, NEW b, NEW s, NEW x, NEW y, NEW h, Placed(q, b, s, x, y, h)
  PROVE  PlacesKept(q, b, s, x, y, h)
BY LogMoves DEF PlacesKept

LEMMA LogInvAfter ==
  ASSUME NEW q, NEW b, NEW s, NEW k, NEW h, q = s2', b = s5', s = s10', k = s7', h = Log!Handed',
         Placed(q, b, s, k["caller"], k["stop"], h), LogRest(q, b, s4', s3', k)
  PROVE  Log!InvPlaces'
<1>1. "none" \notin LogEntries BY ThreadsAssumption
<1>2. q \in Seq(LogEntries) /\ b \in Seq(LogEntries) /\ s \in Seq(LogEntries) BY DEF Placed
<1>3. /\ {s2'[i] : i \in DOMAIN s2'} = Elements(q) /\ {s5'[i] : i \in DOMAIN s5'} = Elements(b)
      /\ {s10'[i] : i \in DOMAIN s10'} = Elements(s)
  <2>1. /\ {q[i] : i \in DOMAIN q} = Elements(q) /\ {b[i] : i \in DOMAIN b} = Elements(b)
        /\ {s[i] : i \in DOMAIN s} = Elements(s)
    BY <1>2, LogSequence DEF Log!Range
  <2> QED BY <2>1
<1>4. /\ \A i, j \in DOMAIN s2' : s2'[i] = s2'[j] => i = j
      /\ \A i, j \in DOMAIN s5' : s5'[i] = s5'[j] => i = j
      /\ \A i, j \in DOMAIN s10' : s10'[i] = s10'[j] => i = j
  <2>1. Log!IsInjective(q) /\ Log!IsInjective(b) /\ Log!IsInjective(s)
    BY <1>2, LogSequence DEF Placed
  <2> QED BY <2>1 DEF Log!IsInjective
<1>5. Log!InHands' = {k["caller"], k["stop"]} \ {"none"}
  BY DEF Log!InHands, Log!Flushers, Log!NoEntry
<1>6. /\ Log!Range(s2)' = Elements(q) /\ Log!Range(s5)' = Elements(b)
      /\ Log!Range(s10)' = Elements(s)
  BY <1>3 DEF Log!Range
<1>7. Log!IsInjective(s2)' /\ Log!IsInjective(s5)' /\ Log!IsInjective(s10)'
  BY <1>4 DEF Log!IsInjective
<1>8. /\ Elements(q) \cap Elements(b) = {} /\ (Elements(q) \cup Elements(b)) \cap Elements(s) = {}
      /\ (Elements(q) \cup Elements(b) \cup Elements(s)) \cap Log!InHands' = {}
      /\ Elements(q) \cup Elements(b) \cup Elements(s) \cup Log!InHands' = Log!Handed'
  BY <1>5 DEF Placed
<1>9. /\ s2' \in Seq(LogEntries) /\ s5' \in Seq(LogEntries) /\ s10' \in Seq(LogEntries)
      /\ s7' \in [Log!Flushers -> LogEntries \cup {"none"}] /\ DOMAIN s3' = LogEntries
      /\ Len(s2') <= LogQueueSize /\ (s4' \notin {"notify", "write"} => s5' = <<>>)
      /\ (s7'["caller"] = s7'["stop"] => s7'["caller"] = "none")
  BY <1>2 DEF Placed, LogRest
<1> QED BY <1>6, <1>7, <1>8, <1>9 DEF Log!InvPlaces, Log!NoEntry

LEMMA LogPlacesStep ==
  ASSUME Log!InvPlaces, Log!Next
  PROVE  Log!InvPlaces'
<1>1. PICK h : h = Log!Handed OBVIOUS
<1>2. Placed(s2, s5, s10, s7["caller"], s7["stop"], h) /\ LogRest(s2, s5, s4, s3, s7)
  BY <1>1, LogInv
<1>3. /\ s7 \in [Log!Flushers -> LogEntries \cup {"none"}] /\ DOMAIN s3 = LogEntries
      /\ Len(s2) <= LogQueueSize /\ (s4 \notin {"notify", "write"} => s5 = <<>>)
      /\ Len(s2) \in Nat /\ LogQueueSize \in Nat /\ LogBatch \in Nat
      /\ Log!Flushers = {"caller", "stop"} /\ Log!NoEntry = "none"
  BY <1>2, ThreadsAssumption DEF LogRest, Placed, Log!Flushers, Log!NoEntry
<1>4. ASSUME UNCHANGED <<s2, s5, s7, s10>>, Log!Handed' = h, DOMAIN s3' = LogEntries,
             s4' \in {"notify", "write"} => s4 \in {"notify", "write"} \/ s5 = <<>>,
             s4' \notin {"notify", "write"} => s5 = <<>>
      PROVE  Log!InvPlaces'
  <2>1. Placed(s2', s5', s10', s7'["caller"], s7'["stop"], h) BY <1>2, <1>4
  <2>2. LogRest(s2', s5', s4', s3', s7') BY <1>3, <1>4 DEF LogRest
  <2>3. PICK q, b, s, k : q = s2' /\ b = s5' /\ s = s10' /\ k = s7' OBVIOUS
  <2>4. /\ Placed(q, b, s, k["caller"], k["stop"], h) /\ LogRest(q, b, s4', s3', k)
    BY <2>1, <2>2, <2>3
  <2> QED BY <1>4, <2>3, <2>4, LogInvAfter
\* The calls of log.
<1>5. ASSUME NEW e \in LogEntries, Log!Log(e) PROVE Log!InvPlaces'
  <2>1. CASE Log!LogTest(e)
    <3> USE <2>1 DEF Log!LogTest
    <3>1. CASE s1
      <4>1. s3' = [s3 EXCEPT ![e] = "lock"] /\ UNCHANGED <<s2, s4, s5, s7, s10>> BY <3>1
      <4>2. Log!Handed' = h BY <1>1, <1>3, <4>1 DEF Log!Handed
      <4> QED BY <1>3, <1>4, <4>1, <4>2
    <3>2. CASE ~s1
      <4>1. /\ s3' = [s3 EXCEPT ![e] = "written"] /\ s10' = Append(s10, e)
            /\ UNCHANGED <<s2, s4, s5, s7>>
        BY <3>2
      <4>2. Log!Handed' = h \cup {e} /\ e \notin h BY <1>1, <1>3, <4>1 DEF Log!Handed
      <4>3. PICK q, b, s, k : q = s2 /\ b = s5 /\ s = Append(s10, e) /\ k = s7 OBVIOUS
      <4>4. Placed(q, b, s, k["caller"], k["stop"], h \cup {e}) BY <1>2, <4>2, <4>3, LogMoves
      <4>5. LogRest(q, b, s4', s3', k) BY <1>3, <4>1, <4>3 DEF LogRest
      <4> QED BY <4>1, <4>2, <4>3, <4>4, <4>5, LogInvAfter
    <3> QED BY <3>1, <3>2
  <2>2. CASE Log!LogPush(e)
    <3> USE <2>2 DEF Log!LogPush, Log!MayPush, Log!Full
    <3>1. /\ s3' = [s3 EXCEPT ![e] = "notify"] /\ s2' = Append(s2, e)
          /\ UNCHANGED <<s4, s5, s7, s10>> /\ Len(s2) < LogQueueSize
      BY <1>3
    <3>2. Log!Handed' = h \cup {e} /\ e \notin h BY <1>1, <1>3, <3>1 DEF Log!Handed
    <3>3. PICK q, b, s, k : q = Append(s2, e) /\ b = s5 /\ s = s10 /\ k = s7 OBVIOUS
    <3>4. Placed(q, b, s, k["caller"], k["stop"], h \cup {e}) /\ Len(q) = Len(s2) + 1
      <4>1. e \in LogEntries \ h BY <3>2
      <4>2. /\ Placed(Append(s2, e), s5, s10, s7["caller"], s7["stop"], h \cup {e})
            /\ Len(Append(s2, e)) = Len(s2) + 1
        BY ONLY <1>2, <4>1, LogMoves
      <4> QED BY <3>3, <4>2
    <3>5. LogRest(q, b, s4', s3', k) BY <1>3, <3>1, <3>3, <3>4 DEF LogRest
    <3> QED BY <3>1, <3>2, <3>3, <3>4, <3>5, LogInvAfter
  <2>3. CASE Log!LogFull(e)
    <3> USE <2>3 DEF Log!LogFull
    <3>1. s3[e] \in {"lock", "woken"} /\ UNCHANGED <<s2, s4, s5, s7, s10>> OBVIOUS
    <3>2. DOMAIN s3' = LogEntries /\ s3'[e] \in {"blocked", "dropped"}
          /\ \A x \in LogEntries : x # e => s3'[x] = s3[x]
      BY <1>3
    <3>3. Log!Handed' = h BY <1>1, <3>1, <3>2 DEF Log!Handed
    <3> QED BY <1>3, <1>4, <3>1, <3>2, <3>3
  <2>4. CASE Log!LogNotify(e)
    <3> USE <2>4 DEF Log!LogNotify, Log!WakeWorker
    <3>1. Log!Handed' = h BY <1>1, <1>3 DEF Log!Handed
    <3>2. UNCHANGED <<s2, s5, s7, s10>> /\ DOMAIN s3' = LogEntries BY <1>3
    <3>3. s4' = s4 \/ (s4 = "asleep" /\ s4' = "wait") OBVIOUS
    <3> QED BY <1>3, <1>4, <3>1, <3>2, <3>3
  <2> QED BY <1>5, <2>1, <2>2, <2>3, <2>4 DEF Log!Log
\* The calls of flush.
<1>6. ASSUME NEW f \in Log!Flushers, Log!Flush(f) PROVE Log!InvPlaces'
  <2>1. CASE Log!FlushTakes(f)
    <3> USE <2>1 DEF Log!FlushTakes
    <3>1. Log!Handed' = h BY <1>1 DEF Log!Handed
    <3>2. PICK q, b, s, k :
            q = Tail(s2) /\ b = s5 /\ s = s10 /\ k = [s7 EXCEPT ![f] = Head(s2)]
      OBVIOUS
    <3>3. s2' = q /\ s7' = k /\ s5' = b /\ s10' = s /\ s3' = s3 /\ s4' = s4 BY <3>2
    <3>4. s2 # <<>> /\ s7[f] = "none" BY <1>3
    <3>5. Placed(q, b, s, k["caller"], k["stop"], h) /\ Len(q) = Len(s2) - 1
      <4>1. CASE f = "caller"
        <5>1. k["caller"] = Head(s2) /\ k["stop"] = s7["stop"] BY <1>3, <3>2, <4>1
        <5> QED BY <1>2, <3>2, <3>4, <4>1, <5>1, LogMoves
      <4>2. CASE f = "stop"
        <5>1. k["stop"] = Head(s2) /\ k["caller"] = s7["caller"] BY <1>3, <3>2, <4>2
        <5> QED BY <1>2, <3>2, <3>4, <4>2, <5>1, LogMoves
      <4> QED BY <1>3, <4>1, <4>2
    <3>6. k \in [Log!Flushers -> LogEntries \cup {"none"}]
      <4>1. k["caller"] \in LogEntries \cup {"none"} /\ k["stop"] \in LogEntries \cup {"none"}
        BY <3>5 DEF Placed
      <4> QED BY <1>3, <3>2, <4>1
    <3>7. LogRest(q, b, s4', s3', k) BY <1>3, <3>2, <3>3, <3>5, <3>6 DEF LogRest
    <3> QED BY <3>1, <3>3, <3>5, <3>7, LogInvAfter
  <2>2. CASE Log!FlushWrites(f)
    <3> USE <2>2 DEF Log!FlushWrites
    <3>1. Log!Handed' = h BY <1>1 DEF Log!Handed
    <3>2. PICK q, b, s, k :
            q = s2 /\ b = s5 /\ s = Append(s10, s7[f]) /\ k = [s7 EXCEPT ![f] = "none"]
      OBVIOUS
    <3>3. s2' = q /\ s7' = k /\ s5' = b /\ s10' = s /\ s3' = s3 /\ s4' = s4 BY <1>3, <3>2
    <3>4. s7[f] # "none" BY <1>3
    <3>5. Placed(q, b, s, k["caller"], k["stop"], h)
      <4>1. CASE f = "caller"
        <5>1. k["caller"] = "none" /\ k["stop"] = s7["stop"] BY <1>3, <3>2, <4>1
        <5> QED BY <1>2, <3>2, <3>4, <4>1, <5>1, LogMoves
      <4>2. CASE f = "stop"
        <5>1. k["stop"] = "none" /\ k["caller"] = s7["caller"] BY <1>3, <3>2, <4>2
        <5> QED BY <1>2, <3>2, <3>4, <4>2, <5>1, LogMoves
      <4> QED BY <1>3, <4>1, <4>2
    <3>6. LogRest(q, b, s4', s3', k) BY <1>3, <3>2, <3>3 DEF LogRest
    <3> QED BY <3>1, <3>3, <3>5, <3>6, LogInvAfter
  <2>3. CASE Log!FlushReturns(f)
    <3> USE <2>3 DEF Log!FlushReturns
    <3>1. Log!Handed' = h BY <1>1 DEF Log!Handed
    <3> QED BY <1>3, <1>4, <3>1
  <2> QED BY <1>6, <2>1, <2>2, <2>3 DEF Log!Flush
\* The worker.
<1>7. CASE Log!TakeBatch
  <2> USE <1>7 DEF Log!TakeBatch
  <2>1. PICK n \in 0..Len(s2) : n = IF Len(s2) < LogBatch THEN Len(s2) ELSE LogBatch
    BY <1>3
  <2>2. PICK q, b, s, k :
          q = SubSeq(s2, n + 1, Len(s2)) /\ b = SubSeq(s2, 1, n) /\ s = s10 /\ k = s7
    OBVIOUS
  <2>3. /\ s2' = q /\ s5' = b /\ s10' = s /\ s7' = k /\ s3' = s3
        /\ s4' \in {"notify", "write"} /\ s5 = <<>>
    BY <1>3, <2>1, <2>2
  <2>4. Log!Handed' = h BY <1>1, <2>3 DEF Log!Handed
  <2>5. Placed(q, b, s, k["caller"], k["stop"], h) /\ Len(q) = Len(s2) - n
    BY <1>2, <2>2, <2>3, LogMoves
  <2>6. LogRest(q, b, s4', s3', k)
    <3>1. Len(q) <= LogQueueSize BY <1>3, <2>5
    <3> QED BY <1>3, <2>2, <2>3, <3>1 DEF LogRest
  <2> QED BY <2>3, <2>4, <2>5, <2>6, LogInvAfter
<1>8. CASE Log!WriteBatch
  <2> USE <1>8 DEF Log!WriteBatch
  <2>1. PICK q, b, s, k : q = s2 /\ b = Tail(s5) /\ s = Append(s10, Head(s5)) /\ k = s7
    OBVIOUS
  <2>2. /\ s2' = q /\ s5' = b /\ s10' = s /\ s7' = k /\ s3' = s3 /\ s4' = s4
        /\ s4 = "write" /\ s5 # <<>>
    BY <2>1
  <2>3. Log!Handed' = h BY <1>1, <2>2 DEF Log!Handed
  <2>4. Placed(q, b, s, k["caller"], k["stop"], h) BY <1>2, <2>1, <2>2, LogMoves
  <2>5. LogRest(q, b, s4', s3', k) BY <1>3, <2>1, <2>2 DEF LogRest
  <2> QED BY <2>2, <2>3, <2>4, <2>5, LogInvAfter
<1>9. CASE Log!NotifyFull
  <2> USE <1>9 DEF Log!NotifyFull, Log!Blocked
  <2>1. Log!Handed' = h BY <1>1 DEF Log!Handed
  <2>2. DOMAIN s3' = LogEntries /\ s4' = "write" /\ s4 = "notify" OBVIOUS
  <2> QED BY <1>4, <2>1, <2>2
\* What moves no entry.
<1>10. CASE \/ Log!LoopTest \/ Log!WaitTest \/ Log!WaitSleeps \/ Log!BatchWritten
            \/ Log!SpuriousWakeup \/ Log!FlushBegins \/ Log!Start \/ Log!StopBegins
            \/ Log!StopNotifies \/ Log!StopJoins
  <2>1. s3' = s3 /\ UNCHANGED <<s2, s5, s7, s10>>
    BY <1>10 DEF Log!LoopTest, Log!WaitTest, Log!WaitSleeps, Log!BatchWritten,
       Log!SpuriousWakeup, Log!FlushBegins, Log!Start, Log!StopBegins, Log!StopNotifies,
       Log!StopJoins
  <2>2. s4' = s4 \/ (s4' \notin {"notify", "write"} /\ s5 = <<>>)
    BY <1>3, <1>10 DEF Log!LoopTest, Log!WaitTest, Log!WaitSleeps, Log!BatchWritten,
       Log!SpuriousWakeup, Log!FlushBegins, Log!Start, Log!StopBegins, Log!StopNotifies,
       Log!StopJoins, Log!WakeWorker
  <2>3. Log!Handed' = h BY <1>1, <2>1 DEF Log!Handed
  <2> QED BY <1>3, <1>4, <2>1, <2>2, <2>3
<1> QED BY <1>5, <1>6, <1>7, <1>8, <1>9, <1>10 DEF Log!Next, Log!Work, Log!StopContinues

\* The order.  p gives an entry's place in the queue, w its writer; q and b rise, S is
\* before T, and what each thread has written is before what it has still to write.
Rising(q, p) == \A i, j \in 1..Len(q) : i < j => p[q[i]] < p[q[j]]
Lower(S, T, p) == \A e \in S, f \in T : p[e] < p[f]
Ones(s, w, t) == {e \in Elements(s) : w[e] = t}
Takers == {"worker", "caller", "stop"}

Turns(s, p, w) ==
  \A i, j \in 1..Len(s) : i < j /\ w[s[i]] \in Takers /\ w[s[i]] = w[s[j]] => p[s[i]] < p[s[j]]

Ordered(q, b, s, x, y, n, p, w) ==
  /\ n \in Nat /\ p \in [LogEntries -> 0..n] /\ w \in [LogEntries -> Log!Writers]
  /\ Rising(q, p) /\ Rising(b, p) /\ Lower(Elements(b), Elements(q), p)
  /\ Lower(Ones(s, w, "worker"), Elements(b) \cup Elements(q), p)
  /\ Lower({x} \ {"none"}, Elements(q), p) /\ Lower({y} \ {"none"}, Elements(q), p)
  /\ Lower(Ones(s, w, "caller"), ({x} \ {"none"}) \cup Elements(q), p)
  /\ Lower(Ones(s, w, "stop"), ({y} \ {"none"}) \cup Elements(q), p)
  /\ Turns(s, p, w)

LEMMA RisingTail ==
  ASSUME NEW q \in Seq(LogEntries), q # <<>>, NEW p, Rising(q, p)
  PROVE  Rising(Tail(q), p) /\ Lower({Head(q)}, Elements(Tail(q)), p)
<1>1. PICK r, n : r = Tail(q) /\ n = Len(q) - 1 OBVIOUS
<1>2. /\ n \in Nat /\ Len(q) = n + 1 /\ Len(r) = n /\ Head(q) = q[1]
      /\ \A i \in 1..n : r[i] = q[i + 1]
  BY <1>1
<1>3. 1 \in 1..n + 1 /\ \A i \in 1..n : i + 1 \in 1..n + 1 /\ 1 < i + 1 BY <1>2
<1>4. ASSUME NEW i \in 1..n, NEW j \in 1..n, i < j PROVE p[r[i]] < p[r[j]]
  <2>1. i + 1 < j + 1 BY <1>4
  <2>2. p[q[i + 1]] < p[q[j + 1]] BY <1>2, <1>3, <2>1 DEF Rising
  <2> QED BY <1>2, <2>2
<1>5. ASSUME NEW i \in 1..n PROVE p[q[1]] < p[r[i]] BY <1>2, <1>3 DEF Rising
<1>6. Rising(r, p) BY <1>2, <1>4 DEF Rising
<1>7. Lower({Head(q)}, Elements(r), p) BY <1>2, <1>5 DEF Lower, Elements
<1> QED BY <1>1, <1>6, <1>7

LEMMA RisingSplit ==
  ASSUME NEW q \in Seq(LogEntries), NEW p, Rising(q, p), NEW n \in 0..Len(q)
  PROVE  LET a == SubSeq(q, 1, n)
             b == SubSeq(q, n + 1, Len(q))
         IN  Rising(a, p) /\ Rising(b, p) /\ Lower(Elements(a), Elements(b), p)
<1>1. PICK a, b, m : a = SubSeq(q, 1, n) /\ b = SubSeq(q, n + 1, Len(q)) /\ m = Len(q) OBVIOUS
<1>2. m \in Nat /\ n \in 0..m /\ \A i \in 1..m : q[i] \in LogEntries BY <1>1, LenProperties
<1>3. Len(a) = n /\ \A i \in 1..n : a[i] = q[i]
  <2>1. \A i \in 1..n : q[i] \in LogEntries BY <1>2
  <2>2. /\ Len(SubSeq(q, 1, n)) = IF 1 <= n THEN n - 1 + 1 ELSE 0
        /\ \A i \in 1..n - 1 + 1 : SubSeq(q, 1, n)[i] = q[1 + i - 1]
    BY <1>2, <2>1, SubSeqProperties
  <2> QED BY <1>1, <1>2, <2>2
<1>4. Len(b) = m - n /\ \A i \in 1..m - n : b[i] = q[n + i]
  <2>1. \A i \in n + 1..m : q[i] \in LogEntries BY <1>2
  <2>2. PICK k \in Int : k = n + 1 BY <1>2
  <2>3. /\ Len(SubSeq(q, k, m)) = IF k <= m THEN m - k + 1 ELSE 0
        /\ \A i \in 1..m - k + 1 : SubSeq(q, k, m)[i] = q[k + i - 1]
    BY <1>2, <2>1, <2>2, SubSeqProperties
  <2>4. b = SubSeq(q, k, m) /\ Len(b) = m - n BY <1>1, <1>2, <2>2, <2>3
  <2>5. \A i \in 1..m - n : i \in 1..m - k + 1 /\ k + i - 1 = n + i BY <1>2, <2>2
  <2> QED BY <2>3, <2>4, <2>5
<1>5. Rising(a, p)
  <2>1. \A i \in 1..n : i \in 1..m BY <1>2
  <2> QED BY <1>1, <1>3, <2>1 DEF Rising
<1>6. Rising(b, p)
  <2> SUFFICES ASSUME NEW i \in 1..m - n, NEW j \in 1..m - n, i < j PROVE p[b[i]] < p[b[j]]
    BY <1>4 DEF Rising
  <2>1. n + i \in 1..m /\ n + j \in 1..m /\ n + i < n + j BY <1>2
  <2>2. p[q[n + i]] < p[q[n + j]] BY <1>1, <2>1 DEF Rising
  <2> QED BY <1>4, <2>2
<1>7. Lower(Elements(a), Elements(b), p)
  <2> SUFFICES ASSUME NEW i \in 1..n, NEW j \in 1..m - n PROVE p[a[i]] < p[b[j]]
    BY <1>3, <1>4 DEF Lower, Elements
  <2>1. i \in 1..m /\ n + j \in 1..m /\ i < n + j BY <1>2
  <2>2. p[q[i]] < p[q[n + j]] BY <1>1, <2>1 DEF Rising
  <2> QED BY <1>3, <1>4, <2>2
<1> QED BY <1>1, <1>5, <1>6, <1>7

LEMMA RisingAppend ==
  ASSUME NEW q \in Seq(LogEntries), NEW e \in LogEntries, NEW p, NEW r, Rising(q, p),
         \A f \in Elements(q) : r[f] = p[f] /\ r[f] < r[e]
  PROVE  Rising(Append(q, e), r)
<1>1. PICK a, n : a = Append(q, e) /\ n = Len(q) OBVIOUS
<1>2. n \in Nat /\ Len(a) = n + 1 /\ a[n + 1] = e /\ \A i \in 1..n : a[i] = q[i] BY <1>1
<1>3. \A i \in 1..n : q[i] \in Elements(q) BY <1>1 DEF Elements
<1>4. ASSUME NEW i \in 1..n + 1, NEW j \in 1..n + 1, i < j PROVE r[a[i]] < r[a[j]]
  <2>1. i \in 1..n BY <1>2, <1>4
  <2>2. CASE j \in 1..n
    <3>1. p[q[i]] < p[q[j]] BY <1>1, <1>4, <2>1, <2>2 DEF Rising
    <3> QED BY <1>2, <1>3, <2>1, <2>2, <3>1
  <2>3. CASE j = n + 1 BY <1>2, <1>3, <2>1, <2>3
  <2> QED BY <1>2, <2>2, <2>3
<1>5. Rising(a, r) BY <1>2, <1>4 DEF Rising
<1> QED BY <1>1, <1>5

\* The thread t writes e: its own entries get one more, those of the others stay.
MayWrite(s, e, p, w, t) ==
  /\ s \in Seq(LogEntries) /\ e \in LogEntries /\ e \notin Elements(s)
  /\ w \in [LogEntries -> Log!Writers] /\ t \in Log!Writers /\ Turns(s, p, w)
  /\ t \in Takers => Lower(Ones(s, w, t), {e}, p)

Wrote(s, e, p, w, t, a, v) ==
  /\ Turns(a, p, v) /\ v \in [LogEntries -> Log!Writers]
  /\ \A u \in Takers : Ones(a, v, u) = Ones(s, w, u) \cup (IF u = t THEN {e} ELSE {})

LEMMA TurnsAppend ==
  ASSUME NEW s, NEW e, NEW p, NEW w, NEW t, NEW a, NEW v, MayWrite(s, e, p, w, t),
         a = Append(s, e), v = [w EXCEPT ![e] = t]
  PROVE  Wrote(s, e, p, w, t, a, v)
<1> USE DEF MayWrite
<1>1. PICK n : n = Len(s) OBVIOUS
<1>2. n \in Nat /\ Len(a) = n + 1 /\ a[n + 1] = e /\ \A i \in 1..n : a[i] = s[i] BY <1>1
<1>3. \A i \in 1..n : s[i] \in Elements(s) /\ s[i] # e /\ s[i] \in LogEntries
  BY <1>1, LogElements DEF Elements
<1>4. /\ v[e] = t /\ v \in [LogEntries -> Log!Writers]
      /\ \A f : f \in LogEntries /\ f # e => v[f] = w[f]
  BY <1>1
<1>5. ASSUME NEW i \in 1..n + 1, NEW j \in 1..n + 1, i < j, v[a[i]] \in Takers, v[a[i]] = v[a[j]]
      PROVE  p[a[i]] < p[a[j]]
  <2>1. i \in 1..n BY <1>2, <1>5
  <2>2. a[i] = s[i] /\ v[a[i]] = w[s[i]] BY <1>2, <1>3, <1>4, <2>1
  <2>3. CASE j \in 1..n
    <3>1. a[j] = s[j] /\ v[a[j]] = w[s[j]] BY <1>2, <1>3, <1>4, <2>3
    <3> QED BY <1>1, <1>5, <2>1, <2>2, <2>3, <3>1 DEF Turns
  <2>4. CASE j = n + 1
    <3>1. w[s[i]] = t /\ a[j] = e BY <1>2, <1>4, <1>5, <2>2, <2>4
    <3>2. s[i] \in Ones(s, w, t) BY <1>3, <2>1, <3>1 DEF Ones
    <3> QED BY <1>5, <2>2, <3>1, <3>2 DEF Lower
  <2> QED BY <1>2, <2>3, <2>4
<1>6. Turns(a, p, v) BY <1>2, <1>5 DEF Turns
<1>7. Elements(a) = Elements(s) \cup {e}
  <2>1. ASSUME NEW z \in Elements(a) PROVE z \in Elements(s) \cup {e}
    <3>1. PICK i \in 1..n + 1 : z = a[i] BY <1>2, <2>1 DEF Elements
    <3>2. CASE i \in 1..n BY <1>2, <1>3, <3>1, <3>2
    <3>3. CASE i = n + 1 BY <1>2, <3>1, <3>3
    <3> QED BY <1>2, <3>2, <3>3
  <2>2. e \in Elements(a)
    <3>1. n + 1 \in 1..n + 1 BY <1>2
    <3> QED BY <1>2, <3>1 DEF Elements
  <2>3. ASSUME NEW z \in Elements(s) PROVE z \in Elements(a)
    <3>1. PICK i \in 1..n : z = s[i] BY <1>1, <2>3 DEF Elements
    <3>2. i \in 1..n + 1 /\ z = a[i] BY <1>2, <3>1
    <3> QED BY <1>2, <3>2 DEF Elements
  <2> QED BY <2>1, <2>2, <2>3
<1>8. ASSUME NEW u \in Takers PROVE Ones(a, v, u) = Ones(s, w, u) \cup (IF u = t THEN {e} ELSE {})
  <2>1. \A f \in Elements(s) : v[f] = w[f] BY <1>4, LogElements
  <2> QED BY <1>4, <1>7, <2>1 DEF Ones
<1> QED BY <1>4, <1>6, <1>8 DEF Wrote

\* The ways in which an entry moves keep the order.
OrderKept(q, b, s, x, y, h, n, p, w) ==
  /\ \A e \in LogEntries \ h :
       /\ Ordered(q, b, Append(s, e), x, y, n, p, [w EXCEPT ![e] = "log"])
       /\ Ordered(Append(q, e), b, s, x, y, n + 1, [p EXCEPT ![e] = n + 1], w)
  /\ b = <<>> => \A k \in 0..Len(q) :
       Ordered(SubSeq(q, k + 1, Len(q)), SubSeq(q, 1, k), s, x, y, n, p, w)
  /\ b # <<>> =>
       Ordered(q, Tail(b), Append(s, Head(b)), x, y, n, p, [w EXCEPT ![Head(b)] = "worker"])
  /\ q # <<>> => /\ x = "none" => Ordered(Tail(q), b, s, Head(q), y, n, p, w)
                 /\ y = "none" => Ordered(Tail(q), b, s, x, Head(q), n, p, w)
  /\ x # "none" => Ordered(q, b, Append(s, x), "none", y, n, p, [w EXCEPT ![x] = "caller"])
  /\ y # "none" => Ordered(q, b, Append(s, y), x, "none", n, p, [w EXCEPT ![y] = "stop"])

LEMMA OrderMoves ==
  ASSUME NEW q, NEW b, NEW s, NEW x, NEW y, NEW h, NEW n, NEW p, NEW w,
         Placed(q, b, s, x, y, h), Ordered(q, b, s, x, y, n, p, w)
  PROVE  OrderKept(q, b, s, x, y, h, n, p, w)
<1>1. "none" \notin LogEntries BY ThreadsAssumption
<1>0. {"log", "worker", "caller", "stop"} \subseteq Log!Writers BY DEF Log!Writers, Log!Flushers
<1>2. /\ q \in Seq(LogEntries) /\ b \in Seq(LogEntries) /\ s \in Seq(LogEntries)
      /\ x \in LogEntries \cup {"none"} /\ y \in LogEntries \cup {"none"}
      /\ Elements(q) \subseteq LogEntries /\ Elements(b) \subseteq LogEntries
      /\ Elements(s) \subseteq LogEntries /\ Distinct(q) /\ Distinct(b)
  BY LogElements DEF Placed
<1>3. /\ n \in Nat /\ p \in [LogEntries -> 0..n] /\ w \in [LogEntries -> Log!Writers]
      /\ Rising(q, p) /\ Rising(b, p) /\ Lower(Elements(b), Elements(q), p)
      /\ Lower(Ones(s, w, "worker"), Elements(b) \cup Elements(q), p)
      /\ Lower({x} \ {"none"}, Elements(q), p) /\ Lower({y} \ {"none"}, Elements(q), p)
      /\ Lower(Ones(s, w, "caller"), ({x} \ {"none"}) \cup Elements(q), p)
      /\ Lower(Ones(s, w, "stop"), ({y} \ {"none"}) \cup Elements(q), p)
      /\ Turns(s, p, w)
  BY DEF Ordered
<1>4. ASSUME NEW e \in LogEntries \ h
      PROVE  Ordered(q, b, Append(s, e), x, y, n, p, [w EXCEPT ![e] = "log"])
  <2>1. e \notin Elements(s) BY <1>1, <1>4 DEF Placed
  <2>2. PICK a, v : a = Append(s, e) /\ v = [w EXCEPT ![e] = "log"] OBVIOUS
  <2>3. Turns(a, p, v) /\ v \in [LogEntries -> Log!Writers]
        /\ \A u \in Takers : Ones(a, v, u) = Ones(s, w, u)
    <3>1. "log" \notin Takers BY DEF Takers
    <3>2. MayWrite(s, e, p, w, "log") BY <1>0, <1>2, <1>3, <2>1, <3>1 DEF MayWrite
    <3>3. Wrote(s, e, p, w, "log", a, v) BY ONLY <2>2, <3>2, TurnsAppend
    <3> QED BY <3>1, <3>3 DEF Wrote
  <2>4. Ordered(q, b, a, x, y, n, p, v) BY <1>3, <2>3 DEF Ordered, Takers
  <2> QED BY <2>2, <2>4
<1>5. ASSUME NEW e \in LogEntries \ h
      PROVE  Ordered(Append(q, e), b, s, x, y, n + 1, [p EXCEPT ![e] = n + 1], w)
  <2>1. /\ e \notin Elements(q) /\ e \notin Elements(b) /\ e \notin Elements(s) /\ e # x /\ e # y
        /\ e \in LogEntries
    BY <1>1, <1>5 DEF Placed
  <2>2. PICK a, r : a = Append(q, e) /\ r = [p EXCEPT ![e] = n + 1] OBVIOUS
  <2>3. /\ r \in [LogEntries -> 0..n + 1] /\ n + 1 \in Nat /\ r[e] = n + 1
        /\ \A f \in LogEntries : f # e => r[f] = p[f] /\ r[f] < n + 1
    BY <1>3, <2>1, <2>2
  <2>4. Elements(a) = Elements(q) \cup {e} BY <1>2, <2>1, <2>2, AppendDistinct
  <2>5. Rising(a, r)
    <3>1. \A f \in Elements(q) : r[f] = p[f] /\ r[f] < r[e] BY <1>2, <2>1, <2>3
    <3> QED BY <1>2, <1>3, <2>1, <2>2, <3>1, RisingAppend
  <2>6. Rising(b, r)
    <3>1. \A i \in 1..Len(b) : b[i] \in LogEntries /\ b[i] # e BY <1>2, <2>1 DEF Elements
    <3> QED BY <1>3, <2>3, <3>1 DEF Rising
  <2>7. Turns(s, r, w)
    <3>1. \A i \in 1..Len(s) : s[i] \in LogEntries /\ s[i] # e BY <1>2, <2>1 DEF Elements
    <3> QED BY <1>3, <2>3, <3>1 DEF Turns
  <2>8. ASSUME NEW S \in SUBSET (LogEntries \ {e}), NEW T \in SUBSET (LogEntries \ {e}),
               Lower(S, T \cup Elements(q), p)
        PROVE  Lower(S, T \cup Elements(a), r)
    <3> SUFFICES ASSUME NEW f \in S, NEW g \in T \cup Elements(a) PROVE r[f] < r[g] BY DEF Lower
    <3>1. r[f] = p[f] /\ r[f] < n + 1 BY <2>3
    <3>2. CASE g = e BY <2>3, <3>1, <3>2
    <3>3. CASE g # e
      <4>1. g \in T \cup Elements(q) /\ r[g] = p[g] BY <1>2, <2>3, <2>4, <3>3
      <4> QED BY <2>8, <3>1, <4>1 DEF Lower
    <3> QED BY <3>2, <3>3
  <2>9. \A t : Ones(s, w, t) \subseteq LogEntries \ {e} BY <1>2, <2>1 DEF Ones
  <2>10. /\ Elements(b) \subseteq LogEntries \ {e} /\ {x} \ {"none"} \subseteq LogEntries \ {e}
         /\ {y} \ {"none"} \subseteq LogEntries \ {e}
    BY <1>2, <2>1
  <2>11. ASSUME NEW S \in SUBSET (LogEntries \ {e}), Lower(S, Elements(q), p)
         PROVE  Lower(S, Elements(a), r)
    <3>1. {} \in SUBSET (LogEntries \ {e}) /\ {} \cup Elements(q) = Elements(q)
          /\ {} \cup Elements(a) = Elements(a)
      OBVIOUS
    <3>2. Lower(S, {} \cup Elements(q), p) BY <2>11, <3>1
    <3>3. Lower(S, {} \cup Elements(a), r) BY <2>8, <3>1, <3>2
    <3> QED BY <3>1, <3>3
  <2>12. Lower(Elements(b), Elements(a), r) BY <1>3, <2>10, <2>11
  <2>13. Lower({x} \ {"none"}, Elements(a), r) BY <1>3, <2>10, <2>11
  <2>14. Lower({y} \ {"none"}, Elements(a), r) BY <1>3, <2>10, <2>11
  <2>15. Lower(Ones(s, w, "worker"), Elements(b) \cup Elements(a), r) BY <1>3, <2>8, <2>9, <2>10
  <2>16. Lower(Ones(s, w, "caller"), ({x} \ {"none"}) \cup Elements(a), r)
    BY <1>3, <2>8, <2>9, <2>10
  <2>17. Lower(Ones(s, w, "stop"), ({y} \ {"none"}) \cup Elements(a), r)
    BY <1>3, <2>8, <2>9, <2>10
  <2>18. Ordered(a, b, s, x, y, n + 1, r, w)
    BY ONLY <1>3, <2>3, <2>5, <2>6, <2>7, <2>12, <2>13, <2>14, <2>15, <2>16, <2>17 DEF Ordered
  <2> QED BY <2>2, <2>18
<1>6. ASSUME b = <<>>, NEW k \in 0..Len(q)
      PROVE  Ordered(SubSeq(q, k + 1, Len(q)), SubSeq(q, 1, k), s, x, y, n, p, w)
  <2>1. PICK a, c : a = SubSeq(q, 1, k) /\ c = SubSeq(q, k + 1, Len(q)) OBVIOUS
  <2>2. Rising(a, p) /\ Rising(c, p) /\ Lower(Elements(a), Elements(c), p)
    BY <1>2, <1>3, <2>1, RisingSplit
  <2>3. Elements(a) \cup Elements(c) = Elements(q) BY <1>2, <2>1, SplitDistinct
  <2>4. Ordered(c, a, s, x, y, n, p, w) BY <1>3, <2>2, <2>3 DEF Ordered, Lower
  <2> QED BY <2>1, <2>4
<1>7. ASSUME b # <<>>
      PROVE  Ordered(q, Tail(b), Append(s, Head(b)), x, y, n, p, [w EXCEPT ![Head(b)] = "worker"])
  <2>1. PICK e, t, a, v : e = Head(b) /\ t = Tail(b) /\ a = Append(s, e)
                          /\ v = [w EXCEPT ![e] = "worker"]
    OBVIOUS
  <2>2. e \in Elements(b) /\ e \in LogEntries /\ Elements(t) = Elements(b) \ {e}
    BY <1>2, <1>7, <2>1, TailDistinct
  <2>3. Rising(t, p) /\ Lower({e}, Elements(t), p) BY <1>2, <1>3, <1>7, <2>1, RisingTail
  <2>4. e \notin Elements(s) BY <2>2 DEF Placed
  <2>5. Lower(Ones(s, w, "worker"), {e}, p) BY <1>3, <2>2 DEF Lower
  <2>6. /\ Turns(a, p, v) /\ v \in [LogEntries -> Log!Writers]
        /\ \A u \in Takers : Ones(a, v, u) = Ones(s, w, u) \cup (IF u = "worker" THEN {e} ELSE {})
    <3>1. MayWrite(s, e, p, w, "worker") BY <1>0, <1>2, <1>3, <2>2, <2>4, <2>5 DEF MayWrite
    <3>2. Wrote(s, e, p, w, "worker", a, v) BY ONLY <2>1, <3>1, TurnsAppend
    <3> QED BY <3>2 DEF Wrote
  <2>7. /\ Ones(a, v, "worker") = Ones(s, w, "worker") \cup {e}
        /\ Ones(a, v, "caller") = Ones(s, w, "caller") /\ Ones(a, v, "stop") = Ones(s, w, "stop")
    BY <2>6 DEF Takers
  <2>8. Lower(Elements(t), Elements(q), p) BY <1>3, <2>2 DEF Lower
  <2>9. Lower(Ones(a, v, "worker"), Elements(t) \cup Elements(q), p)
    BY <1>3, <2>2, <2>3, <2>7 DEF Lower
  <2>10. Ordered(q, t, a, x, y, n, p, v) BY <1>3, <2>3, <2>6, <2>7, <2>8, <2>9 DEF Ordered
  <2> QED BY <2>1, <2>10
<1>8. ASSUME q # <<>>
      PROVE  /\ x = "none" => Ordered(Tail(q), b, s, Head(q), y, n, p, w)
             /\ y = "none" => Ordered(Tail(q), b, s, x, Head(q), n, p, w)
  <2>1. PICK e, t : e = Head(q) /\ t = Tail(q) OBVIOUS
  <2>2. e \in Elements(q) /\ e \in LogEntries /\ Elements(t) = Elements(q) \ {e}
    BY <1>2, <1>8, <2>1, TailDistinct
  <2>3. Rising(t, p) /\ Lower({e}, Elements(t), p) BY <1>2, <1>3, <1>8, <2>1, RisingTail
  <2>4. {e} \ {"none"} = {e} BY <1>1, <2>2
  <2>5. \A S, T : Lower(S, T \cup Elements(q), p) =>
            Lower(S, T \cup Elements(t), p) /\ Lower(S, {e} \cup Elements(t), p)
    BY <2>2 DEF Lower
  <2>6. \A S : Lower(S, Elements(q), p) => Lower(S, Elements(t), p) BY <2>2 DEF Lower
  <2>7. /\ Lower(Elements(b), Elements(t), p)
        /\ Lower(Ones(s, w, "worker"), Elements(b) \cup Elements(t), p)
        /\ Lower({x} \ {"none"}, Elements(t), p) /\ Lower({y} \ {"none"}, Elements(t), p)
        /\ Lower(Ones(s, w, "caller"), ({x} \ {"none"}) \cup Elements(t), p)
        /\ Lower(Ones(s, w, "stop"), ({y} \ {"none"}) \cup Elements(t), p)
        /\ Lower(Ones(s, w, "caller"), {e} \cup Elements(t), p)
        /\ Lower(Ones(s, w, "stop"), {e} \cup Elements(t), p)
    BY ONLY <1>3, <2>5, <2>6
  <2>8. Ordered(t, b, s, e, y, n, p, w) BY ONLY <1>3, <2>3, <2>4, <2>7 DEF Ordered
  <2>9. Ordered(t, b, s, x, e, n, p, w) BY ONLY <1>3, <2>3, <2>4, <2>7 DEF Ordered
  <2> QED BY <2>1, <2>8, <2>9
<1>9. ASSUME x # "none"
      PROVE  Ordered(q, b, Append(s, x), "none", y, n, p, [w EXCEPT ![x] = "caller"])
  <2>1. PICK a, v : a = Append(s, x) /\ v = [w EXCEPT ![x] = "caller"] OBVIOUS
  <2>2. x \in LogEntries /\ x \notin Elements(s) /\ {x} \ {"none"} = {x} BY <1>2, <1>9 DEF Placed
  <2>3. Lower(Ones(s, w, "caller"), {x}, p) BY <1>3, <2>2 DEF Lower
  <2>4. /\ Turns(a, p, v) /\ v \in [LogEntries -> Log!Writers]
        /\ \A u \in Takers : Ones(a, v, u) = Ones(s, w, u) \cup (IF u = "caller" THEN {x} ELSE {})
    <3>1. MayWrite(s, x, p, w, "caller") BY <1>0, <1>2, <1>3, <2>2, <2>3 DEF MayWrite
    <3>2. Wrote(s, x, p, w, "caller", a, v) BY ONLY <2>1, <3>1, TurnsAppend
    <3> QED BY <3>2 DEF Wrote
  <2>5. /\ Ones(a, v, "caller") = Ones(s, w, "caller") \cup {x}
        /\ Ones(a, v, "worker") = Ones(s, w, "worker") /\ Ones(a, v, "stop") = Ones(s, w, "stop")
    BY <2>4 DEF Takers
  <2>6. Lower(Ones(a, v, "caller"), ({"none"} \ {"none"}) \cup Elements(q), p)
    BY <1>3, <2>2, <2>5 DEF Lower
  <2>7. Lower({"none"} \ {"none"}, Elements(q), p) BY DEF Lower
  <2>8. Ordered(q, b, a, "none", y, n, p, v) BY ONLY <1>3, <2>4, <2>5, <2>6, <2>7 DEF Ordered
  <2> QED BY <2>1, <2>8
<1>10. ASSUME y # "none"
      PROVE  Ordered(q, b, Append(s, y), x, "none", n, p, [w EXCEPT ![y] = "stop"])
  <2>1. PICK a, v : a = Append(s, y) /\ v = [w EXCEPT ![y] = "stop"] OBVIOUS
  <2>2. y \in LogEntries /\ y \notin Elements(s) /\ {y} \ {"none"} = {y} BY <1>2, <1>10 DEF Placed
  <2>3. Lower(Ones(s, w, "stop"), {y}, p) BY <1>3, <2>2 DEF Lower
  <2>4. /\ Turns(a, p, v) /\ v \in [LogEntries -> Log!Writers]
        /\ \A u \in Takers : Ones(a, v, u) = Ones(s, w, u) \cup (IF u = "stop" THEN {y} ELSE {})
    <3>1. MayWrite(s, y, p, w, "stop") BY <1>0, <1>2, <1>3, <2>2, <2>3 DEF MayWrite
    <3>2. Wrote(s, y, p, w, "stop", a, v) BY ONLY <2>1, <3>1, TurnsAppend
    <3> QED BY <3>2 DEF Wrote
  <2>5. /\ Ones(a, v, "stop") = Ones(s, w, "stop") \cup {y}
        /\ Ones(a, v, "worker") = Ones(s, w, "worker") /\ Ones(a, v, "caller") = Ones(s, w, "caller")
    BY <2>4 DEF Takers
  <2>6. Lower(Ones(a, v, "stop"), ({"none"} \ {"none"}) \cup Elements(q), p)
    BY <1>3, <2>2, <2>5 DEF Lower
  <2>7. Lower({"none"} \ {"none"}, Elements(q), p) BY DEF Lower
  <2>8. Ordered(q, b, a, x, "none", n, p, v) BY ONLY <1>3, <2>4, <2>5, <2>6, <2>7 DEF Ordered
  <2> QED BY <2>1, <2>8
<1> QED BY <1>4, <1>5, <1>6, <1>7, <1>8, <1>9, <1>10 DEF OrderKept

\* The invariant of the order, before a step and after it.
LEMMA LogOrder ==
  ASSUME Log!InvPlaces, Log!InvOrder
  PROVE  /\ s11 = [pushes |-> s11.pushes, place |-> s11.place, writer |-> s11.writer]
         /\ Ordered(s2, s5, s10, s7["caller"], s7["stop"], s11.pushes, s11.place, s11.writer)
<1>1. PICK n \in Nat, p \in [LogEntries -> Nat], w \in [LogEntries -> Log!Writers] :
        s11 = [pushes |-> n, place |-> p, writer |-> w]
  BY DEF Log!InvOrder
<1>2. s2 \in Seq(LogEntries) /\ s5 \in Seq(LogEntries) /\ s10 \in Seq(LogEntries)
  BY DEF Log!InvPlaces
<1>3. /\ Log!Range(s2) = Elements(s2) /\ Log!Range(s5) = Elements(s5)
      /\ Log!Range(s10) = Elements(s10)
      /\ DOMAIN s2 = 1..Len(s2) /\ DOMAIN s5 = 1..Len(s5) /\ DOMAIN s10 = 1..Len(s10)
  BY <1>2, LogSequence, LenProperties
<1>4. /\ \A e : Log!Place(e) = p[e] /\ Log!Writer(e) = w[e]
      /\ s11.pushes = n /\ s11.place = p /\ s11.writer = w
  BY <1>1 DEF Log!Place, Log!Writer
<1>5. p \in [LogEntries -> 0..n] BY <1>4 DEF Log!InvOrder
<1>6. \A t : Log!By(t) = Ones(s10, w, t) BY <1>3, <1>4 DEF Log!By, Ones
<1>7. Log!Held("caller") = {s7["caller"]} \ {"none"} /\ Log!Held("stop") = {s7["stop"]} \ {"none"}
  BY DEF Log!Held, Log!NoEntry
<1>8. \A S, T : Log!Before(S, T) <=> Lower(S, T, p) BY <1>4 DEF Log!Before, Lower
<1>9. Rising(s2, p) /\ Rising(s5, p)
  BY <1>3, <1>4 DEF Log!InvOrder, Log!Ascending, Rising
<1>10. Turns(s10, p, w)
  BY <1>3, <1>4 DEF Log!InvOrder, Turns, Takers, Log!FromQueue, Log!Flushers
<1>11. /\ Log!Before(Elements(s5), Elements(s2))
       /\ Log!Before(Log!By("worker"), Elements(s5) \cup Elements(s2))
       /\ Log!Before(Log!Held("caller"), Elements(s2)) /\ Log!Before(Log!Held("stop"), Elements(s2))
       /\ Log!Before(Log!By("caller"), Log!Held("caller") \cup Elements(s2))
       /\ Log!Before(Log!By("stop"), Log!Held("stop") \cup Elements(s2))
  BY <1>3 DEF Log!InvOrder, Log!Flushers
<1>12. Ordered(s2, s5, s10, s7["caller"], s7["stop"], n, p, w)
  BY <1>5, <1>6, <1>7, <1>8, <1>9, <1>10, <1>11 DEF Ordered
<1> QED BY <1>1, <1>4, <1>12

LEMMA LogOrderAfter ==
  ASSUME NEW q, NEW b, NEW s, NEW k, NEW n, NEW p, NEW w, NEW h,
         q = s2', b = s5', s = s10', k = s7',
         s11' = [pushes |-> n, place |-> p, writer |-> w],
         Placed(q, b, s, k["caller"], k["stop"], h),
         Ordered(q, b, s, k["caller"], k["stop"], n, p, w)
  PROVE  Log!InvOrder'
<1>1. q \in Seq(LogEntries) /\ b \in Seq(LogEntries) /\ s \in Seq(LogEntries) BY DEF Placed
<1>2. /\ Log!Range(q) = Elements(q) /\ Log!Range(b) = Elements(b) /\ Log!Range(s) = Elements(s)
      /\ DOMAIN q = 1..Len(q) /\ DOMAIN b = 1..Len(b) /\ DOMAIN s = 1..Len(s)
  BY <1>1, LogSequence, LenProperties
<1>3. /\ Log!Range(s2)' = Elements(q) /\ Log!Range(s5)' = Elements(b)
      /\ Log!Range(s10)' = Elements(s)
  BY <1>2 DEF Log!Range
<1>4. /\ \A e : Log!Place(e)' = p[e] /\ Log!Writer(e)' = w[e]
      /\ s11'.pushes = n /\ s11'.place = p /\ s11'.writer = w
  BY DEF Log!Place, Log!Writer
<1>5. /\ s11' \in [pushes : Nat, place : [LogEntries -> Nat], writer : [LogEntries -> Log!Writers]]
      /\ \A e \in LogEntries : Log!Place(e)' <= s11'.pushes
  <2>1. n \in Nat /\ p \in [LogEntries -> Nat] /\ w \in [LogEntries -> Log!Writers]
        /\ \A e \in LogEntries : p[e] <= n
    BY DEF Ordered
  <2> QED BY <1>4, <2>1
<1>6. \A t : Log!By(t)' = Ones(s, w, t) BY <1>3, <1>4 DEF Log!By, Ones
<1>7. /\ Log!Held("caller")' = {k["caller"]} \ {"none"}
      /\ Log!Held("stop")' = {k["stop"]} \ {"none"}
  BY DEF Log!Held, Log!NoEntry
<1>8. Log!Ascending(s2)' /\ Log!Ascending(s5)'
  <2>1. \A i, j \in DOMAIN s2' : i < j => p[s2'[i]] < p[s2'[j]] BY <1>2 DEF Ordered, Rising
  <2>2. \A i, j \in DOMAIN s5' : i < j => p[s5'[i]] < p[s5'[j]] BY <1>2 DEF Ordered, Rising
  <2> QED BY <1>4, <2>1, <2>2 DEF Log!Ascending
<1>9. \A i, j \in DOMAIN s10' :
         i < j /\ Log!FromQueue(s10[i])' /\ Log!Writer(s10[i])' = Log!Writer(s10[j])'
           => Log!Place(s10[i])' < Log!Place(s10[j])'
  <2>1. ASSUME NEW i \in DOMAIN s10', NEW j \in DOMAIN s10', i < j, w[s10'[i]] \in Takers,
               w[s10'[i]] = w[s10'[j]]
        PROVE  p[s10'[i]] < p[s10'[j]]
    BY <1>2, <2>1 DEF Ordered, Turns
  <2>2. \A i : Log!FromQueue(s10[i])' => w[s10'[i]] \in Takers
    BY <1>4 DEF Log!FromQueue, Log!Flushers, Takers, Log!Writer
  <2>3. \A i : Log!Writer(s10[i])' = w[s10'[i]] /\ Log!Place(s10[i])' = p[s10'[i]]
    BY <1>4 DEF Log!Writer, Log!Place
  <2> QED BY <2>1, <2>2, <2>3
<1>10. ASSUME NEW S, NEW T, Lower(S, T, p) PROVE \A e \in S, f \in T : Log!Place(e)' < Log!Place(f)'
  BY <1>4, <1>10 DEF Lower
<1>11. /\ Log!Before(Log!Range(s5), Log!Range(s2))'
       /\ Log!Before(Log!By("worker"), Log!Range(s5) \cup Log!Range(s2))'
  <2>1. Lower(Elements(b), Elements(q), p) /\ Lower(Ones(s, w, "worker"), Elements(b) \cup Elements(q), p)
    BY DEF Ordered
  <2> QED BY <1>3, <1>6, <1>10, <2>1 DEF Log!Before
<1>12. ASSUME NEW f \in Log!Flushers
       PROVE  /\ Log!Before(Log!Held(f), Log!Range(s2))'
              /\ Log!Before(Log!By(f), Log!Held(f) \cup Log!Range(s2))'
  <2>1. /\ Lower({k[f]} \ {"none"}, Elements(q), p)
        /\ Lower(Ones(s, w, f), ({k[f]} \ {"none"}) \cup Elements(q), p)
    BY DEF Ordered, Log!Flushers
  <2>2. Log!Held(f)' = {k[f]} \ {"none"} BY DEF Log!Held, Log!NoEntry
  <2> QED BY <1>3, <1>6, <1>10, <2>1, <2>2 DEF Log!Before
<1> QED BY <1>5, <1>8, <1>9, <1>11, <1>12 DEF Log!InvOrder

LEMMA LogStart == Log!Init => Log!Inv
<1> SUFFICES ASSUME Log!Init PROVE Log!InvOrder BY LogPlacesStart DEF Log!Inv
<1>1. s2 = <<>> /\ s5 = <<>> /\ s10 = <<>> /\ \A f \in Log!Flushers : s7[f] = Log!NoEntry
  BY DEF Log!Init
<1>2. /\ Log!Range(s2) = {} /\ Log!Range(s5) = {} /\ Log!Range(s10) = {}
      /\ DOMAIN s2 = {} /\ DOMAIN s5 = {} /\ DOMAIN s10 = {}
  BY <1>1 DEF Log!Range
<1>3. /\ s11 \in [pushes : Nat, place : [LogEntries -> Nat], writer : [LogEntries -> Log!Writers]]
      /\ \A e \in LogEntries : Log!Place(e) <= s11.pushes
  <2>1. PICK p, w : p = [e \in LogEntries |-> 0] /\ w = [e \in LogEntries |-> "none"] OBVIOUS
  <2>2. s11 = [pushes |-> 0, place |-> p, writer |-> w] BY <2>1 DEF Log!Init
  <2>3. p \in [LogEntries -> Nat] /\ w \in [LogEntries -> Log!Writers] /\ \A e \in LogEntries : p[e] = 0
    BY <2>1 DEF Log!Writers
  <2> QED BY <2>2, <2>3 DEF Log!Place
<1>4. \A f \in Log!Flushers : Log!Held(f) = {} BY <1>1 DEF Log!Held
<1>5. \A w : Log!By(w) = {} BY <1>2 DEF Log!By
<1> QED BY <1>2, <1>3, <1>4, <1>5 DEF Log!InvOrder, Log!Before, Log!Ascending

LEMMA LogOrderStep ==
  ASSUME Log!Inv, Log!Next
  PROVE  Log!InvOrder'
<1>1. PICK h : h = Log!Handed OBVIOUS
<1>2. PICK q, b, s, k, x, y : q = s2 /\ b = s5 /\ s = s10 /\ k = s7
                              /\ x = s7["caller"] /\ y = s7["stop"]
  OBVIOUS
<1>3. PICK n, p, w : n = s11.pushes /\ p = s11.place /\ w = s11.writer OBVIOUS
<1>4. /\ Placed(q, b, s, x, y, h) /\ LogRest(q, b, s4, s3, k)
      /\ Ordered(q, b, s, x, y, n, p, w) /\ s11 = [pushes |-> n, place |-> p, writer |-> w]
  BY <1>1, <1>2, <1>3, LogInv, LogOrder DEF Log!Inv
<1>5. /\ k \in [Log!Flushers -> LogEntries \cup {"none"}] /\ DOMAIN s3 = LogEntries
      /\ (s4 \notin {"notify", "write"} => b = <<>>)
      /\ Len(q) \in Nat /\ LogBatch \in Nat
      /\ Log!Flushers = {"caller", "stop"} /\ Log!NoEntry = "none"
      /\ k["caller"] = x /\ k["stop"] = y
  BY <1>2, <1>4, ThreadsAssumption DEF LogRest, Placed, Log!Flushers, Log!NoEntry
<1>6. ASSUME UNCHANGED <<s2, s5, s7, s10, s11>> PROVE Log!InvOrder'
  <2>1. q = s2' /\ b = s5' /\ s = s10' /\ k = s7' /\ s11' = [pushes |-> n, place |-> p, writer |-> w]
    BY <1>2, <1>4, <1>6
  <2> QED BY <1>4, <1>5, <2>1, LogOrderAfter
<1>19. OrderKept(q, b, s, x, y, h, n, p, w) BY ONLY <1>4, OrderMoves
<1>20. PlacesKept(q, b, s, x, y, h) BY ONLY <1>4, LogPlacesKept
<1>7. ASSUME NEW e \in LogEntries, Log!LogTest(e) PROVE Log!InvOrder'
  <2> USE <1>7 DEF Log!LogTest
  <2>1. CASE s1 BY <1>6, <2>1
  <2>2. CASE ~s1
    <3>1. e \notin h BY <1>1 DEF Log!Handed
    <3>2. PICK a, v : a = Append(s, e) /\ v = [w EXCEPT ![e] = "log"] OBVIOUS
    <3>3. q = s2' /\ b = s5' /\ a = s10' /\ k = s7' BY <1>2, <2>2, <3>2
    <3>4. s11' = [pushes |-> n, place |-> p, writer |-> v]
      BY <1>4, <2>2, <3>2 DEF Log!WrittenBy
    <3>5. Placed(q, b, a, x, y, h \cup {e}) BY <1>4, <3>1, <3>2, <1>20 DEF PlacesKept
    <3>6. Ordered(q, b, a, x, y, n, p, v) BY <1>4, <3>1, <3>2, <1>19 DEF OrderKept
    <3> QED BY <1>5, <3>3, <3>4, <3>5, <3>6, LogOrderAfter
  <2> QED BY <2>1, <2>2
<1>8. ASSUME NEW e \in LogEntries, Log!LogPush(e) PROVE Log!InvOrder'
  <2> USE <1>8 DEF Log!LogPush
  <2>1. e \notin h BY <1>1 DEF Log!Handed, Log!MayPush
  <2>2. PICK a, m, r : a = Append(q, e) /\ m = n + 1 /\ r = [p EXCEPT ![e] = n + 1] OBVIOUS
  <2>3. a = s2' /\ b = s5' /\ s = s10' /\ k = s7' BY <1>2, <2>2
  <2>4. s11' = [pushes |-> m, place |-> r, writer |-> w]
    BY <1>4, <2>2 DEF Log!Placed
  <2>5. Placed(a, b, s, x, y, h \cup {e}) BY <1>4, <2>1, <2>2, <1>20 DEF PlacesKept
  <2>6. Ordered(a, b, s, x, y, m, r, w) BY <1>4, <2>1, <2>2, <1>19 DEF OrderKept
  <2>7. PICK g : g = h \cup {e} OBVIOUS
  <2>8. Placed(a, b, s, k["caller"], k["stop"], g) /\ Ordered(a, b, s, k["caller"], k["stop"], m, r, w)
    BY ONLY <1>5, <2>5, <2>6, <2>7
  <2> QED BY ONLY <2>3, <2>4, <2>8, LogOrderAfter
<1>9. CASE Log!TakeBatch
  <2> USE <1>9 DEF Log!TakeBatch
  <2>1. PICK m \in 0..Len(q) : m = IF Len(s2) < LogBatch THEN Len(s2) ELSE LogBatch
    BY <1>2, <1>5
  <2>2. PICK a, c : a = SubSeq(q, m + 1, Len(q)) /\ c = SubSeq(q, 1, m) OBVIOUS
  <2>3. a = s2' /\ c = s5' /\ s = s10' /\ k = s7' BY <1>2, <2>1, <2>2
  <2>4. b = <<>> /\ s11' = [pushes |-> n, place |-> p, writer |-> w] BY <1>4, <1>5
  <2>5. Placed(a, c, s, x, y, h) BY <1>4, <2>2, <2>4, <1>20 DEF PlacesKept
  <2>6. Ordered(a, c, s, x, y, n, p, w) BY <1>4, <2>2, <2>4, <1>19 DEF OrderKept
  <2> QED BY <1>5, <2>3, <2>4, <2>5, <2>6, LogOrderAfter
<1>10. CASE Log!WriteBatch
  <2> USE <1>10 DEF Log!WriteBatch
  <2>1. PICK e, t, a, v : e = Head(b) /\ t = Tail(b) /\ a = Append(s, e)
                          /\ v = [w EXCEPT ![e] = "worker"]
    OBVIOUS
  <2>2. q = s2' /\ t = s5' /\ a = s10' /\ k = s7' /\ b # <<>> BY <1>2, <2>1
  <2>3. s11' = [pushes |-> n, place |-> p, writer |-> v]
    BY <1>2, <1>4, <2>1 DEF Log!WrittenBy
  <2>4. Placed(q, t, a, x, y, h) BY <1>4, <2>1, <2>2, <1>20 DEF PlacesKept
  <2>5. Ordered(q, t, a, x, y, n, p, v) BY <1>4, <2>1, <2>2, <1>19 DEF OrderKept
  <2> QED BY <1>5, <2>2, <2>3, <2>4, <2>5, LogOrderAfter
<1>11. ASSUME NEW f \in Log!Flushers, Log!FlushTakes(f) PROVE Log!InvOrder'
  <2> USE <1>11 DEF Log!FlushTakes
  <2>1. PICK e, t, l : e = Head(q) /\ t = Tail(q) /\ l = [k EXCEPT ![f] = e] OBVIOUS
  <2>2. /\ t = s2' /\ b = s5' /\ s = s10' /\ l = s7' /\ q # <<>> /\ k[f] = "none"
        /\ s11' = [pushes |-> n, place |-> p, writer |-> w]
    BY <1>2, <1>4, <1>5, <2>1
  <2>3. CASE f = "caller"
    <3>1. l["caller"] = e /\ l["stop"] = y /\ x = "none" BY <1>5, <2>1, <2>2, <2>3
    <3>2. Placed(t, b, s, e, y, h)
      <4>1. Placed(Tail(q), b, s, Head(q), y, h) BY ONLY <1>20, <2>2, <3>1 DEF PlacesKept
      <4> QED BY ONLY <2>1, <4>1
    <3>3. Ordered(t, b, s, e, y, n, p, w) BY <1>4, <2>1, <2>2, <3>1, <1>19 DEF OrderKept
    <3> QED BY <2>2, <3>1, <3>2, <3>3, LogOrderAfter
  <2>4. CASE f = "stop"
    <3>1. l["caller"] = x /\ l["stop"] = e /\ y = "none" BY <1>5, <2>1, <2>2, <2>4
    <3>2. Placed(t, b, s, x, e, h)
      <4>1. Placed(Tail(q), b, s, x, Head(q), h) BY ONLY <1>20, <2>2, <3>1 DEF PlacesKept
      <4> QED BY ONLY <2>1, <4>1
    <3>3. Ordered(t, b, s, x, e, n, p, w) BY <1>4, <2>1, <2>2, <3>1, <1>19 DEF OrderKept
    <3> QED BY <2>2, <3>1, <3>2, <3>3, LogOrderAfter
  <2> QED BY <1>5, <2>3, <2>4
<1>12. ASSUME NEW f \in Log!Flushers, Log!FlushWrites(f) PROVE Log!InvOrder'
  <2> USE <1>12 DEF Log!FlushWrites
  <2>1. PICK a, v, l : a = Append(s, k[f]) /\ v = [w EXCEPT ![k[f]] = f]
                       /\ l = [k EXCEPT ![f] = "none"]
    OBVIOUS
  <2>2. q = s2' /\ b = s5' /\ a = s10' /\ l = s7' /\ k[f] # "none" BY <1>2, <1>5, <2>1
  <2>3. s11' = [pushes |-> n, place |-> p, writer |-> v]
    BY <1>2, <1>4, <2>1 DEF Log!WrittenBy
  <2>4. CASE f = "caller"
    <3>1. l["caller"] = "none" /\ l["stop"] = y /\ x = k[f] /\ x # "none" BY <1>5, <2>1, <2>2, <2>4
    <3>2. Placed(q, b, a, "none", y, h) BY <1>4, <2>1, <3>1, <1>20 DEF PlacesKept
    <3>3. Ordered(q, b, a, "none", y, n, p, v) BY <1>4, <2>1, <2>4, <3>1, <1>19 DEF OrderKept
    <3> QED BY <2>2, <2>3, <3>1, <3>2, <3>3, LogOrderAfter
  <2>5. CASE f = "stop"
    <3>1. l["caller"] = x /\ l["stop"] = "none" /\ y = k[f] /\ y # "none" BY <1>5, <2>1, <2>2, <2>5
    <3>2. Placed(q, b, a, x, "none", h) BY <1>4, <2>1, <3>1, <1>20 DEF PlacesKept
    <3>3. Ordered(q, b, a, x, "none", n, p, v) BY <1>4, <2>1, <2>5, <3>1, <1>19 DEF OrderKept
    <3> QED BY <2>2, <2>3, <3>1, <3>2, <3>3, LogOrderAfter
  <2> QED BY <1>5, <2>4, <2>5
\* What moves no entry.
<1>13. ASSUME NEW e \in LogEntries, Log!LogFull(e) \/ Log!LogNotify(e) PROVE Log!InvOrder'
  BY <1>6, <1>13 DEF Log!LogFull, Log!LogNotify
<1>14. ASSUME NEW f \in Log!Flushers, Log!FlushReturns(f) PROVE Log!InvOrder'
  BY <1>6, <1>14 DEF Log!FlushReturns
<1>15. CASE \/ Log!LoopTest \/ Log!WaitTest \/ Log!WaitSleeps \/ Log!BatchWritten
            \/ Log!SpuriousWakeup \/ Log!FlushBegins \/ Log!Start \/ Log!StopBegins
            \/ Log!StopNotifies \/ Log!StopJoins \/ Log!NotifyFull
  BY <1>6, <1>15 DEF Log!LoopTest, Log!WaitTest, Log!WaitSleeps, Log!BatchWritten,
     Log!SpuriousWakeup, Log!FlushBegins, Log!Start, Log!StopBegins, Log!StopNotifies,
     Log!StopJoins, Log!NotifyFull
<1>16. CASE \E e \in LogEntries : Log!Log(e) BY <1>7, <1>8, <1>13, <1>16 DEF Log!Log
<1>17. CASE \E f \in Log!Flushers : Log!Flush(f) BY <1>11, <1>12, <1>14, <1>17 DEF Log!Flush
<1>18. CASE Log!Work BY <1>9, <1>10, <1>15, <1>18 DEF Log!Work
<1> QED BY <1>15, <1>16, <1>17, <1>18 DEF Log!Next, Log!StopContinues

LEMMA LogStep ==
  ASSUME Log!Inv, Log!Next
  PROVE  Log!Inv'
BY LogPlacesStep, LogOrderStep DEF Log!Inv

-----------------------------------------------------------------------------
(* ConnectionIdGenerator. *)

LEMMA FieldApart ==
  ASSUME NEW a \in Nat, NEW c \in Nat \ {0}, NEW r \in 0..c - 1
  PROVE  /\ a * c + r \in Nat
         /\ (a * c + r) % c = r /\ (a * c + r) \div c = a
<1>1. a * c \in Nat OBVIOUS
<1>2. PICK n \in Nat : n = a * c + r BY <1>1
<1>3. PICK q \in Nat, t \in 0..c - 1 : n = c * q + t /\ t = n % c /\ q = n \div c
  <2>1. n \div c \in Nat /\ n % c \in 0..c - 1 /\ n = c * (n \div c) + (n % c) OBVIOUS
  <2> QED BY <2>1
<1>4. c * a + r = c * q + t
  <2>1. a * c = c * a OBVIOUS
  <2> QED BY <1>2, <1>3, <2>1
<1>5. a = q /\ r = t BY <1>4, DivModUnique
<1> QED BY <1>2, <1>3, <1>5

LEMMA AboveApart ==
  ASSUME NEW a \in Nat, NEW c \in Nat \ {0}, NEW low \in Nat
  PROVE  /\ Above(a, c, low) \in Nat
         /\ Above(a, c, low) % c = low % c /\ Above(a, c, low) \div c = a
<1>1. PICK r \in 0..c - 1 : r = low % c BY DivMod
<1>2. Above(a, c, low) = a * c + r BY <1>1 DEF Above
<1> QED BY <1>1, <1>2, FieldApart

LEMMA SmallModulo ==
  ASSUME NEW c \in Nat \ {0}, NEW r \in 0..c - 1
  PROVE  r % c = r
<1>1. PICK q \in Nat, t \in 0..c - 1 : r = c * q + t /\ t = r % c
  <2>1. r \in Nat OBVIOUS
  <2> QED BY <2>1, DivMod
<1>2. c * 0 + r = c * q + t BY <1>1
<1>3. r = t BY <1>2, DivModUnique
<1> QED BY <1>1, <1>3

\* YYMMDD fits in the 24 bits of the date.
LEMMA DateFits ==
  ASSUME NEW tm \in LocalDates
  PROVE  GetCurrentDate(tm) \in 0..DateSize - 1
<1>1. tm[1] \in Nat /\ tm[2] \in 0..11 /\ tm[3] \in 1..31 BY FieldAssumption
<1>2. PICK y \in Nat, m \in Nat, d \in Nat : y = tm[1] % 100 /\ m = tm[2] /\ d = tm[3]
  BY <1>1
<1>3. y <= 99 /\ m <= 11 /\ d <= 31
  <2>1. PICK c \in Nat \ {0}, a \in Nat : c = 100 /\ a = tm[1] BY <1>1
  <2>2. a % c \in 0..c - 1 BY ModuloRange
  <2>3. y = a % c BY <1>2, <2>1
  <2>4. y \in 0..c - 1 BY <2>2, <2>3
  <2> QED BY <1>1, <1>2, <2>1, <2>4
<1>4. GetCurrentDate(tm) = y * 10000 + (m + 1) * 100 + d BY <1>2 DEF GetCurrentDate
<1>5. y * 10000 \in Nat /\ y * 10000 <= 990000 BY <1>3
<1>6. (m + 1) * 100 \in Nat /\ (m + 1) * 100 <= 1200 BY <1>3
<1>7. GetCurrentDate(tm) \in Nat /\ GetCurrentDate(tm) <= 990000 + 1200 + 31
  BY <1>3, <1>4, <1>5, <1>6
<1>8. DateSize - 1 = 16777215 BY DEF DateSize
<1> QED BY <1>7, <1>8

LEMMA ParseGenerate ==
  ASSUME NEW tm \in LocalDates, NEW r \in ReactorIds, NEW f \in FileDescriptors,
         NEW s \in 0..SeqSize - 1
  PROVE  Parse(Generate(tm, r, f, s))
           = <<GetCurrentDate(tm), r % ReactorSize, f % FdSize, s>>
<1>1. /\ r \in Nat /\ f \in Nat /\ s \in Nat /\ ReactorSize \in Nat \ {0} /\ FdSize \in Nat \ {0}
      /\ SeqSize \in Nat \ {0} /\ DateSize \in Nat \ {0}
  BY FieldAssumption DEF DateSize
<1>2. PICK d \in 0..DateSize - 1 : d = GetCurrentDate(tm) BY DateFits
<1>3. d % DateSize = d /\ s % SeqSize = s BY <1>1, SmallModulo
<1>4. PICK a : a = Above(d, ReactorSize, r) OBVIOUS
<1>5. a \in Nat /\ a % ReactorSize = r % ReactorSize /\ a \div ReactorSize = d
  <2>1. d \in Nat BY <1>1
  <2> QED BY <1>1, <1>4, <2>1, AboveApart
<1>6. PICK b : b = Above(a, FdSize, f) OBVIOUS
<1>7. b \in Nat /\ b % FdSize = f % FdSize /\ b \div FdSize = a BY <1>1, <1>5, <1>6, AboveApart
<1>8. PICK c : c = Above(b, SeqSize, s) OBVIOUS
<1>9. c \in Nat /\ c % SeqSize = s /\ c \div SeqSize = b
  BY <1>1, <1>3, <1>7, <1>8, AboveApart
<1>10. Generate(tm, r, f, s) = c BY <1>2, <1>3, <1>4, <1>6, <1>8 DEF Generate, Pack
<1>11. GetSeq(c) = s /\ GetFd(c) = f % FdSize BY <1>7, <1>9 DEF GetSeq, GetFd
<1>12. GetReactorId(c) = r % ReactorSize /\ GetDate(c) = d
  BY <1>3, <1>5, <1>7, <1>9 DEF GetReactorId, GetDate
<1> QED BY <1>2, <1>10, <1>11, <1>12 DEF Parse

(***************************************************************************)
(* For every width of the fields: parsing an id gives back the date, the   *)
(* reactor, the descriptor and the number it was made of, each cut to its  *)
(* field (ConnectionIdGenerator::Generate and Parse).                      *)
(***************************************************************************)
THEOREM IdsAreInverted == Spec => []ParseInvertsGenerate
<1>1. ASSUME Init PROVE ParseInvertsGenerate
  BY <1>1, ParseGenerate DEF Init, ParseInvertsGenerate
<1>2. ASSUME ParseInvertsGenerate, [Next]_vars PROVE ParseInvertsGenerate'
  <2>1. CASE Next
    <3>1. PICK tm \in LocalDates, r \in ReactorIds, f \in FileDescriptors, s \in 0..(SeqSize - 1) :
            GenerateNext(tm, r, f, s)
      BY <2>1 DEF Next
    <3>2. /\ day' = tm /\ reactorId' = r /\ fd' = f /\ seq' = s
          /\ connId' = Generate(tm, r, f, s)
      BY <3>1 DEF GenerateNext
    <3>3. Parse(connId') = <<GetCurrentDate(tm), r % ReactorSize, f % FdSize, s>>
      BY <3>2, ParseGenerate
    <3>4. Parse(connId)' = Parse(connId') /\ GetCurrentDate(day)' = GetCurrentDate(day')
      BY DEF Parse, GetSeq, GetFd, GetReactorId, GetDate, GetCurrentDate
    <3> QED BY <3>2, <3>3, <3>4 DEF ParseInvertsGenerate
  <2>2. CASE UNCHANGED vars
    BY <1>2, <2>2 DEF vars, ParseInvertsGenerate, Parse, GetSeq, GetFd, GetReactorId, GetDate,
       GetCurrentDate
  <2> QED BY <1>2, <2>1, <2>2
<1> QED BY <1>1, <1>2, PTL DEF Spec

-----------------------------------------------------------------------------
(* Containers and pools. *)

\* A step of k cells goes round like one of the position does.
LEMMA ModuloAdd ==
  ASSUME NEW c \in Nat \ {0}, NEW a \in Nat, NEW k \in Nat
  PROVE  ((a % c) + k) % c = (a + k) % c
<1>1. PICK q \in Nat, r \in 0..c - 1 : a = c * q + r /\ r = a % c BY DivMod
<1>2. PICK p \in Nat, t \in 0..c - 1 : r + k = c * p + t /\ t = (r + k) % c
  <2>1. r + k \in Nat OBVIOUS
  <2> QED BY <2>1, DivMod
<1>3. PICK m \in Nat, u \in 0..c - 1 : a + k = c * m + u /\ u = (a + k) % c
  <2>1. a + k \in Nat OBVIOUS
  <2> QED BY <2>1, DivMod
<1>4. c * (q + p) + t = c * m + u
  <2>1. c * (q + p) = c * q + c * p OBVIOUS
  <2> QED BY <1>1, <1>2, <1>3, <2>1
<1>5. t = u BY <1>4, DivModUnique
<1> QED BY <1>1, <1>2, <1>3, <1>5

LEMMA BufferStart == Ring!Init => Ring!Inv
<1> SUFFICES ASSUME Ring!Init PROVE Ring!Inv OBVIOUS
<1>1. PICK c \in Nat \ {0} : c = BufferCapacity BY ContainersAssumption
<1>2. 0 \in 0..c - 1 OBVIOUS
<1>3. 0 % c = 0 BY <1>2, SmallModulo
<1>4. (0 + 0) % BufferCapacity = 0 BY <1>1, <1>3
<1>5. s1 \in [0..(BufferCapacity - 1) -> BufferValues] BY DEF Ring!Init
<1>6. s5 \in Seq(BufferValues) /\ Len(s5) = 0 BY DEF Ring!Init
<1> QED BY <1>1, <1>2, <1>4, <1>5, <1>6 DEF Ring!Init, Ring!Inv

LEMMA BufferShows == Ring!Inv => Ring!ShowsKept
<1> SUFFICES ASSUME Ring!Inv PROVE Ring!ShowsKept OBVIOUS
<1>0. PICK c \in Nat \ {0} : c = BufferCapacity BY ContainersAssumption
<1>1. PICK h \in 0..c - 1, n \in 0..c : c = BufferCapacity /\ h = s2 /\ n = s4
  BY <1>0 DEF Ring!Inv
<1>2. /\ s3 = (h + n) % c /\ s5 \in Seq(BufferValues) /\ Len(s5) = n
      /\ \A i \in 1..n : s5[i] = s1[(h + i - 1) % c]
  BY <1>1 DEF Ring!Inv
<1>3. Ring!Iterated = s5
  <2>1. PICK q : q = Ring!Iterated OBVIOUS
  <2>2. q = [i \in 1..n |-> s1[(h + i - 1) % c]] BY <1>1, <2>1 DEF Ring!Iterated
  <2>3. s5 = [i \in 1..n |-> s5[i]] BY <1>2
  <2> QED BY <1>2, <2>1, <2>2, <2>3
<1>4. ASSUME NEW i \in 0..n - 1 PROVE Ring!At(i) = s5[i + 1]
  <2>1. i + 1 \in 1..n /\ h + (i + 1) - 1 = h + i OBVIOUS
  <2>2. s5[i + 1] = s1[(h + (i + 1) - 1) % c] BY <1>2, <2>1
  <2> QED BY <1>1, <2>1, <2>2 DEF Ring!At
<1>5. ASSUME n > 0 PROVE Ring!Front = Head(s5) /\ Ring!Back = s5[Len(s5)]
  <2>1. 1 \in 1..n /\ h + 1 - 1 = h /\ n \in 1..n BY <1>5
  <2>2. h % c = h BY SmallModulo
  <2>3. Ring!Front = Head(s5)
    <3>1. s5[1] = s1[(h + 1 - 1) % c] BY <1>2, <2>1
    <3>2. s5[1] = s1[h] BY <2>1, <2>2, <3>1
    <3> QED BY <1>1, <1>2, <1>5, <3>2 DEF Ring!Front
  <2>4. (((h + n) % c) + (c - 1)) % c = (h + n + (c - 1)) % c
    <3>1. h + n \in Nat /\ c - 1 \in Nat OBVIOUS
    <3> QED BY <3>1, ModuloAdd
  <2>5. PICK a \in Nat : a = h + n - 1 BY <1>5
  <2>6. h + n + (c - 1) = a + c BY <2>5
  <2>a. s3 \in Nat
    <3>1. PICK b \in Nat : b = h + n OBVIOUS
    <3>2. b % c \in 0..c - 1 BY ModuloRange
    <3> QED BY <1>2, <3>1, <3>2
  <2>7. PICK t \in Nat : t = s3 BY <2>a
  <2>8. (t + c - 1) % c = a % c
    <3>1. t + c - 1 = t + (c - 1) OBVIOUS
    <3> QED BY <1>2, <2>4, <2>6, <2>7, <3>1, ModuloAround
  <2>9. s5[n] = s1[a % c] BY <1>2, <2>1, <2>5
  <2> QED BY <1>1, <1>2, <2>3, <2>7, <2>8, <2>9 DEF Ring!Back
<1> QED BY <1>1, <1>3, <1>4, <1>5 DEF Ring!ShowsKept

LEMMA BufferPush ==
  ASSUME Ring!Inv, NEW v \in BufferValues, Ring!Push(v)
  PROVE  Ring!Inv'
<1>0. PICK c \in Nat \ {0} : c = BufferCapacity BY ContainersAssumption
<1>1. PICK h \in 0..c - 1, n \in 0..c : c = BufferCapacity /\ h = s2 /\ n = s4
  BY <1>0 DEF Ring!Inv
<1>2. PICK t \in 0..c - 1 : t = s3 /\ t = (h + n) % c
  <2>1. h + n \in Nat OBVIOUS
  <2> QED BY <1>1, <2>1, ModuloRange DEF Ring!Inv
<1>3. /\ s1 \in [0..c - 1 -> BufferValues]
      /\ s5 \in Seq(BufferValues) /\ Len(s5) = n
      /\ \A i \in 1..n : s5[i] = s1[(h + i - 1) % c]
  BY <1>1 DEF Ring!Inv
<1>4. s1' = [s1 EXCEPT ![t] = v] /\ s3' = (t + 1) % c
  BY <1>1, <1>2 DEF Ring!Push, Ring!After
<1>5. s1' \in [0..c - 1 -> BufferValues] /\ s1'[t] = v BY <1>3, <1>4
<1>6. s3' = (h + n + 1) % c
  <2>1. h + n \in Nat OBVIOUS
  <2> QED BY <1>2, <1>4, <2>1, ModuloNext
<1>7. CASE n = c
  <2>1. t = h
    <3>1. h \in Nat OBVIOUS
    <3>2. (h + c) % c = h % c /\ h % c = h BY <3>1, ModuloAround, SmallModulo
    <3> QED BY <1>2, <1>7, <3>2
  <2>2. PICK g \in 0..c - 1 : g = (h + 1) % c
    <3>1. h + 1 \in Nat OBVIOUS
    <3> QED BY <3>1, ModuloRange
  <2>3. s2' = g /\ s4' = c /\ s5' = Append(Tail(s5), v)
    BY <1>1, <1>7, <2>2 DEF Ring!Push, Ring!Full, Ring!After
  <2>4. s3' = (g + c) % c
    <3>1. h + 1 \in Nat /\ h + n + 1 = (h + 1) + c /\ g \in Nat BY <1>7
    <3>2. (h + n + 1) % c = g BY <2>2, <3>1, ModuloAround
    <3>3. (g + c) % c = g % c /\ g % c = g BY <3>1, ModuloAround, SmallModulo
    <3> QED BY <1>6, <3>2, <3>3
  <2>5. PICK q : q = Tail(s5) OBVIOUS
  <2>6. /\ q \in Seq(BufferValues) /\ Len(q) = c - 1
        /\ \A i \in 1..c - 1 : q[i] = s5[i + 1]
    BY <1>3, <1>7, <2>5
  <2>7. /\ s5' \in Seq(BufferValues) /\ Len(s5') = c /\ s5'[c] = v
        /\ \A i \in 1..c - 1 : s5'[i] = q[i]
    BY <2>3, <2>5, <2>6
  <2>8. ASSUME NEW i \in 1..c PROVE s5'[i] = s1'[(g + i - 1) % c]
    <3>1. (g + i - 1) % c = (h + i) % c
      <4>1. h + 1 \in Nat /\ i - 1 \in Nat /\ g + i - 1 = g + (i - 1) /\ h + 1 + (i - 1) = h + i
        OBVIOUS
      <4> QED BY <2>2, <4>1, ModuloAdd
    <3>2. CASE i = c
      <4>1. h \in Nat OBVIOUS
      <4>2. (h + c) % c = h % c /\ h % c = h BY <4>1, ModuloAround, SmallModulo
      <4> QED BY <1>5, <2>1, <2>7, <3>1, <3>2, <4>2
    <3>3. CASE i # c
      <4>1. i \in 1..c - 1 /\ i + 1 \in 1..n /\ h + (i + 1) - 1 = h + i BY <1>7, <3>3
      <4>2. s5'[i] = s1[(h + i) % c] BY <1>3, <2>6, <2>7, <4>1
      <4>3. h < h + i /\ h + i < h + c /\ h + i \in Nat /\ h \in Nat BY <4>1
      <4>4. (h + i) % c # t /\ (h + i) % c \in 0..c - 1
        BY <2>1, <4>3, ModuloApart, SmallModulo, ModuloRange
      <4> QED BY <1>3, <1>4, <3>1, <4>2, <4>4
    <3> QED BY <3>2, <3>3
  <2> QED BY <1>1, <1>5, <2>3, <2>4, <2>7, <2>8 DEF Ring!Inv
<1>8. CASE n # c
  <2>1. s2' = h /\ s4' = n + 1 /\ s5' = Append(s5, v) /\ n + 1 \in 0..c
    BY <1>1, <1>8 DEF Ring!Push, Ring!Full
  <2>2. /\ s5' \in Seq(BufferValues) /\ Len(s5') = n + 1 /\ s5'[n + 1] = v
        /\ \A i \in 1..n : s5'[i] = s5[i]
    BY <1>3, <2>1
  <2>3. ASSUME NEW i \in 1..n + 1 PROVE s5'[i] = s1'[(h + i - 1) % c]
    <3>1. CASE i = n + 1
      <4>1. h + i - 1 = h + n BY <3>1
      <4> QED BY <1>2, <1>5, <2>2, <3>1, <4>1
    <3>2. CASE i # n + 1
      <4>1. i \in 1..n BY <3>2
      <4>2. PICK a \in Nat : a = h + i - 1 OBVIOUS
      <4>3. a < h + n /\ h + n < a + c /\ h + n \in Nat BY <1>8, <4>1, <4>2
      <4>4. a % c # t /\ a % c \in 0..c - 1 BY <1>2, <4>3, ModuloApart, ModuloRange
      <4> QED BY <1>3, <1>4, <2>2, <4>1, <4>2, <4>4
    <3> QED BY <3>1, <3>2
  <2>4. h + n + 1 = h + (n + 1) OBVIOUS
  <2> QED BY <1>1, <1>5, <1>6, <2>1, <2>2, <2>3, <2>4 DEF Ring!Inv
<1> QED BY <1>7, <1>8

LEMMA BufferPop ==
  ASSUME Ring!Inv, Ring!Pop
  PROVE  Ring!Inv'
<1>0. PICK c \in Nat \ {0} : c = BufferCapacity BY ContainersAssumption
<1>1. PICK h \in 0..c - 1, n \in 1..c : c = BufferCapacity /\ h = s2 /\ n = s4
  BY <1>0 DEF Ring!Inv, Ring!Pop
<1>2. PICK g \in 0..c - 1 : g = (h + 1) % c
  <2>1. h + 1 \in Nat OBVIOUS
  <2> QED BY <2>1, ModuloRange
<1>3. /\ s1 \in [0..c - 1 -> BufferValues] /\ s3 = (h + n) % c
      /\ s5 \in Seq(BufferValues) /\ Len(s5) = n
      /\ \A i \in 1..n : s5[i] = s1[(h + i - 1) % c]
  BY <1>1 DEF Ring!Inv
<1>4. s2' = g /\ s4' = n - 1 /\ s5' = Tail(s5) /\ s1' = s1 /\ s3' = s3
  BY <1>1, <1>2 DEF Ring!Pop, Ring!After
<1>5. ASSUME NEW k \in Nat PROVE (g + k) % c = (h + (k + 1)) % c
  <2>1. PICK a \in Nat : a = h + 1 OBVIOUS
  <2>2. a + k = h + (k + 1) BY <2>1
  <2>3. ((a % c) + k) % c = (a + k) % c BY ModuloAdd
  <2> QED BY <1>2, <2>1, <2>2, <2>3
<1>6. s3' = (g + (n - 1)) % c
  <2>1. n - 1 \in Nat /\ (n - 1) + 1 = n OBVIOUS
  <2> QED BY <1>3, <1>4, <1>5, <2>1
<1>7. /\ s5' \in Seq(BufferValues) /\ Len(s5') = n - 1
      /\ \A i \in 1..n - 1 : s5'[i] = s5[i + 1]
  BY <1>3, <1>4
<1>8. ASSUME NEW i \in 1..n - 1 PROVE s5'[i] = s1'[(g + i - 1) % c]
  <2>1. i - 1 \in Nat /\ g + i - 1 = g + (i - 1) /\ h + ((i - 1) + 1) = h + (i + 1) - 1
        /\ i + 1 \in 1..n
    OBVIOUS
  <2>2. (g + i - 1) % c = (h + (i + 1) - 1) % c BY <1>5, <2>1
  <2> QED BY <1>3, <1>4, <1>7, <2>1, <2>2
<1> QED BY <1>1, <1>3, <1>4, <1>6, <1>7, <1>8 DEF Ring!Inv

LEMMA BufferStep ==
  ASSUME Ring!Inv, Ring!Next
  PROVE  Ring!Inv'
<1>1. CASE Ring!Clear
  <2>1. PICK c \in Nat \ {0} : c = BufferCapacity BY ContainersAssumption
  <2>2. 0 \in 0..c - 1 /\ 0 + 0 = 0 OBVIOUS
  <2>3. 0 % c = 0 BY <2>2, SmallModulo
  <2>4. (0 + 0) % BufferCapacity = 0 BY <2>1, <2>2, <2>3
  <2>5. s5' \in Seq(BufferValues) /\ Len(s5') = 0 BY <1>1 DEF Ring!Clear
  <2> QED BY <1>1, <2>1, <2>2, <2>4, <2>5 DEF Ring!Clear, Ring!Inv
<1> QED BY <1>1, BufferPop, BufferPush DEF Ring!Next

LEMMA BufferStutters == Ring!Inv /\ UNCHANGED slots => Ring!Inv'
BY DEF Ring!Inv, slots

-----------------------------------------------------------------------------
(* BloomFilter.  s1 h1, s2 h2, s3 bits, s5 added. *)

LEMMA FilterStart == Bloom!Init => Bloom!Inv
BY DEF Bloom!Init, Bloom!Inv, Bloom!NoFalseNegative

LEMMA FilterStep ==
  ASSUME Bloom!Inv, Bloom!Next
  PROVE  Bloom!Inv'
<1>1. s1' = s1 /\ s2' = s2 BY DEF Bloom!Next, Bloom!Add, Bloom!Clear, Bloom!Merge
<1>2. \A x : Bloom!Indices(x)' = Bloom!Indices(x) BY <1>1 DEF Bloom!Indices, Bloom!Index
<1> USE DEF Bloom!Inv, Bloom!NoFalseNegative, Bloom!MightContain
<1>3. ASSUME NEW f \in Filters, Bloom!Clear(f) PROVE Bloom!Inv'
  BY <1>2, <1>3 DEF Bloom!Clear
<1>4. ASSUME NEW f \in Filters, NEW x \in FilterElements, Bloom!Add(f, x) PROVE Bloom!Inv'
  BY <1>2, <1>4 DEF Bloom!Add
<1>5. ASSUME NEW f \in Filters, NEW g \in Filters, Bloom!Merge(f, g) PROVE Bloom!Inv'
  BY <1>2, <1>5 DEF Bloom!Merge, Bloom!MergedBits
<1> QED BY <1>3, <1>4, <1>5 DEF Bloom!Next

LEMMA FilterStutters == Bloom!Inv /\ UNCHANGED slots => Bloom!Inv'
BY DEF Bloom!Inv, Bloom!NoFalseNegative, Bloom!MightContain, Bloom!Indices, Bloom!Index, slots

-----------------------------------------------------------------------------
(* StringPool.  s1 pool, s2 view, s3 generation. *)

LEMMA TextStart == Interned!Init => Interned!Inv
BY DEF Interned!Init, Interned!Inv, Interned!NoView, Interned!Valid

LEMMA TextSame == Interned!Inv => Interned!AddressIsIdentity
BY DEF Interned!Inv, Interned!AddressIsIdentity

LEMMA TextInserted ==
  ASSUME Interned!Inv, NEW s \in Texts, Interned!Inserted(s)
  PROVE  /\ DOMAIN s1' = DOMAIN s1 \cup {s}
         /\ \A t \in DOMAIN s1 : s1'[t] = s1[t]
         /\ \A t, u \in DOMAIN s1' : s1'[t] = s1'[u] => t = u
<1> USE DEF Interned!Inv
<1>1. CASE s \in DOMAIN s1 BY <1>1 DEF Interned!Inserted
<1>2. CASE s \notin DOMAIN s1
  <2>1. PICK a \in Interned!Free :
          s1' = [t \in DOMAIN s1 \cup {s} |-> IF t = s THEN a ELSE s1[t]]
    BY <1>2 DEF Interned!Inserted
  <2>2. \A t \in DOMAIN s1 : s1[t] # a BY DEF Interned!Free
  <2> QED BY <1>2, <2>1, <2>2
<1> QED BY <1>1, <1>2

LEMMA TextStep ==
  ASSUME Interned!Inv, Interned!Next
  PROVE  Interned!Inv'
<1> USE DEF Interned!Inv, Interned!Valid
<1>1. CASE Interned!Clear BY <1>1 DEF Interned!Clear
<1>2. ASSUME NEW h \in TextHolders, NEW s \in Texts, Interned!Intern(h, s) PROVE Interned!Inv'
  <2>1. /\ DOMAIN s1' = DOMAIN s1 \cup {s}
        /\ \A t \in DOMAIN s1 : s1'[t] = s1[t]
        /\ \A t, u \in DOMAIN s1' : s1'[t] = s1'[u] => t = u
    BY <1>2, TextInserted DEF Interned!Intern
  <2>2. /\ s2' = [s2 EXCEPT ![h] = [string |-> s, address |-> s1'[s], since |-> s3]]
        /\ s3' = s3
    BY <1>2 DEF Interned!Intern
  <2>3. DOMAIN s2' = TextHolders BY <2>2
  <2>4. ASSUME NEW k \in TextHolders
        PROVE  /\ s2'[k].since \in 0..s3
               /\ s2'[k].since = s3 => /\ s2'[k].string \in DOMAIN s1'
                                       /\ s1'[s2'[k].string] = s2'[k].address
    <3>1. CASE k = h
      <4>1. s2'[k] = [string |-> s, address |-> s1'[s], since |-> s3] BY <2>2, <3>1
      <4> QED BY <2>1, <4>1
    <3>2. CASE k # h
      <4>1. s2'[k] = s2[k] BY <2>2, <3>2
      <4> QED BY <2>1, <4>1
    <3> QED BY <3>1, <3>2
  <2> QED BY <2>1, <2>2, <2>3, <2>4
<1> QED BY <1>1, <1>2 DEF Interned!Next

LEMMA TextStutters == Interned!Inv /\ UNCHANGED slots => Interned!Inv'
BY DEF Interned!Inv, Interned!Valid, slots

-----------------------------------------------------------------------------
(* MemoryPool.  s1 free_lists, s2 made, s3 live. *)

LEMMA BlockSets ==
  /\ \A S : Memory!Cardinality(S) = Cardinality(S)
  /\ \A S : Memory!IsFiniteSet(S) <=> IsFiniteSet(S)
BY DEF Memory!Cardinality, Cardinality, Memory!IsFiniteSet, IsFiniteSet

\* The class a size belongs to is one of the classes, and its blocks are large enough.
LEMMA BlockIndex ==
  ASSUME NEW n \in 1..BlockMax
  PROVE  /\ Memory!Index(n) \in Memory!Classes
         /\ (Memory!Index(n) + 1) * BlockAlign >= n
<1>1. PICK a \in Nat \ {0}, x \in Nat : a = BlockAlign /\ x = BlockMax BY ContainersAssumption
<1>2. n \in 1..x BY <1>1
<1>3. PICK m \in Nat : x = a * m /\ m = x \div a
  <2>1. x \div a \in Nat /\ x = a * (x \div a) + (x % a) OBVIOUS
  <2>2. x % a = 0 BY <1>1, ContainersAssumption
  <2> QED BY <2>1, <2>2
<1>4. PICK k \in Nat : k = n + a - 1 BY <1>2
<1>5. PICK q \in Nat, r \in 0..a - 1 : k = a * q + r /\ q = k \div a
  <2>1. k \div a \in Nat /\ k % a \in 0..a - 1 /\ k = a * (k \div a) + (k % a) OBVIOUS
  <2> QED BY <2>1
<1>6. a * q \in Nat /\ a * q >= n BY <1>2, <1>4, <1>5
<1>7. q # 0 BY <1>2, <1>6
<1>8. q <= m
  <2> SUFFICES ASSUME q - m >= 1 PROVE FALSE OBVIOUS
  <2>1. a * (q - m) >= a BY Multiple
  <2>2. a * (q - m) = a * q - a * m OBVIOUS
  <2>3. a * m \in Nat OBVIOUS
  <2>4. a * q <= x + a - 1 BY <1>2, <1>4, <1>5
  <2> QED BY <1>3, <1>6, <2>1, <2>2, <2>3, <2>4
<1>9. Memory!Index(n) = q - 1 BY <1>1, <1>4, <1>5 DEF Memory!Index
<1>10. Memory!Classes = 0..m - 1 BY <1>1, <1>3 DEF Memory!Classes
<1>11. (q - 1 + 1) * a >= n
  <2>1. q - 1 + 1 = q /\ q * a = a * q OBVIOUS
  <2> QED BY <1>6, <2>1
<1> QED BY <1>1, <1>7, <1>8, <1>9, <1>10, <1>11

Used(live, c) == {b \in live : b.block[1] = c}
Blocks(live) == {b.block : b \in live}

\* Inv, of the values of the variables: of one class, and of the blocks in use.
ClassHolds(c, list, m, live) ==
  /\ m \in Nat /\ list \in Seq({c} \X (1..m)) /\ Distinct(list)
  /\ Elements(list) \cap Blocks(live) = {}
  /\ Len(list) + Cardinality(Used(live, c)) = m
  /\ \A b \in Used(live, c) : b.block[2] \in 1..m

LiveHolds(live) ==
  /\ live \subseteq [block : Memory!Classes \X Nat, size : 1..BlockMax] /\ IsFiniteSet(live)
  /\ \A b \in live : b.block[1] = Memory!Index(b.size)
  /\ \A b, d \in live : b.block = d.block => b = d

BlocksHold(lists, made, live) ==
  /\ DOMAIN lists = Memory!Classes /\ made \in [Memory!Classes -> Nat] /\ LiveHolds(live)
  /\ \A c \in Memory!Classes : ClassHolds(c, lists[c], made[c], live)

LEMMA BlocksBefore == Memory!Inv => BlocksHold(s1, s2, s3)
<1> SUFFICES ASSUME Memory!Inv PROVE BlocksHold(s1, s2, s3) OBVIOUS
<1>1. LiveHolds(s3) BY BlockSets DEF Memory!Inv, Memory!BlocksDisjoint, LiveHolds
<1>2. ASSUME NEW c \in Memory!Classes PROVE ClassHolds(c, s1[c], s2[c], s3)
  <2>1. PICK q, m : q = s1[c] /\ m = s2[c] OBVIOUS
  <2>2. m \in Nat /\ q \in Seq({c} \X (1..m)) BY <2>1 DEF Memory!Inv
  <2>3. DOMAIN q = 1..Len(q) BY <2>2
  <2>4. Distinct(q) BY <2>1, <2>3 DEF Memory!Inv, Memory!BlocksDisjoint, Memory!IsInjective, Distinct
  <2>5. Elements(q) \cap Blocks(s3) = {}
    <3>1. Memory!Range(q) \cap {b.block : b \in s3} = {}
      BY <2>1 DEF Memory!Inv, Memory!BlocksDisjoint
    <3>2. Memory!Range(q) = Elements(q) BY <2>3 DEF Memory!Range, Elements
    <3> QED BY <3>1, <3>2 DEF Blocks
  <2>6. Len(q) + Cardinality(Used(s3, c)) = m
    BY <2>1, BlockSets DEF Memory!Inv, Memory!BlocksDisjoint, Used
  <2>7. \A b \in Used(s3, c) : b.block[2] \in 1..m BY <2>1 DEF Memory!Inv, Used
  <2> QED BY <2>1, <2>2, <2>4, <2>5, <2>6, <2>7 DEF ClassHolds
<1> QED BY <1>1, <1>2 DEF BlocksHold, Memory!Inv

LEMMA BlocksAfter ==
  ASSUME NEW lists, NEW made, NEW live, BlocksHold(lists, made, live)
  PROVE  /\ made \in [Memory!Classes -> Nat]
         /\ \A c \in Memory!Classes : lists[c] \in Seq({c} \X (1..made[c]))
         /\ DOMAIN lists = Memory!Classes
         /\ live \subseteq [block : Memory!Classes \X Nat, size : 1..BlockMax]
         /\ Memory!IsFiniteSet(live)
         /\ \A b \in live : /\ b.block[1] = Memory!Index(b.size)
                            /\ b.block[2] \in 1..made[Memory!Index(b.size)]
         /\ \A c \in Memory!Classes :
              /\ Memory!IsInjective(lists[c])
              /\ Memory!Range(lists[c]) \cap {b.block : b \in live} = {}
              /\ Len(lists[c]) + Memory!Cardinality({b \in live : b.block[1] = c}) = made[c]
              /\ \A i \in DOMAIN lists[c] : lists[c][i][1] = c
         /\ \A b, d \in live : b.block = d.block => b = d
         /\ \A b \in live : (b.block[1] + 1) * BlockAlign >= b.size
<1>1. ASSUME NEW b \in live
      PROVE  /\ b.block[1] = Memory!Index(b.size)
             /\ b.block[2] \in 1..made[Memory!Index(b.size)]
             /\ (b.block[1] + 1) * BlockAlign >= b.size
  <2>1. b.size \in 1..BlockMax /\ b.block[1] = Memory!Index(b.size)
    BY DEF BlocksHold, LiveHolds
  <2>2. PICK c \in Memory!Classes : c = Memory!Index(b.size) BY <2>1, BlockIndex
  <2>3. b \in Used(live, c) BY <2>1, <2>2 DEF Used
  <2> QED BY <2>1, <2>2, <2>3, BlockIndex DEF BlocksHold, ClassHolds
<1>2. ASSUME NEW c \in Memory!Classes
      PROVE  /\ lists[c] \in Seq({c} \X (1..made[c]))
             /\ Memory!IsInjective(lists[c])
             /\ Memory!Range(lists[c]) \cap {b.block : b \in live} = {}
             /\ Len(lists[c]) + Memory!Cardinality({b \in live : b.block[1] = c}) = made[c]
             /\ \A i \in DOMAIN lists[c] : lists[c][i][1] = c
  <2>1. PICK q, m : q = lists[c] /\ m = made[c] OBVIOUS
  <2>2. ClassHolds(c, q, m, live) BY <2>1 DEF BlocksHold
  <2>3. q \in Seq({c} \X (1..m)) BY <2>2 DEF ClassHolds
  <2>4. DOMAIN q = 1..Len(q) BY <2>3
  <2>5. Memory!IsInjective(q) BY <2>2, <2>4 DEF ClassHolds, Distinct, Memory!IsInjective
  <2>6. Memory!Range(q) \cap {b.block : b \in live} = {}
    BY <2>2, <2>4 DEF ClassHolds, Elements, Blocks, Memory!Range
  <2>7. Len(q) + Memory!Cardinality({b \in live : b.block[1] = c}) = m
    BY <2>2, BlockSets DEF ClassHolds, Used
  <2>8. \A i \in DOMAIN q : q[i] \in {c} \X (1..m) BY <2>3, <2>4
  <2> QED BY <2>1, <2>3, <2>5, <2>6, <2>7, <2>8
<1> QED BY <1>1, <1>2, BlockSets DEF BlocksHold, LiveHolds

LEMMA BlockStart == Memory!Init => Memory!Inv
<1> SUFFICES ASSUME Memory!Init PROVE Memory!Inv OBVIOUS
<1>1. LiveHolds(s3) BY FS_EmptySet DEF Memory!Init, LiveHolds
<1>2. ASSUME NEW c \in Memory!Classes PROVE ClassHolds(c, s1[c], s2[c], s3)
  <2>1. s1[c] = <<>> /\ s2[c] = 0 /\ Used(s3, c) = {} BY DEF Memory!Init, Used
  <2>2. Distinct(<<>>) /\ Elements(<<>>) = {} BY DEF Distinct, Elements
  <2> QED BY <2>1, <2>2, FS_EmptySet DEF ClassHolds
<1>3. BlocksHold(s1, s2, s3) BY <1>1, <1>2 DEF BlocksHold, Memory!Init
<1> QED BY <1>3, BlocksAfter DEF Memory!Inv, Memory!BlocksDisjoint

\* A step with one class and one block puts every class right if it does that one.
LEMMA BlocksOther ==
  ASSUME NEW lists, NEW made, NEW live, BlocksHold(lists, made, live),
         NEW c \in Memory!Classes, NEW q, NEW m, NEW x, x.block[1] = c,
         NEW rest, rest = live \ {x} \/ rest = live \cup {x},
         LiveHolds(rest), ClassHolds(c, q, m, rest),
         NEW ls, ls = [lists EXCEPT ![c] = q], NEW ms, ms = [made EXCEPT ![c] = m]
  PROVE  BlocksHold(ls, ms, rest)
<1>1. ASSUME NEW d \in Memory!Classes, d # c PROVE ClassHolds(d, lists[d], made[d], rest)
  <2>1. ClassHolds(d, lists[d], made[d], live) BY DEF BlocksHold
  <2>2. Used(rest, d) = Used(live, d) BY <1>1 DEF Used
  <2>3. PICK l, k : l = lists[d] /\ k = made[d] OBVIOUS
  <2>4. l \in Seq({d} \X (1..k)) BY <2>1, <2>3 DEF ClassHolds
  <2>5. \A i \in 1..Len(l) : l[i][1] = d
    <3>1. \A i \in 1..Len(l) : l[i] \in {d} \X (1..k) BY <2>4
    <3> QED BY <3>1
  <2>6. x.block \notin Elements(l) BY <1>1, <2>5 DEF Elements
  <2>7. Elements(l) \cap Blocks(rest) = {} BY <2>1, <2>3, <2>6 DEF ClassHolds, Blocks
  <2> QED BY <2>1, <2>2, <2>3, <2>7 DEF ClassHolds
<1>2. ClassHolds(c, q, m, rest) /\ m \in Nat BY DEF ClassHolds
<1> QED BY <1>1, <1>2 DEF BlocksHold

\* The head of a list of free blocks comes into use.
LEMMA BlockTaken ==
  ASSUME NEW live, LiveHolds(live), NEW n \in 1..BlockMax, NEW c, c = Memory!Index(n),
         NEW q, NEW m, ClassHolds(c, q, m, live), q # <<>>,
         NEW x, x = [block |-> Head(q), size |-> n]
  PROVE  /\ x.block[1] = c
         /\ LiveHolds(live \cup {x}) /\ ClassHolds(c, Tail(q), m, live \cup {x})
<1>1. /\ m \in Nat /\ q \in Seq({c} \X (1..m)) /\ Distinct(q)
      /\ Elements(q) \cap Blocks(live) = {}
      /\ Len(q) + Cardinality(Used(live, c)) = m
      /\ \A b \in Used(live, c) : b.block[2] \in 1..m
  BY DEF ClassHolds
<1>2. PICK t, h : t = Tail(q) /\ h = Head(q) OBVIOUS
<1>3. /\ t \in Seq({c} \X (1..m)) /\ Distinct(t) /\ Len(t) = Len(q) - 1
      /\ h \in Elements(q) /\ h \in {c} \X (1..m) /\ Elements(t) = Elements(q) \ {h}
  BY <1>1, <1>2, TailDistinct
<1>4. c \in Memory!Classes BY BlockIndex
<1>5. x.block = h /\ x.size = n /\ x.block[1] = c /\ x.block[2] \in 1..m
  BY <1>2, <1>3
<1>6. x \notin live /\ \A b \in live : b.block # h BY <1>1, <1>3, <1>5 DEF Blocks
<1>7. LiveHolds(live \cup {x})
  <2>1. x \in [block : Memory!Classes \X Nat, size : 1..BlockMax]
    <3>1. h \in Memory!Classes \X Nat BY <1>1, <1>3, <1>4
    <3> QED BY <1>2, <3>1
  <2>2. IsFiniteSet(live \cup {x}) BY FS_AddElement DEF LiveHolds
  <2> QED BY <1>5, <1>6, <2>1, <2>2 DEF LiveHolds
<1>8. Used(live \cup {x}, c) = Used(live, c) \cup {x} /\ x \notin Used(live, c)
  BY <1>5, <1>6 DEF Used
<1>9. IsFiniteSet(Used(live, c)) BY FS_Subset DEF LiveHolds, Used
<1>10. Cardinality(Used(live \cup {x}, c)) = Cardinality(Used(live, c)) + 1
  <2>1. PICK U : U = Used(live, c) OBVIOUS
  <2>2. Cardinality(U \cup {x}) = Cardinality(U) + 1 BY ONLY <1>8, <1>9, <2>1, FS_AddElement
  <2> QED BY <1>8, <2>1, <2>2
<1>11. Len(t) + Cardinality(Used(live \cup {x}, c)) = m
  <2>1. Len(q) \in Nat /\ Cardinality(Used(live, c)) \in Nat BY <1>1, <1>9, FS_CardinalityType
  <2> QED BY <1>1, <1>3, <1>10, <2>1
<1>12. Elements(t) \cap Blocks(live \cup {x}) = {} BY <1>1, <1>3, <1>5 DEF Blocks
<1>13. \A b \in Used(live \cup {x}, c) : b.block[2] \in 1..m BY <1>1, <1>5, <1>8
<1> QED BY <1>1, <1>2, <1>3, <1>5, <1>7, <1>11, <1>12, <1>13 DEF ClassHolds

\* A list that ran out is filled with a chunk of new blocks.
LEMMA BlockRefilled ==
  ASSUME NEW live, NEW c \in Memory!Classes, NEW m, ClassHolds(c, <<>>, m, live),
         LiveHolds(live), NEW q, m = s2[c], q = Memory!Refilled(c)
  PROVE  ClassHolds(c, q, m + BlockChunk, live) /\ q # <<>>
<1>1. PICK k \in Nat \ {0} : k = BlockChunk BY ContainersAssumption
<1>2. m \in Nat BY DEF ClassHolds
<1>3. q = [n \in 1..k |-> <<c, m + k + 1 - n>>] BY <1>1 DEF Memory!Refilled
<1>4. q \in [1..k -> {c} \X (1..m + k)]
  <2>1. \A n \in 1..k : m + k + 1 - n \in 1..m + k BY <1>2
  <2> QED BY <1>3, <2>1
<1>5. q \in Seq({c} \X (1..m + k)) /\ Len(q) = k BY <1>1, <1>4, SequenceOf
<1>6. Distinct(q)
  <2> SUFFICES ASSUME NEW i \in 1..k, NEW j \in 1..k, q[i] = q[j] PROVE i = j
    BY <1>5 DEF Distinct
  <2>1. m + k + 1 - i = m + k + 1 - j BY <1>3
  <2> QED BY <1>2, <2>1
<1>7. Elements(q) \cap Blocks(live) = {}
  <2> SUFFICES ASSUME NEW i \in 1..k, NEW b \in live, q[i] = b.block PROVE FALSE
    BY <1>5 DEF Elements, Blocks
  <2>1. b.block[1] = c /\ b.block[2] = m + k + 1 - i BY <1>3
  <2>2. b.block[2] \in 1..m BY <2>1 DEF ClassHolds, Used
  <2> QED BY <1>2, <2>1, <2>2
<1>8. Cardinality(Used(live, c)) = m
  <2>1. Len(<<>>) = 0 OBVIOUS
  <2>2. Cardinality(Used(live, c)) \in Nat BY FS_Subset, FS_CardinalityType DEF LiveHolds, Used
  <2> QED BY <1>2, <2>1, <2>2 DEF ClassHolds
<1>9. \A b \in Used(live, c) : b.block[2] \in 1..m + k
  <2>1. \A i \in 1..m : i \in 1..m + k BY <1>2
  <2> QED BY <2>1 DEF ClassHolds
<1> QED BY <1>1, <1>2, <1>5, <1>6, <1>7, <1>8, <1>9 DEF ClassHolds

LEMMA BlockAllocate ==
  ASSUME BlocksHold(s1, s2, s3), NEW n \in 1..BlockMax, Memory!Allocate(n)
  PROVE  BlocksHold(s1', s2', s3')
<1>1. PICK c \in Memory!Classes : c = Memory!Index(n) BY BlockIndex
<1>2. ClassHolds(c, s1[c], s2[c], s3) /\ LiveHolds(s3) BY DEF BlocksHold
<1>3. CASE s1[c] = <<>>
  <2>1. PICK q, m, x : /\ q = Memory!Refilled(c) /\ m = s2[c] + BlockChunk
                       /\ x = [block |-> Head(q), size |-> n]
    OBVIOUS
  <2>2. /\ s2' = [s2 EXCEPT ![c] = m] /\ s3' = s3 \cup {x} /\ s1' = [s1 EXCEPT ![c] = Tail(q)]
    BY <1>1, <1>3, <2>1 DEF Memory!Allocate
  <2>3. ClassHolds(c, q, m, s3) /\ q # <<>> BY <1>2, <1>3, <2>1, BlockRefilled
  <2>4. /\ x.block[1] = c
        /\ LiveHolds(s3 \cup {x}) /\ ClassHolds(c, Tail(q), m, s3 \cup {x})
    BY <1>1, <1>2, <2>1, <2>3, BlockTaken
  <2> QED BY <2>2, <2>4, BlocksOther
<1>4. CASE s1[c] # <<>>
  <2>1. PICK q, m, x : q = s1[c] /\ m = s2[c] /\ x = [block |-> Head(q), size |-> n] OBVIOUS
  <2>2. /\ s2' = s2 /\ s3' = s3 \cup {x} /\ s1' = [s1 EXCEPT ![c] = Tail(q)]
    BY <1>1, <1>4, <2>1 DEF Memory!Allocate
  <2>3. /\ x.block[1] = c
        /\ LiveHolds(s3 \cup {x}) /\ ClassHolds(c, Tail(q), m, s3 \cup {x})
    BY <1>1, <1>2, <1>4, <2>1, BlockTaken
  <2>4. s2' = [s2 EXCEPT ![c] = m] BY <2>1, <2>2 DEF BlocksHold
  <2>5. c \in Memory!Classes /\ BlocksHold(s1, s2, s3) OBVIOUS
  <2>6. PICK ls, ms, rest, t : ls = s1' /\ ms = s2' /\ rest = s3' /\ t = Tail(q) OBVIOUS
  <2>7. /\ ls = [s1 EXCEPT ![c] = t] /\ ms = [s2 EXCEPT ![c] = m]
        /\ rest = s3 \ {x} \/ rest = s3 \cup {x}
        /\ x.block[1] = c /\ LiveHolds(rest) /\ ClassHolds(c, t, m, rest)
    BY <2>2, <2>3, <2>4, <2>6
  <2>8. BlocksHold(ls, ms, rest) BY ONLY <2>5, <2>7, BlocksOther
  <2> QED BY <2>6, <2>8
<1> QED BY <1>3, <1>4

LEMMA BlockDeallocate ==
  ASSUME BlocksHold(s1, s2, s3), NEW b \in s3, Memory!Deallocate(b)
  PROVE  BlocksHold(s1', s2', s3')
<1>1. LiveHolds(s3) BY DEF BlocksHold
<1>2. b \in [block : Memory!Classes \X Nat, size : 1..BlockMax] /\ b.block[1] = Memory!Index(b.size)
  BY <1>1 DEF LiveHolds
<1>3. PICK c \in Memory!Classes : c = b.block[1] BY <1>2
<1>4. PICK q, m, p : q = s1[c] /\ m = s2[c] /\ p = <<b.block>> \o q OBVIOUS
<1>5. s1' = [s1 EXCEPT ![c] = p] /\ s2' = s2 /\ s3' = s3 \ {b}
  BY <1>2, <1>3, <1>4 DEF Memory!Deallocate, BlocksHold
<1>6. s2' = [s2 EXCEPT ![c] = m] BY <1>4, <1>5 DEF BlocksHold
<1>7. /\ m \in Nat /\ q \in Seq({c} \X (1..m)) /\ Distinct(q)
      /\ Elements(q) \cap Blocks(s3) = {}
      /\ Len(q) + Cardinality(Used(s3, c)) = m
      /\ \A d \in Used(s3, c) : d.block[2] \in 1..m
  BY <1>4 DEF BlocksHold, ClassHolds
<1>8. b \in Used(s3, c) /\ b.block \in {c} \X (1..m)
  <2>1. b \in Used(s3, c) BY <1>3 DEF Used
  <2>2. b.block = <<b.block[1], b.block[2]>> BY <1>2
  <2> QED BY <1>3, <1>7, <2>1, <2>2
<1>9. LiveHolds(s3 \ {b}) BY <1>1, FS_RemoveElement DEF LiveHolds
<1>10. Cardinality(Used(s3 \ {b}, c)) = Cardinality(Used(s3, c)) - 1 /\ Cardinality(Used(s3, c)) \in Nat
  <2>1. Used(s3 \ {b}, c) = Used(s3, c) \ {b} BY DEF Used
  <2>2. IsFiniteSet(Used(s3, c)) BY <1>1, FS_Subset DEF LiveHolds, Used
  <2>3. PICK U : U = Used(s3, c) OBVIOUS
  <2>4. Cardinality(U \ {b}) = Cardinality(U) - 1 /\ Cardinality(U) \in Nat
    BY ONLY <1>8, <2>2, <2>3, FS_RemoveElement, FS_CardinalityType
  <2> QED BY <2>1, <2>3, <2>4
<1>11. PICK a : a = <<b.block>> OBVIOUS
<1>12. a \in Seq({c} \X (1..m)) /\ Len(a) = 1 /\ Distinct(a) /\ Elements(a) = {b.block}
  BY <1>8, <1>11 DEF Distinct, Elements
<1>13. Elements(a) \cap Elements(q) = {} BY <1>7, <1>12 DEF Blocks
<1>14. /\ p \in Seq({c} \X (1..m)) /\ Distinct(p)
       /\ Elements(p) = Elements(a) \cup Elements(q)
  BY <1>4, <1>7, <1>11, <1>12, <1>13, ConcatDistinct
<1>15. Len(p) = 1 + Len(q) BY <1>4, <1>7, <1>11, <1>12, ConcatProperties
<1>16. Elements(p) \cap Blocks(s3 \ {b}) = {} BY <1>1, <1>7, <1>12, <1>14 DEF Blocks, LiveHolds
<1>17. Len(p) + Cardinality(Used(s3 \ {b}, c)) = m
  <2>1. Len(q) \in Nat BY <1>7
  <2> QED BY <1>7, <1>10, <1>15, <2>1
<1>18. ClassHolds(c, p, m, s3 \ {b}) BY <1>7, <1>14, <1>16, <1>17 DEF ClassHolds, Used
<1>19. c \in Memory!Classes /\ BlocksHold(s1, s2, s3) /\ b \in s3 OBVIOUS
<1>20. PICK ls, ms, rest : ls = s1' /\ ms = s2' /\ rest = s3' OBVIOUS
<1>21. /\ ls = [s1 EXCEPT ![c] = p] /\ ms = [s2 EXCEPT ![c] = m]
       /\ rest = s3 \ {b} \/ rest = s3 \cup {b}
       /\ b.block[1] = c /\ LiveHolds(rest) /\ ClassHolds(c, p, m, rest)
  BY <1>3, <1>5, <1>6, <1>9, <1>18, <1>20
<1>22. BlocksHold(ls, ms, rest) BY ONLY <1>19, <1>21, BlocksOther
<1> QED BY <1>20, <1>22

LEMMA BlockStep ==
  ASSUME Memory!Inv, Memory!Next
  PROVE  Memory!Inv'
<1>1. BlocksHold(s1, s2, s3) BY BlocksBefore
<1>2. BlocksHold(s1', s2', s3')
  BY <1>1, BlockAllocate, BlockDeallocate
     DEF Memory!Next, Memory!AllocateZero, Memory!DeallocateZero
<1> QED BY ONLY <1>2, BlocksAfter, Zenon DEF Memory!Inv, Memory!BlocksDisjoint

LEMMA BlocksStutter == Memory!Inv /\ UNCHANGED slots => Memory!Inv'
<1> SUFFICES ASSUME Memory!Inv, UNCHANGED slots PROVE Memory!Inv' OBVIOUS
<1>1. BlocksHold(s1', s2', s3') BY BlocksBefore DEF slots
<1> QED BY ONLY <1>1, BlocksAfter, Zenon DEF Memory!Inv, Memory!BlocksDisjoint

-----------------------------------------------------------------------------
(* ObjectPool.  s1 pool, s2 createdCount, s3 object, s4 bound, s5 dirty,    *)
(* s6 made, s7 escaped.                                                     *)

LEMMA PoolCardinality == \A S : Objects!Cardinality(S) = Cardinality(S)
BY DEF Objects!Cardinality, Cardinality

HeldOf(o) == {h \in PoolHandles : o[h] # 0}

\* Inv, of the values of the variables and with the set of the idle objects: how many
\* there are is a number of its own.
PoolSets(idle, k, n, o, d, m, e) ==
  /\ m \in Nat /\ k \in Nat /\ n \in Int
  /\ idle \subseteq 1..m /\ o \in [PoolHandles -> 0..m] /\ d \subseteq 1..m /\ e \subseteq 1..m
  /\ idle \cap d = {} /\ idle \cap e = {}
  /\ \A h \in HeldOf(o) : /\ o[h] \notin idle \cup e
                          /\ \A g \in HeldOf(o) : o[g] = o[h] => g = h
  /\ n = k + Cardinality(HeldOf(o)) + Cardinality(e)
  /\ PoolLimit > 0 => n <= PoolLimit \/ n <= PoolInitial

PoolRuns(p, n, o, d, m, e) ==
  p \in Seq(Nat) /\ Distinct(p) /\ PoolSets(Elements(p), Len(p), n, o, d, m, e)

PoolHolds(p, n, o, b, d, m, e) == PoolRuns(p, n, o, d, m, e) /\ b = HeldOf(o)

\* Handle h becomes one with object x.
Given(o, h, x) == [o EXCEPT ![h] = x]

LEMMA PoolBefore == Objects!Inv => PoolHolds(s1, s2, s3, s4, s5, s6, s7)
<1> SUFFICES ASSUME Objects!Inv PROVE PoolHolds(s1, s2, s3, s4, s5, s6, s7) OBVIOUS
<1> USE DEF Objects!Inv, Objects!PoolConserves
<1>1. Objects!Held = HeldOf(s3) BY DEF Objects!Held, HeldOf
<1>2. s1 \in Seq(Nat) /\ DOMAIN s1 = 1..Len(s1) /\ Len(s1) \in Nat OBVIOUS
<1>3. Objects!Range(s1) = Elements(s1) BY <1>2 DEF Objects!Range, Elements
<1>4. Distinct(s1) BY <1>2 DEF Objects!IsInjective, Distinct
<1>5. s2 = Len(s1) + Cardinality(HeldOf(s3)) + Cardinality(s7) BY <1>1, PoolCardinality
<1>6. PoolSets(Elements(s1), Len(s1), s2, s3, s5, s6, s7)
  BY <1>1, <1>2, <1>3, <1>5 DEF PoolSets
<1> QED BY <1>1, <1>2, <1>4, <1>6 DEF PoolHolds, PoolRuns

LEMMA PoolAfter ==
  ASSUME NEW p, NEW n, NEW o, NEW b, NEW d, NEW m, NEW e, PoolHolds(p, n, o, b, d, m, e)
  PROVE  /\ m \in Nat /\ n \in Int
         /\ p \in Seq(Nat) /\ Objects!Range(p) \subseteq 1..m /\ o \in [PoolHandles -> 0..m]
         /\ d \subseteq 1..m /\ e \subseteq 1..m
         /\ b = HeldOf(o) /\ Objects!Range(p) \cap e = {}
         /\ Objects!IsInjective(p) /\ Objects!Range(p) \cap d = {}
         /\ \A h \in HeldOf(o) : /\ h \in b /\ o[h] \notin Objects!Range(p) \cup e
                                 /\ \A g \in HeldOf(o) : o[g] = o[h] => g = h
         /\ n = Len(p) + Objects!Cardinality(HeldOf(o)) + Objects!Cardinality(e)
         /\ PoolLimit > 0 => n <= PoolLimit \/ n <= PoolInitial
<1>1. p \in Seq(Nat) /\ DOMAIN p = 1..Len(p) BY DEF PoolHolds, PoolRuns
<1>2. Objects!Range(p) = Elements(p) BY <1>1 DEF Objects!Range, Elements
<1>3. Objects!IsInjective(p) BY <1>1 DEF PoolHolds, PoolRuns, Distinct, Objects!IsInjective
<1> QED BY <1>1, <1>2, <1>3, PoolCardinality DEF PoolHolds, PoolRuns, PoolSets

LEMMA PoolFinite ==
  ASSUME NEW o, NEW m \in Nat, NEW e \in SUBSET (1..m)
  PROVE  /\ IsFiniteSet(HeldOf(o)) /\ Cardinality(HeldOf(o)) \in Nat
         /\ IsFiniteSet(e) /\ Cardinality(e) \in Nat
<1>1. HeldOf(o) \subseteq PoolHandles BY DEF HeldOf
<1>2. IsFiniteSet(HeldOf(o)) BY <1>1, FS_Subset, ContainersAssumption
<1>3. IsFiniteSet(1..m) BY FS_Interval
<1>4. IsFiniteSet(e) BY <1>3, FS_Subset
<1> QED BY <1>2, <1>4, FS_CardinalityType

\* The object of a handle is let go: the handle is no longer one that holds.
LEMMA PoolLetGo ==
  ASSUME NEW m \in Nat, NEW o \in [PoolHandles -> 0..m], NEW h \in PoolHandles, o[h] # 0,
         NEW u \in [PoolHandles -> 0..m], u[h] = 0, \A g \in PoolHandles \ {h} : u[g] = o[g]
  PROVE  /\ HeldOf(u) = HeldOf(o) \ {h}
         /\ \A g \in HeldOf(u) : u[g] = o[g] /\ g \in HeldOf(o) /\ g # h
         /\ Cardinality(HeldOf(u)) = Cardinality(HeldOf(o)) - 1
<1>2. HeldOf(u) = HeldOf(o) \ {h} /\ h \in HeldOf(o) BY DEF HeldOf
<1>3. \A g \in HeldOf(u) : u[g] = o[g] /\ g \in HeldOf(o) /\ g # h BY <1>2 DEF HeldOf
<1>4. PICK U : U = HeldOf(o) OBVIOUS
<1>5. {} \in SUBSET (1..m) OBVIOUS
<1>6. IsFiniteSet(U) BY <1>4, <1>5, PoolFinite
<1>7. Cardinality(U \ {h}) = Cardinality(U) - 1 BY ONLY <1>2, <1>4, <1>6, FS_RemoveElement
<1> QED BY <1>2, <1>3, <1>4, <1>7

\* A handle that is destroyed or assigned to gives its object back, reset.
LEMMA PoolGiveBack ==
  ASSUME NEW idle, NEW k, NEW n, NEW o, NEW d, NEW m, NEW e,
         PoolSets(idle, k, n, o, d, m, e), NEW h \in PoolHandles, NEW x, x = o[h], x # 0,
         NEW u, u = Given(o, h, 0)
  PROVE  PoolSets(idle \cup {x}, k + 1, n, u, d \ {x}, m, e) /\ x \notin idle \cup e
<1>1. m \in Nat /\ k \in Nat /\ o \in [PoolHandles -> 0..m] /\ e \in SUBSET (1..m) /\ n \in Int
  BY DEF PoolSets
<1>0. u \in [PoolHandles -> 0..m] BY <1>1 DEF Given
<1>2. /\ HeldOf(u) = HeldOf(o) \ {h}
      /\ \A g \in HeldOf(u) : u[g] = o[g] /\ g \in HeldOf(o) /\ g # h
      /\ Cardinality(HeldOf(u)) = Cardinality(HeldOf(o)) - 1
  <2>1. m \in Nat BY <1>1
  <2>2. o \in [PoolHandles -> 0..m] BY <1>1
  <2>3. h \in PoolHandles OBVIOUS
  <2>4. o[h] # 0 OBVIOUS
  <2>5. u \in [PoolHandles -> 0..m] /\ u[h] = 0 /\ \A g \in PoolHandles \ {h} : u[g] = o[g]
    BY <1>1 DEF Given
  <2> QED BY ONLY <2>1, <2>2, <2>3, <2>4, <2>5, PoolLetGo
<1>3. h \in HeldOf(o) /\ x \in 1..m BY <1>1 DEF HeldOf
<1>4. \A g \in HeldOf(u) : /\ u[g] \notin (idle \cup {x}) \cup e
                           /\ \A f \in HeldOf(u) : u[f] = u[g] => f = g
  <2>1. \A a \in HeldOf(o) : o[a] \notin idle \cup e BY DEF PoolSets
  <2>2. \A a, b \in HeldOf(o) : o[a] = o[b] => a = b BY DEF PoolSets
  <2> QED BY ONLY <1>2, <1>3, <2>1, <2>2, x = o[h]
<1>5. n = (k + 1) + Cardinality(HeldOf(u)) + Cardinality(e)
  <2>1. Cardinality(HeldOf(o)) \in Nat /\ Cardinality(e) \in Nat BY <1>1, PoolFinite
  <2>2. n = k + Cardinality(HeldOf(o)) + Cardinality(e) BY DEF PoolSets
  <2> QED BY <1>1, <1>2, <2>1, <2>2
<1>6. x \notin idle \cup e BY <1>3 DEF PoolSets
<1>7. (idle \cup {x}) \cap (d \ {x}) = {} /\ (idle \cup {x}) \cap e = {} /\ idle \cup {x} \subseteq 1..m /\ d \ {x} \subseteq 1..m
  BY <1>3, <1>6 DEF PoolSets
<1>8. k + 1 \in Nat BY <1>1
<1> QED BY <1>0, <1>1, <1>2, <1>4, <1>5, <1>6, <1>7, <1>8 DEF PoolSets

\* An empty handle takes an idle object.
LEMMA PoolTake ==
  ASSUME NEW idle, NEW k, NEW n, NEW o, NEW d, NEW m, NEW e,
         PoolSets(idle, k, n, o, d, m, e), k # 0, NEW h \in PoolHandles, o[h] = 0,
         NEW x \in idle, NEW u, u = Given(o, h, x)
  PROVE  PoolSets(idle \ {x}, k - 1, n, u, d \cup {x}, m, e) /\ HeldOf(u) = HeldOf(o) \cup {h}
<1>1. m \in Nat /\ k \in Nat /\ o \in [PoolHandles -> 0..m] /\ e \in SUBSET (1..m) /\ n \in Int
      /\ x \in 1..m
  BY DEF PoolSets
<1>2. u \in [PoolHandles -> 0..m] /\ u[h] = x /\ \A g \in PoolHandles \ {h} : u[g] = o[g]
  BY <1>1 DEF Given
<1>3. HeldOf(u) = HeldOf(o) \cup {h} /\ h \notin HeldOf(o) BY <1>1, <1>2 DEF HeldOf
<1>4. \A g \in HeldOf(u) : g = h \/ (g \in HeldOf(o) /\ g # h /\ u[g] = o[g] /\ o[g] \notin idle \cup e)
  BY <1>2, <1>3 DEF PoolSets, HeldOf
<1>5. \A g \in HeldOf(u) : /\ u[g] \notin (idle \ {x}) \cup e
                           /\ \A f \in HeldOf(u) : u[f] = u[g] => f = g
  <2>1. \A a, b \in HeldOf(o) : o[a] = o[b] => a = b BY DEF PoolSets
  <2>2. x \in idle /\ x \notin e BY DEF PoolSets
  <2> QED BY ONLY <1>2, <1>4, <2>1, <2>2
<1>6. n = (k - 1) + Cardinality(HeldOf(u)) + Cardinality(e)
  <2>1. /\ IsFiniteSet(HeldOf(o)) /\ Cardinality(HeldOf(o)) \in Nat /\ Cardinality(e) \in Nat
    BY <1>1, PoolFinite
  <2>2. n = k + Cardinality(HeldOf(o)) + Cardinality(e) BY DEF PoolSets
  <2>3. PICK U : U = HeldOf(o) OBVIOUS
  <2>4. Cardinality(U \cup {h}) = Cardinality(U) + 1 BY ONLY <1>3, <2>1, <2>3, FS_AddElement
  <2>5. PICK a \in Nat, b \in Nat : a = Cardinality(U) /\ b = Cardinality(e) BY <2>1, <2>3
  <2>6. n = (k - 1) + (a + 1) + b BY <1>1, <2>2, <2>3, <2>5
  <2> QED BY <1>3, <2>3, <2>4, <2>5, <2>6
<1>7. (idle \ {x}) \cap (d \cup {x}) = {} /\ (idle \ {x}) \cap e = {} /\ idle \ {x} \subseteq 1..m /\ d \cup {x} \subseteq 1..m
  BY <1>1 DEF PoolSets
<1>8. k - 1 \in Nat BY <1>1
<1> QED BY <1>1, <1>2, <1>3, <1>5, <1>6, <1>7, <1>8 DEF PoolSets

\* New objects, j of them, join the idle ones.
LEMMA PoolMake ==
  ASSUME NEW idle, NEW k, NEW n, NEW o, NEW d, NEW m, NEW e,
         PoolSets(idle, k, n, o, d, m, e), NEW j \in Nat, PoolLimit = 0 \/ n + j <= PoolLimit
  PROVE  PoolSets(idle \cup (m + 1..m + j), k + j, n + j, o, d, m + j, e)
<1>1. m \in Nat /\ k \in Nat /\ o \in [PoolHandles -> 0..m] /\ e \in SUBSET (1..m) /\ n \in Int
      /\ d \in SUBSET (1..m) /\ idle \in SUBSET (1..m)
  BY DEF PoolSets
<1>2. PICK t \in Nat : t = m + j BY <1>1
<1>3. PICK new : new = m + 1..m + j OBVIOUS
<1>4. \A i \in 0..m : i \in 0..t /\ i \notin new BY <1>1, <1>2, <1>3
<1>5. \A i \in 1..m : i \in 1..t /\ i \notin new BY <1>1, <1>2, <1>3
<1>6. \A i \in new : i \in 1..t BY <1>1, <1>2, <1>3
<1>7. o \in [PoolHandles -> 0..t] /\ \A h \in PoolHandles : o[h] \notin new BY <1>1, <1>4
<1>8. /\ e \subseteq 1..t /\ d \subseteq 1..t /\ idle \cup new \subseteq 1..t
      /\ (idle \cup new) \cap d = {} /\ (idle \cup new) \cap e = {}
  BY <1>1, <1>5, <1>6 DEF PoolSets
<1>9. \A h \in HeldOf(o) : /\ o[h] \notin (idle \cup new) \cup e
                           /\ \A g \in HeldOf(o) : o[g] = o[h] => g = h
  BY <1>7 DEF PoolSets, HeldOf
<1>10. n + j = (k + j) + Cardinality(HeldOf(o)) + Cardinality(e)
  <2>1. Cardinality(HeldOf(o)) \in Nat /\ Cardinality(e) \in Nat BY <1>1, PoolFinite
  <2>2. n = k + Cardinality(HeldOf(o)) + Cardinality(e) BY DEF PoolSets
  <2> QED BY <1>1, <2>1, <2>2
<1>11. PoolLimit > 0 => n + j <= PoolLimit \/ n + j <= PoolInitial BY ContainersAssumption
<1>12. k + j \in Nat /\ n + j \in Int BY <1>1
<1> QED BY <1>2, <1>3, <1>7, <1>8, <1>9, <1>10, <1>11, <1>12 DEF PoolSets
\* Dirty may be any objects that are not idle.
LEMMA PoolDirty ==
  ASSUME NEW idle, NEW k, NEW n, NEW o, NEW c, NEW m, NEW e, PoolSets(idle, k, n, o, c, m, e),
         NEW d, d \subseteq 1..m, idle \cap d = {}
  PROVE  PoolSets(idle, k, n, o, d, m, e)
BY DEF PoolSets

\* The object a handle gives back, if it has one, as a set and as a sequence.
Back(o, h) == IF o[h] # 0 THEN {o[h]} ELSE {}
IsBack(r, o, h) ==
  /\ r \in Seq(Nat) /\ Distinct(r) /\ Elements(r) = Back(o, h)
  /\ Len(r) = IF o[h] # 0 THEN 1 ELSE 0

LEMMA PoolReturned ==
  ASSUME PoolHolds(s1, s2, s3, s4, s5, s6, s7), NEW h \in PoolHandles,
         NEW r, r = Objects!Returned(h)
  PROVE  IsBack(r, s3, h) /\ Objects!Cleaned(h) = s5 \ Back(s3, h)
<1>1. s3[h] \in Nat BY DEF PoolHolds, PoolRuns, PoolSets
<1>2. s3[h] # 0 <=> h \in s4 BY DEF PoolHolds, HeldOf
<1>3. CASE s3[h] # 0
  <2>1. r = <<s3[h]>> BY <1>2, <1>3 DEF Objects!Returned
  <2>2. PICK x \in Nat : x = s3[h] BY <1>1
  <2>3. r \in Seq(Nat) /\ Len(r) = 1 /\ Elements(r) = {x} /\ Distinct(r) /\ DOMAIN r = 1..1
    BY <2>1, <2>2 DEF Elements, Distinct
  <2>4. Objects!Range(r) = {x} BY <2>1, <2>2, <2>3 DEF Objects!Range
  <2> QED BY <1>3, <2>2, <2>3, <2>4 DEF Back, IsBack, Objects!Cleaned
<1>4. CASE s3[h] = 0
  <2>1. r = <<>> BY <1>4 DEF Objects!Returned
  <2>2. r \in Seq(Nat) /\ Len(r) = 0 /\ Elements(r) = {} /\ Distinct(r) BY <2>1 DEF Elements, Distinct
  <2>3. Objects!Range(r) = {} BY <2>1 DEF Objects!Range
  <2> QED BY <1>4, <2>2, <2>3 DEF Back, IsBack, Objects!Cleaned
<1> QED BY <1>3, <1>4

GaveBack(q, r, o, u, h, e) ==
  /\ Len(q \o r) = Len(q) + Len(r) /\ Elements(q \o r) = Elements(q) \cup Back(o, h)
  /\ Back(o, h) \cap (Elements(q) \cup e) = {}
  /\ HeldOf(u) = HeldOf(o) \ {h} /\ u[h] = 0
Took(o, u, h) == HeldOf(u) = HeldOf(o) \cup {h}

\* What the pool holds after handle h gave its object back behind the objects of q.
LEMMA PoolBack ==
  ASSUME NEW q, NEW n, NEW o, NEW d, NEW m, NEW e, PoolRuns(q, n, o, d, m, e),
         NEW h \in PoolHandles, NEW r, IsBack(r, o, h), NEW u, u = Given(o, h, 0)
  PROVE  PoolRuns(q \o r, n, u, d \ Back(o, h), m, e) /\ GaveBack(q, r, o, u, h, e)
<1>1. PICK k, i : k = Len(q) /\ i = Elements(q) OBVIOUS
<1>2. /\ q \in Seq(Nat) /\ Distinct(q) /\ PoolSets(i, k, n, o, d, m, e)
      /\ r \in Seq(Nat) /\ Distinct(r) /\ Elements(r) = Back(o, h)
  BY <1>1 DEF PoolRuns, IsBack
<1>3. m \in Nat /\ o \in [PoolHandles -> 0..m] /\ k \in Nat BY <1>2 DEF PoolSets
<1>4. u[h] = 0 /\ HeldOf(u) = HeldOf(o) \ {h} BY <1>3 DEF HeldOf, Given
<1>5. Len(q \o r) = k + Len(r) BY <1>1, <1>2, ConcatProperties
<1>6. Back(o, h) \cap (i \cup e) = {}
  <2>1. ASSUME o[h] # 0 PROVE o[h] \notin i \cup e BY <1>2, <2>1 DEF PoolSets, HeldOf
  <2> QED BY <2>1 DEF Back
<1>7. /\ q \o r \in Seq(Nat) /\ Distinct(q \o r) /\ Elements(q \o r) = i \cup Back(o, h)
  <2>1. Elements(q) \cap Elements(r) = {} BY <1>1, <1>2, <1>6
  <2> QED BY <1>1, <1>2, <2>1, ConcatDistinct
<1>8. PoolSets(i \cup Back(o, h), k + Len(r), n, u, d \ Back(o, h), m, e)
  <2>1. CASE o[h] # 0
    <3>1. PICK x : x = o[h] OBVIOUS
    <3>2. Back(o, h) = {x} /\ Len(r) = 1 BY <2>1, <3>1 DEF Back, IsBack
    <3>3. h \in PoolHandles /\ x # 0 /\ u = Given(o, h, 0) BY <2>1, <3>1
    <3>4. PoolSets(i \cup {x}, k + 1, n, u, d \ {x}, m, e) BY ONLY <1>2, <3>1, <3>3, PoolGiveBack
    <3> QED BY <3>2, <3>4
  <2>2. CASE o[h] = 0
    <3>1. Back(o, h) = {} /\ Len(r) = 0 BY <2>2 DEF Back, IsBack
    <3>2. u = o BY <1>3, <2>2 DEF Given
    <3>3. i \cup {} = i /\ k + 0 = k /\ d \ {} = d BY <1>3
    <3> QED BY <1>2, <3>1, <3>2, <3>3
  <2> QED BY <2>1, <2>2
<1> QED BY <1>1, <1>4, <1>5, <1>6, <1>7, <1>8 DEF PoolRuns, GaveBack

LEMMA FrontDistinct ==
  ASSUME NEW S, NEW q, q \in Seq(S), q # <<>>, Distinct(q)
  PROVE  LET p == SubSeq(q, 1, Len(q) - 1) IN
         /\ p \in Seq(S) /\ Distinct(p) /\ Len(p) = Len(q) - 1
         /\ q[Len(q)] \in Elements(q) /\ Elements(p) = Elements(q) \ {q[Len(q)]}
<1>1. PICK n \in Nat : Len(q) = n + 1 /\ n = Len(q) - 1
  <2>1. Len(q) \in Nat \ {0} OBVIOUS
  <2> QED BY <2>1
<1>2. n \in 0..Len(q) BY <1>1
<1>3. PICK p, b, x : p = SubSeq(q, 1, n) /\ b = SubSeq(q, n + 1, Len(q)) /\ x = q[n + 1] OBVIOUS
<1>4. /\ p \in Seq(S) /\ b \in Seq(S) /\ Distinct(p) /\ Distinct(b)
      /\ Len(b) = Len(q) - n
      /\ Elements(p) \cap Elements(b) = {} /\ Elements(p) \cup Elements(b) = Elements(q)
  BY <1>2, <1>3, SplitDistinct
<1>5. Len(p) = n BY <1>1, <1>3, SubSeqProperties
<1>6. Len(b) = 1 /\ b[1] = x
  <2>1. Len(b) = 1 BY <1>1, <1>4
  <2>2. PICK k \in Int : k = n + 1 OBVIOUS
  <2>3. \A i \in k..k : q[i] \in S BY <1>1, <2>2
  <2>4. \A i \in 1..k - k + 1 : SubSeq(q, k, k)[i] = q[k + i - 1] BY <2>2, <2>3, SubSeqProperties
  <2>5. 1 \in 1..k - k + 1 /\ k + 1 - 1 = k OBVIOUS
  <2>6. SubSeq(q, k, k)[1] = q[k] BY <2>4, <2>5
  <2> QED BY <1>1, <1>3, <2>1, <2>2, <2>6
<1>7. Elements(b) = {x} BY <1>6 DEF Elements
<1> QED BY <1>1, <1>3, <1>4, <1>5, <1>7

LEMMA PoolDestroys ==
  ASSUME PoolHolds(s1, s2, s3, s4, s5, s6, s7), NEW h \in PoolHandles,
         Objects!Holds(h, 0, FALSE, s1), s2' = s2, s6' = s6, s7' = s7
  PROVE  PoolHolds(s1', s2', s3', s4', s5', s6', s7')
<1>1. PICK r, u, b : r = Objects!Returned(h) /\ u = Given(s3, h, 0) /\ b = Back(s3, h) OBVIOUS
<1>2. IsBack(r, s3, h) /\ Objects!Cleaned(h) = s5 \ b BY <1>1, PoolReturned
<1>3. PoolRuns(s1, s2, s3, s5, s6, s7) /\ s4 = HeldOf(s3) /\ h \in PoolHandles BY DEF PoolHolds
<1>4. s1' = s1 \o r /\ s3' = u /\ s4' = s4 \ {h} /\ s5' = s5 \ b
  BY <1>1, <1>2 DEF Objects!Holds, Given
<1>5. PoolRuns(s1 \o r, s2, u, s5 \ b, s6, s7) /\ GaveBack(s1, r, s3, u, h, s7)
  BY ONLY <1>1, <1>2, <1>3, PoolBack
<1> QED BY <1>3, <1>4, <1>5 DEF PoolHolds, GaveBack

\* Handle h, which gave back its object, has one that is idle, not at the end of the pool.
LEMMA PoolTakes ==
  ASSUME NEW q, NEW n, NEW o, NEW d, NEW m, NEW e, PoolRuns(q, n, o, d, m, e),
         NEW h \in PoolHandles, o[h] = 0, NEW x \in Elements(q), NEW u, u = Given(o, h, x),
         NEW p \in Seq(Nat), Distinct(p), Elements(p) = Elements(q) \ {x}, Len(p) = Len(q) - 1
  PROVE  PoolRuns(p, n, u, d \cup {x}, m, e) /\ Took(o, u, h)
<1>1. PICK k, i : k = Len(q) /\ i = Elements(q) OBVIOUS
<1>2. PoolSets(i, k, n, o, d, m, e) /\ k # 0
  <2>1. q \in Seq(Nat) /\ PoolSets(i, k, n, o, d, m, e) BY <1>1 DEF PoolRuns
  <2> QED BY <1>1, <2>1 DEF Elements
<1>3. h \in PoolHandles /\ o[h] = 0 /\ x \in i /\ u = Given(o, h, x) BY <1>1
<1>4. PoolSets(i \ {x}, k - 1, n, u, d \cup {x}, m, e) /\ HeldOf(u) = HeldOf(o) \cup {h}
  BY ONLY <1>2, <1>3, PoolTake
<1> QED BY <1>1, <1>4 DEF PoolRuns, Took

LEMMA PoolAcquiresIdle ==
  ASSUME PoolHolds(s1, s2, s3, s4, s5, s6, s7), NEW h \in PoolHandles, Objects!AcquireIdle(h)
  PROVE  PoolHolds(s1', s2', s3', s4', s5', s6', s7')
<1>1. PICK r, u, q, b : /\ r = Objects!Returned(h) /\ u = Given(s3, h, 0) /\ q = s1 \o r
                        /\ b = Back(s3, h)
  OBVIOUS
<1>2. PICK x, p : x = s1[Len(s1)] /\ p = SubSeq(s1, 1, Len(s1) - 1) OBVIOUS
<1>3. IsBack(r, s3, h) /\ Objects!Cleaned(h) = s5 \ b BY <1>1, PoolReturned
<1>4. /\ PoolRuns(s1, s2, s3, s5, s6, s7) /\ s4 = HeldOf(s3) /\ h \in PoolHandles
      /\ s1 \in Seq(Nat) /\ Distinct(s1) /\ s1 # <<>>
  BY DEF PoolHolds, PoolRuns, Objects!AcquireIdle
<1>5. /\ p \in Seq(Nat) /\ Distinct(p) /\ Len(p) = Len(s1) - 1
      /\ x \in Elements(s1) /\ Elements(p) = Elements(s1) \ {x}
  BY ONLY <1>2, <1>4, FrontDistinct
<1>6. /\ PoolRuns(q, s2, u, s5 \ b, s6, s7) /\ Len(q) = Len(s1) + Len(r)
      /\ Elements(q) = Elements(s1) \cup b /\ b \cap (Elements(s1) \cup s7) = {}
      /\ HeldOf(u) = HeldOf(s3) \ {h} /\ u[h] = 0
  <2>1. PoolRuns(s1, s2, s3, s5, s6, s7) /\ h \in PoolHandles /\ u = Given(s3, h, 0) BY <1>1, <1>4
  <2>2. PoolRuns(s1 \o r, s2, u, s5 \ Back(s3, h), s6, s7) BY ONLY <1>3, <2>1, PoolBack
  <2>3. GaveBack(s1, r, s3, u, h, s7) BY ONLY <1>3, <2>1, PoolBack
  <2> QED BY <1>1, <2>2, <2>3 DEF GaveBack
<1>7. s3 \in [PoolHandles -> 0..s6] /\ x # 0
  BY <1>4, <1>5 DEF PoolRuns, PoolSets
<1>8. PICK v, t : v = Given(u, h, x) /\ t = p \o r OBVIOUS
<1>9. /\ s1' = t /\ s3' = v /\ s4' = s4 \cup {h} /\ s5' = (s5 \ b) \cup {x}
      /\ s2' = s2 /\ s6' = s6 /\ s7' = s7
  <2>1. v = [s3 EXCEPT ![h] = x] BY <1>1, <1>7, <1>8 DEF Given
  <2> QED BY <1>1, <1>2, <1>3, <1>7, <1>8, <2>1
          DEF Objects!AcquireIdle, Objects!Holds
<1>10. /\ t \in Seq(Nat) /\ Distinct(t) /\ Elements(t) = Elements(q) \ {x} /\ Len(t) = Len(q) - 1
  <2>1. r \in Seq(Nat) /\ Distinct(r) /\ Elements(r) = b BY <1>1, <1>3 DEF IsBack
  <2>2. Elements(p) \cap Elements(r) = {} BY <1>5, <1>6, <2>1
  <2>3. t \in Seq(Nat) /\ Distinct(t) /\ Elements(t) = Elements(p) \cup Elements(r)
    BY <1>5, <1>8, <2>1, <2>2, ConcatDistinct
  <2>4. Len(t) = Len(p) + Len(r) BY ONLY <1>5, <1>8, <2>1, ConcatProperties
  <2>5. Len(s1) \in Nat /\ Len(r) \in Nat BY <1>4, <2>1
  <2>6. Len(t) = Len(q) - 1 BY <1>5, <1>6, <2>4, <2>5
  <2> QED BY <1>5, <1>6, <2>1, <2>3, <2>6
<1>11. x \in Elements(q) BY <1>5, <1>6
<1>12. PoolRuns(t, s2, v, (s5 \ b) \cup {x}, s6, s7) /\ HeldOf(v) = HeldOf(u) \cup {h}
  <2>1. PICK d : d = s5 \ b OBVIOUS
  <2>2. PoolRuns(q, s2, u, d, s6, s7) /\ u[h] = 0 /\ v = Given(u, h, x) BY <1>6, <1>8, <2>1
  <2>3. PoolRuns(t, s2, v, d \cup {x}, s6, s7) /\ HeldOf(v) = HeldOf(u) \cup {h}
    <3>1. t \in Seq(Nat) BY <1>10
    <3>2. Distinct(t) /\ Elements(t) = Elements(q) \ {x} /\ Len(t) = Len(q) - 1 BY <1>10
    <3>3. x \in Elements(q) BY <1>11
    <3>4. h \in PoolHandles OBVIOUS
    <3>5. PoolRuns(t, s2, v, d \cup {x}, s6, s7) BY ONLY <2>2, <3>1, <3>2, <3>3, <3>4, PoolTakes
    <3>6. Took(u, v, h) BY ONLY <2>2, <3>1, <3>2, <3>3, <3>4, PoolTakes
    <3> QED BY <3>5, <3>6 DEF Took
  <2> QED BY <2>1, <2>3
<1>13. HeldOf(v) = s4 \cup {h} BY <1>4, <1>6, <1>12
<1> QED BY <1>9, <1>12, <1>13 DEF PoolHolds

LEMMA PoolAcquiresNew ==
  ASSUME PoolHolds(s1, s2, s3, s4, s5, s6, s7), NEW h \in PoolHandles, Objects!AcquireNew(h)
  PROVE  PoolHolds(s1', s2', s3', s4', s5', s6', s7')
<1>1. PICK r, u, b, n, x : /\ r = Objects!Returned(h) /\ u = Given(s3, h, 0) /\ b = Back(s3, h)
                           /\ n = s2 + 1 /\ x = s6 + 1
  OBVIOUS
<1>2. IsBack(r, s3, h) /\ Objects!Cleaned(h) = s5 \ b BY <1>1, PoolReturned
<1>3. /\ s1 = <<>> /\ (PoolLimit = 0 \/ s2 < PoolLimit)
      /\ s2' = n /\ s6' = x /\ s7' = s7 /\ Objects!Holds(h, x, TRUE, s1)
  BY <1>1 DEF Objects!AcquireNew, Objects!MayCreate
<1>4. /\ PoolSets({}, 0, s2, s3, s5, s6, s7) /\ s4 = HeldOf(s3)
      /\ s6 \in Nat /\ s2 \in Int /\ s3 \in [PoolHandles -> 0..s6]
  <2>1. Elements(<<>>) = {} /\ Len(<<>>) = 0 BY DEF Elements
  <2>2. PoolSets(Elements(s1), Len(s1), s2, s3, s5, s6, s7) /\ s4 = HeldOf(s3)
    BY DEF PoolHolds, PoolRuns
  <2>3. PoolSets({}, 0, s2, s3, s5, s6, s7) BY <1>3, <2>1, <2>2
  <2> QED BY <2>2, <2>3 DEF PoolSets
<1>5. x \in Nat /\ x # 0 BY <1>1, <1>4
<1>6. PICK q : q = <<x>> OBVIOUS
<1>7. q \in Seq(Nat) /\ Distinct(q) /\ Elements(q) = {x} /\ Len(q) = 1
  BY <1>5, <1>6 DEF Distinct, Elements
<1>8. PoolRuns(q, n, s3, s5, x, s7)
  <2>1. PICK j \in Nat : j = 1 OBVIOUS
  <2>2. PoolLimit = 0 \/ s2 + j <= PoolLimit BY <1>3, <1>4, <2>1, ContainersAssumption
  <2>3. PoolSets({} \cup (s6 + 1..s6 + j), 0 + j, s2 + j, s3, s5, s6 + j, s7)
    BY <1>4, <2>2, PoolMake
  <2>4. s6 + 1..s6 + 1 = {x} BY <1>1, <1>4
  <2>5. PoolSets({x}, 1, n, s3, s5, x, s7) BY <1>1, <2>1, <2>3, <2>4
  <2> QED BY <1>7, <2>5 DEF PoolRuns
<1>9. PICK t : t = q \o r OBVIOUS
<1>10. PoolRuns(t, n, u, s5 \ b, x, s7) /\ GaveBack(q, r, s3, u, h, s7)
  <2>1. PoolRuns(q \o r, n, u, s5 \ Back(s3, h), x, s7) /\ GaveBack(q, r, s3, u, h, s7)
    BY ONLY <1>1, <1>2, <1>8, h \in PoolHandles, PoolBack
  <2> QED BY <1>1, <1>9, <2>1
<1>11. /\ Len(t) = 1 + Len(r) /\ Elements(t) = {x} \cup b /\ x \notin b
       /\ HeldOf(u) = HeldOf(s3) \ {h} /\ u[h] = 0
  BY <1>1, <1>7, <1>9, <1>10 DEF GaveBack
<1>12. /\ r \in Seq(Nat) /\ Distinct(r) /\ Elements(r) = b BY <1>1, <1>2 DEF IsBack
<1>13. PICK v : v = Given(u, h, x) OBVIOUS
<1>14. PoolRuns(r, n, v, (s5 \ b) \cup {x}, x, s7) /\ Took(u, v, h)
  <2>1. PICK d : d = s5 \ b OBVIOUS
  <2>2. PoolRuns(t, n, u, d, x, s7) /\ u[h] = 0 BY <1>10, <1>11, <2>1
  <2>3. x \in Elements(t) BY <1>11
  <2>4. Elements(r) = Elements(t) \ {x} BY <1>11, <1>12
  <2>5. Len(r) = Len(t) - 1
    <3>1. Len(r) \in Nat BY <1>12
    <3> QED BY <1>11, <3>1
  <2>6. h \in PoolHandles OBVIOUS
  <2>7. PoolRuns(r, n, v, d \cup {x}, x, s7) BY ONLY <1>12, <1>13, <2>2, <2>3, <2>4, <2>5, <2>6, PoolTakes
  <2>8. Took(u, v, h) BY ONLY <1>12, <1>13, <2>2, <2>3, <2>4, <2>5, <2>6, PoolTakes
  <2> QED BY <2>1, <2>7, <2>8
<1>15. HeldOf(v) = s4 \cup {h} BY <1>4, <1>11, <1>14 DEF Took
<1>16. s1' = r /\ s3' = v /\ s4' = s4 \cup {h} /\ s5' = (s5 \ b) \cup {x}
  <2>1. v = [s3 EXCEPT ![h] = x] BY <1>1, <1>4, <1>13 DEF Given
  <2>2. <<>> \o r = r BY <1>12, ConcatEmptySeq
  <2>3. /\ s1' = s1 \o r /\ s3' = [s3 EXCEPT ![h] = x] /\ s4' = s4 \cup {h}
        /\ s5' = Objects!Cleaned(h) \cup {x}
    BY <1>1, <1>3, <1>5 DEF Objects!Holds
  <2> QED BY <1>2, <1>3, <2>1, <2>2, <2>3
<1> QED BY <1>3, <1>14, <1>15, <1>16 DEF PoolHolds

LEMMA PoolMoves ==
  ASSUME PoolHolds(s1, s2, s3, s4, s5, s6, s7), NEW h \in PoolHandles, NEW g \in PoolHandles,
         Objects!MoveAssign(h, g)
  PROVE  PoolHolds(s1', s2', s3', s4', s5', s6', s7')
<1>1. PICK r, u, b, y : /\ r = Objects!Returned(h) /\ u = Given(s3, h, 0) /\ b = Back(s3, h)
                        /\ y = s3[g]
  OBVIOUS
<1>2. IsBack(r, s3, h) /\ Objects!Cleaned(h) = s5 \ b BY <1>1, PoolReturned
<1>3. PoolRuns(s1, s2, s3, s5, s6, s7) /\ s4 = HeldOf(s3) /\ h \in PoolHandles BY DEF PoolHolds
<1>4. PICK t, d : t = s1 \o r /\ d = s5 \ b OBVIOUS
<1>5. PoolRuns(t, s2, u, d, s6, s7) /\ GaveBack(s1, r, s3, u, h, s7)
  <2>1. PoolRuns(s1 \o r, s2, u, s5 \ Back(s3, h), s6, s7) /\ GaveBack(s1, r, s3, u, h, s7)
    BY ONLY <1>1, <1>2, <1>3, PoolBack
  <2> QED BY <1>1, <1>4, <2>1
<1>6. h # g /\ s3 \in [PoolHandles -> 0..s6] BY <1>3 DEF Objects!MoveAssign, PoolRuns, PoolSets
<1>7. u[h] = 0 /\ u[g] = y /\ HeldOf(u) = HeldOf(s3) \ {h} BY <1>1, <1>5, <1>6 DEF GaveBack, Given
<1>8. PICK v, w : v = Given(u, g, 0) /\ w = Given(v, h, y) OBVIOUS
<1>9. /\ s1' = t /\ s3' = w /\ s5' = d /\ s2' = s2 /\ s6' = s6 /\ s7' = s7
      /\ s4' = (s4 \ {h, g}) \cup (IF g \in s4 THEN {h} ELSE {})
  <2>1. w = [s3 EXCEPT ![h] = y, ![g] = 0] BY <1>1, <1>6, <1>8 DEF Given
  <2> QED BY <1>1, <1>2, <1>4, <2>1 DEF Objects!MoveAssign
<1>10. PICK idle, k : idle = Elements(t) /\ k = Len(t) OBVIOUS
<1>11. /\ PoolSets(idle, k, s2, u, d, s6, s7) /\ t \in Seq(Nat) /\ Distinct(t)
       /\ k \in Nat /\ d \subseteq 1..s6 /\ idle \cap d = {}
  BY <1>5, <1>10 DEF PoolRuns, PoolSets
<1>12. CASE y = 0
  <2>1. v = u /\ w = u BY <1>1, <1>6, <1>7, <1>8, <1>12 DEF Given
  <2>2. s4' = HeldOf(u) BY <1>1, <1>3, <1>7, <1>9, <1>12 DEF HeldOf
  <2> QED BY <1>5, <1>9, <2>1, <2>2 DEF PoolHolds
<1>13. CASE y # 0
  <2>1. g \in PoolHandles /\ y = u[g] /\ y # 0 BY <1>7, <1>13
  <2>2. PoolSets(idle \cup {y}, k + 1, s2, v, d \ {y}, s6, s7) /\ y \notin idle \cup s7
    <3>1. PoolSets(idle \cup {y}, k + 1, s2, v, d \ {y}, s6, s7)
      BY ONLY <1>8, <1>11, <2>1, PoolGiveBack
    <3>2. y \notin idle \cup s7 BY <1>11, <2>1 DEF PoolSets, HeldOf
    <3> QED BY <3>1, <3>2
  <2>3. PICK i, j, c : i = idle \cup {y} /\ j = k + 1 /\ c = d \ {y} OBVIOUS
  <2>4. PoolSets(i, j, s2, v, c, s6, s7) /\ j # 0 /\ y \in i BY <1>11, <2>2, <2>3
  <2>5. v[h] = 0 /\ HeldOf(v) = HeldOf(u) \ {g} /\ h \in PoolHandles
    BY <1>1, <1>6, <1>7, <1>8 DEF Given, HeldOf
  <2>6. PoolSets(i \ {y}, j - 1, s2, w, c \cup {y}, s6, s7) /\ HeldOf(w) = HeldOf(v) \cup {h}
    BY ONLY <1>8, <2>4, <2>5, PoolTake
  <2>7. i \ {y} = idle /\ j - 1 = k BY <1>11, <2>2, <2>3
  <2>8. PoolSets(idle, k, s2, w, c \cup {y}, s6, s7) BY <2>6, <2>7
  <2>9. PoolSets(idle, k, s2, w, d, s6, s7) BY <1>11, <2>8, PoolDirty
  <2>10. HeldOf(w) = s4' BY <1>1, <1>3, <1>7, <1>9, <1>13, <2>5, <2>6 DEF HeldOf
  <2> QED BY <1>9, <1>10, <1>11, <2>9, <2>10 DEF PoolHolds, PoolRuns
<1> QED BY <1>12, <1>13

LEMMA PoolReleases ==
  ASSUME PoolHolds(s1, s2, s3, s4, s5, s6, s7), NEW h \in PoolHandles, Objects!Release(h)
  PROVE  PoolHolds(s1', s2', s3', s4', s5', s6', s7')
<1>1. PICK idle, k, x, u : idle = Elements(s1) /\ k = Len(s1) /\ x = s3[h] /\ u = Given(s3, h, 0) OBVIOUS
<1>2. /\ s7' = s7 \cup {x} /\ s3' = u /\ s4' = s4 \ {h} /\ x # 0
      /\ s1' = s1 /\ s2' = s2 /\ s5' = s5 /\ s6' = s6
  BY <1>1 DEF Objects!Release, Given
<1>3. PoolSets(idle, k, s2, s3, s5, s6, s7) /\ s4 = HeldOf(s3) BY <1>1 DEF PoolHolds, PoolRuns
<1>4. h \in PoolHandles /\ x = s3[h] /\ x # 0 /\ u = Given(s3, h, 0) BY <1>1, <1>2
<1>5. PoolSets(idle \cup {x}, k + 1, s2, u, s5 \ {x}, s6, s7) /\ x \notin idle \cup s7
  BY ONLY <1>3, <1>4, PoolGiveBack
<1>6. /\ s6 \in Nat /\ k \in Nat /\ s2 \in Int /\ s7 \in SUBSET (1..s6) /\ x \in 1..s6
  BY <1>3, <1>5 DEF PoolSets
<1>7. Cardinality(s7 \cup {x}) = Cardinality(s7) + 1 /\ Cardinality(s7) \in Nat
      /\ Cardinality(HeldOf(u)) \in Nat
  <2>1. IsFiniteSet(s7) /\ Cardinality(s7) \in Nat /\ Cardinality(HeldOf(u)) \in Nat
    BY <1>6, PoolFinite
  <2>2. x \notin s7 BY <1>5
  <2>3. Cardinality(s7 \cup {x}) = Cardinality(s7) + 1 BY ONLY <2>1, <2>2, FS_AddElement
  <2> QED BY <2>1, <2>3
<1>8. s2 = k + Cardinality(HeldOf(u)) + Cardinality(s7 \cup {x})
  <2>1. s2 = (k + 1) + Cardinality(HeldOf(u)) + Cardinality(s7) BY <1>5 DEF PoolSets
  <2> QED BY <1>6, <1>7, <2>1
<1>9. PoolSets(idle, k, s2, u, s5, s6, s7 \cup {x})
  <2>1. \A g \in HeldOf(u) : u[g] \notin idle \cup (s7 \cup {x})
                            /\ \A f \in HeldOf(u) : u[f] = u[g] => f = g
    BY <1>5 DEF PoolSets
  <2>2. s5 \subseteq 1..s6 /\ s7 \cup {x} \subseteq 1..s6 /\ idle \subseteq 1..s6
        /\ idle \cap s5 = {} /\ idle \cap (s7 \cup {x}) = {} /\ u \in [PoolHandles -> 0..s6]
    BY <1>3, <1>5, <1>6 DEF PoolSets
  <2> QED BY <1>3, <1>6, <1>8, <2>1, <2>2 DEF PoolSets
<1>10. HeldOf(u) = HeldOf(s3) \ {h} BY <1>1, <1>3 DEF HeldOf, Given, PoolSets
<1> QED BY <1>1, <1>2, <1>3, <1>9, <1>10 DEF PoolHolds, PoolRuns

LEMMA PoolClears ==
  ASSUME PoolHolds(s1, s2, s3, s4, s5, s6, s7), Objects!Clear
  PROVE  PoolHolds(s1', s2', s3', s4', s5', s6', s7')
<1>1. PICK idle, k : idle = Elements(s1) /\ k = Len(s1) OBVIOUS
<1>2. /\ s1' = <<>> /\ s2' = s2 - k /\ s3' = s3 /\ s4' = s4 /\ s5' = s5 /\ s6' = s6 /\ s7' = s7
  BY <1>1 DEF Objects!Clear
<1>3. PoolSets(idle, k, s2, s3, s5, s6, s7) /\ s4 = HeldOf(s3) BY <1>1 DEF PoolHolds, PoolRuns
<1>4. /\ s6 \in Nat /\ k \in Nat /\ s2 \in Int /\ s7 \in SUBSET (1..s6) BY <1>3 DEF PoolSets
<1>5. Cardinality(HeldOf(s3)) \in Nat /\ Cardinality(s7) \in Nat BY <1>4, PoolFinite
<1>6. s2 - k = 0 + Cardinality(HeldOf(s3)) + Cardinality(s7) BY <1>3, <1>4, <1>5 DEF PoolSets
<1>7. PoolLimit > 0 => s2 - k <= PoolLimit \/ s2 - k <= PoolInitial
  BY <1>3, <1>4, ContainersAssumption DEF PoolSets
<1>8. PoolSets({}, 0, s2 - k, s3, s5, s6, s7) BY <1>3, <1>4, <1>6, <1>7 DEF PoolSets
<1>9. <<>> \in Seq(Nat) /\ Distinct(<<>>) /\ Elements(<<>>) = {} /\ Len(<<>>) = 0
  BY DEF Distinct, Elements
<1> QED BY <1>2, <1>3, <1>8, <1>9 DEF PoolHolds, PoolRuns

LEMMA PoolWarmsUp ==
  ASSUME PoolHolds(s1, s2, s3, s4, s5, s6, s7), NEW n \in 1..PoolObjects, Objects!WarmUp(n)
  PROVE  PoolHolds(s1', s2', s3', s4', s5', s6', s7')
<1>1. PICK idle, l : idle = Elements(s1) /\ l = Len(s1) OBVIOUS
<1>2. /\ PoolSets(idle, l, s2, s3, s5, s6, s7) /\ s4 = HeldOf(s3)
      /\ s1 \in Seq(Nat) /\ Distinct(s1)
  BY <1>1 DEF PoolHolds, PoolRuns
<1>3. s6 \in Nat /\ l \in Nat /\ s2 \in Int /\ idle \subseteq 1..s6 BY <1>2 DEF PoolSets
<1>4. PICK j \in Nat :
        /\ PoolLimit = 0 \/ s2 + j <= PoolLimit
        /\ s1' = s1 \o [i \in 1..j |-> s6 + i] /\ s6' = s6 + j /\ s2' = s2 + j
        /\ s3' = s3 /\ s4' = s4 /\ s5' = s5 /\ s7' = s7
  <2>1. PICK want, may, k :
          /\ want = n - l /\ may = IF PoolLimit = 0 THEN want ELSE PoolLimit - s2
          /\ k = IF want < may THEN want ELSE may
    OBVIOUS
  <2>2. want \in Int /\ may \in Int /\ k \in Int /\ k <= may
    <3>1. want \in Int /\ may \in Int BY <1>3, <2>1, ContainersAssumption
    <3> QED BY <2>1, <3>1
  <2>3. PoolLimit = 0 \/ s2 + k <= PoolLimit BY <1>3, <2>1, <2>2, ContainersAssumption
  <2>4. /\ k > 0 /\ s1' = s1 \o [i \in 1..k |-> s6 + i] /\ s6' = s6 + k /\ s2' = s2 + k
        /\ s3' = s3 /\ s4' = s4 /\ s5' = s5 /\ s7' = s7
    BY <1>1, <2>1 DEF Objects!WarmUp
  <2> QED BY <2>2, <2>3, <2>4
<1>5. PICK a : a = [i \in 1..j |-> s6 + i] OBVIOUS
<1>6. a \in [1..j -> Nat] /\ \A i \in 1..j : a[i] = s6 + i BY <1>3, <1>5
<1>7. a \in Seq(Nat) /\ Len(a) = j BY <1>6, SequenceOf
<1>8. Distinct(a)
  <2> SUFFICES ASSUME NEW i \in 1..j, NEW k \in 1..j, a[i] = a[k] PROVE i = k
    BY <1>7 DEF Distinct
  <2> QED BY <1>3, <1>6
<1>9. Elements(a) = s6 + 1..s6 + j
  <2>1. \A i \in 1..j : s6 + i \in s6 + 1..s6 + j BY <1>3
  <2>2. \A i \in s6 + 1..s6 + j : i - s6 \in 1..j /\ s6 + (i - s6) = i BY <1>3
  <2>3. Elements(a) \subseteq s6 + 1..s6 + j BY <1>6, <1>7, <2>1 DEF Elements
  <2>4. ASSUME NEW i \in s6 + 1..s6 + j PROVE i \in Elements(a)
    <3>1. i - s6 \in 1..j /\ a[i - s6] = i BY <1>6, <2>2
    <3> QED BY <1>7, <3>1 DEF Elements
  <2> QED BY <2>3, <2>4
<1>10. Elements(s1) \cap Elements(a) = {} BY <1>1, <1>3, <1>9
<1>11. s1' \in Seq(Nat) /\ Distinct(s1') /\ Elements(s1') = idle \cup (s6 + 1..s6 + j)
  <2>1. /\ s1 \o a \in Seq(Nat) /\ Distinct(s1 \o a)
        /\ Elements(s1 \o a) = Elements(s1) \cup Elements(a)
    BY ONLY <1>2, <1>7, <1>8, <1>10, ConcatDistinct
  <2> QED BY <1>1, <1>4, <1>5, <1>9, <2>1
<1>12. Len(s1') = l + j BY <1>1, <1>2, <1>4, <1>5, <1>7, ConcatProperties
<1>13. PoolSets(idle \cup (s6 + 1..s6 + j), l + j, s2 + j, s3, s5, s6 + j, s7)
  BY <1>2, <1>4, PoolMake
<1> QED BY <1>2, <1>4, <1>11, <1>12, <1>13 DEF PoolHolds, PoolRuns

LEMMA PoolStart == Objects!Init => Objects!Inv
<1> SUFFICES ASSUME Objects!Init PROVE Objects!Inv OBVIOUS
<1>1. PICK k \in Nat : k = PoolInitial BY ContainersAssumption
<1>2. s1 = [i \in 1..k |-> i] BY <1>1 DEF Objects!Init
<1>3. s1 \in [1..k -> Nat] /\ \A i \in 1..k : s1[i] = i BY <1>2
<1>4. s1 \in Seq(Nat) /\ Len(s1) = k BY <1>3, SequenceOf
<1>5. Distinct(s1) /\ Elements(s1) = 1..k BY <1>3, <1>4 DEF Distinct, Elements
<1>6. s2 = k /\ s6 = k /\ s4 = {} /\ s5 = {} /\ s7 = {} /\ s3 = [h \in PoolHandles |-> 0]
  BY <1>1 DEF Objects!Init
<1>7. HeldOf(s3) = {} BY <1>6 DEF HeldOf
<1>8. PoolSets(Elements(s1), Len(s1), s2, s3, s5, s6, s7)
  <2>1. k = k + Cardinality(HeldOf(s3)) + Cardinality({}) BY <1>7, FS_EmptySet
  <2>2. s3 \in [PoolHandles -> 0..k] BY <1>6
  <2>3. PoolLimit > 0 => k <= PoolLimit \/ k <= PoolInitial BY <1>1
  <2>4. PoolSets(1..k, k, k, s3, {}, k, {}) BY <1>7, <2>1, <2>2, <2>3 DEF PoolSets
  <2> QED BY <1>4, <1>5, <1>6, <2>4
<1>9. PoolHolds(s1, s2, s3, s4, s5, s6, s7) BY <1>4, <1>5, <1>6, <1>7, <1>8 DEF PoolHolds, PoolRuns
<1> QED BY <1>9, PoolAfter DEF Objects!Inv, Objects!PoolConserves, Objects!Held, HeldOf

LEMMA PoolKeeps ==
  ASSUME PoolHolds(s1', s2', s3', s4', s5', s6', s7')
  PROVE  Objects!Inv'
BY ONLY PoolHolds(s1', s2', s3', s4', s5', s6', s7'), PoolAfter, Zenon
   DEF Objects!Inv, Objects!PoolConserves, Objects!Held, HeldOf

LEMMA PoolStep ==
  ASSUME Objects!Inv, Objects!Next
  PROVE  Objects!Inv'
<1>1. PoolHolds(s1, s2, s3, s4, s5, s6, s7) BY PoolBefore
<1> SUFFICES PoolHolds(s1', s2', s3', s4', s5', s6', s7') BY PoolKeeps
<1>2. ASSUME NEW h \in PoolHandles, Objects!AcquireNothing(h) \/ Objects!Destroy(h)
      PROVE  PoolHolds(s1', s2', s3', s4', s5', s6', s7')
  BY <1>1, <1>2, PoolDestroys DEF Objects!AcquireNothing, Objects!Destroy
<1>3. ASSUME NEW h \in PoolHandles, Objects!AcquireIdle(h) \/ Objects!AcquireNew(h) \/ Objects!Release(h)
      PROVE  PoolHolds(s1', s2', s3', s4', s5', s6', s7')
  BY <1>1, <1>3, PoolAcquiresIdle, PoolAcquiresNew, PoolReleases
<1>4. ASSUME NEW h \in PoolHandles, NEW g \in PoolHandles, Objects!MoveAssign(h, g)
      PROVE  PoolHolds(s1', s2', s3', s4', s5', s6', s7')
  BY <1>1, <1>4, PoolMoves
<1>5. CASE Objects!Clear BY <1>1, <1>5, PoolClears
<1>6. ASSUME NEW n \in 1..PoolObjects, Objects!WarmUp(n)
      PROVE  PoolHolds(s1', s2', s3', s4', s5', s6', s7')
  BY <1>1, <1>6, PoolWarmsUp
<1> QED BY <1>2, <1>3, <1>4, <1>5, <1>6 DEF Objects!Next

LEMMA PoolStutters == Objects!Inv /\ UNCHANGED slots => Objects!Inv'
<1> SUFFICES ASSUME Objects!Inv, UNCHANGED slots PROVE Objects!Inv' OBVIOUS
<1>1. PoolHolds(s1', s2', s3', s4', s5', s6', s7') BY PoolBefore DEF slots
<1> QED BY <1>1, PoolKeeps

-----------------------------------------------------------------------------
(* LRUCache.  s1 capacity, s2 list, s3 map, s4 uses, s5 lastUse, s6 contents. *)

Entries == CacheKeys \X CacheValues
KeysIn(l) == {l[i][1] : i \in 1..Len(l)}

\* The list, of the values of the variables, is in the order of use and has the values put.
InOrder(l, last) == \A i, j \in 1..Len(l) : i < j => last[l[i][1]] > last[l[j][1]]
HasPut(l, put) == \A i \in 1..Len(l) : l[i][2] = put[l[i][1]]
CacheList(l, last, put) == l \in Seq(Entries) /\ InOrder(l, last) /\ HasPut(l, put)

\* Inv, of the values of the variables.
CacheHolds(c, l, m, u, last, put) ==
  /\ c \in CacheCapacities /\ u \in Nat
  /\ last \in [CacheKeys -> Nat] /\ (\A k \in CacheKeys : last[k] <= u)
  /\ put \in [CacheKeys -> CacheValues]
  /\ CacheList(l, last, put) /\ KeysIn(l) = m /\ Len(l) <= c

LEMMA CacheEntry ==
  ASSUME NEW l, l \in Seq(Entries)
  PROVE  /\ Len(l) \in Nat /\ DOMAIN l = 1..Len(l)
         /\ \A i \in 1..Len(l) : /\ l[i] \in Entries
                                 /\ l[i][1] \in CacheKeys /\ l[i][2] \in CacheValues
<1>1. \A i \in 1..Len(l) : l[i] \in Entries BY ElementOfSeq
<1> QED BY <1>1 DEF Entries

\* The keys of a list in the order of use are distinct.
LEMMA CacheDistinct ==
  ASSUME NEW l, NEW last \in [CacheKeys -> Nat], NEW put, CacheList(l, last, put),
         NEW i \in 1..Len(l), NEW j \in 1..Len(l), l[i][1] = l[j][1]
  PROVE  i = j
<1>1. l \in Seq(Entries) BY DEF CacheList
<1>2. l[i][1] \in CacheKeys /\ Len(l) \in Nat BY <1>1, CacheEntry
<1>3. PICK t \in Nat : t = last[l[i][1]] BY <1>2
<1>4. ~(i < j) /\ ~(j < i) BY <1>3 DEF CacheList, InOrder
<1> QED BY <1>2, <1>4

\* So there are as many keys as entries.
LEMMA CacheCount ==
  ASSUME NEW l, NEW last \in [CacheKeys -> Nat], NEW put, CacheList(l, last, put)
  PROVE  Cardinality(KeysIn(l)) = Len(l)
<1>1. PICK n \in Nat : n = Len(l) BY CacheEntry DEF CacheList
<1>2. PICK f : f = [i \in 1..n |-> l[i][1]] OBVIOUS
<1>3. \A i, j \in 1..n : f[i] = f[j] => i = j BY <1>1, <1>2, CacheDistinct
<1>4. f \in [1..n -> KeysIn(l)] /\ \A k \in KeysIn(l) : \E i \in 1..n : f[i] = k
  BY <1>1, <1>2 DEF KeysIn
<1>5. f \in Bijection(1..n, KeysIn(l)) BY <1>3, <1>4 DEF Bijection, Injection, Surjection, IsInjective
<1>6. IsFiniteSet(1..n) /\ Cardinality(1..n) = n BY FS_Interval
<1>7. ExistsBijection(1..n, KeysIn(l)) BY <1>5 DEF ExistsBijection
<1> QED BY <1>1, <1>6, <1>7, FS_Bijection

LEMMA CacheCardinality == \A S : LRU!Cardinality(S) = Cardinality(S)
BY DEF LRU!Cardinality, Cardinality

LEMMA CacheBefore == LRU!Inv => CacheHolds(s1, s2, s3, s4, s5, s6)
<1> SUFFICES ASSUME LRU!Inv PROVE CacheHolds(s1, s2, s3, s4, s5, s6) OBVIOUS
<1> USE DEF LRU!Inv, LRU!LeastRecentLeaves
<1>1. s2 \in Seq(Entries) BY DEF Entries
<1>2. DOMAIN s2 = 1..Len(s2) BY <1>1
<1>3. KeysIn(s2) = s3 BY <1>2 DEF KeysIn, LRU!KeysOf
<1>4. InOrder(s2, s5) /\ HasPut(s2, s6) BY <1>2 DEF InOrder, HasPut
<1> QED BY <1>1, <1>3, <1>4 DEF CacheHolds, CacheList

LEMMA CacheAfter ==
  ASSUME NEW c, NEW l, NEW m, NEW u, NEW last, NEW put, CacheHolds(c, l, m, u, last, put)
  PROVE  /\ c \in CacheCapacities /\ u \in Nat
         /\ l \in Seq(CacheKeys \X CacheValues)
         /\ last \in [CacheKeys -> Nat] /\ \A k \in CacheKeys : last[k] <= u
         /\ put \in [CacheKeys -> CacheValues]
         /\ Len(l) <= c /\ LRU!KeysOf(l) = m /\ LRU!Cardinality(m) = Len(l)
         /\ \A i, j \in DOMAIN l : i < j => last[l[i][1]] > last[l[j][1]]
         /\ \A i \in DOMAIN l : l[i][2] = put[l[i][1]]
<1>1. l \in Seq(Entries) /\ CacheList(l, last, put) /\ last \in [CacheKeys -> Nat]
  BY DEF CacheHolds, CacheList
<1>2. DOMAIN l = 1..Len(l) BY <1>1
<1>3. LRU!KeysOf(l) = m BY <1>2 DEF CacheHolds, KeysIn, LRU!KeysOf
<1>4. Cardinality(KeysIn(l)) = Len(l) BY <1>1, CacheCount
<1>5. LRU!Cardinality(m) = Len(l) BY <1>4, CacheCardinality DEF CacheHolds
<1> QED BY <1>1, <1>2, <1>3, <1>5 DEF CacheHolds, CacheList, InOrder, HasPut, Entries

\* p is what is left of l: its first m entries; all but the r-th; or all, behind k and v.
FirstOf(p, l, m, last, put) ==
  /\ CacheList(p, last, put) /\ Len(p) = m
  /\ KeysIn(p) = KeysIn(l) \ {l[i][1] : i \in {j \in 1..Len(l) : j > m}}
LessOne(p, l, r, last, put) ==
  /\ CacheList(p, last, put) /\ Len(p) = Len(l) - 1
  /\ KeysIn(p) = KeysIn(l) \ {l[r][1]}
PutBefore(p, l, k, v, u, last, put, last2, put2) ==
  CacheList(p, last2, put2) /\ Len(p) = Len(l) + 1 /\ KeysIn(p) = KeysIn(l) \cup {k}

\* The first m entries are still in order, and the keys of the others are gone.
LEMMA CachePrefix ==
  ASSUME NEW l, NEW last \in [CacheKeys -> Nat], NEW put, CacheList(l, last, put),
         NEW m \in 0..Len(l), NEW p, p = SubSeq(l, 1, m)
  PROVE  FirstOf(p, l, m, last, put)
<1>1. PICK n \in Nat : n = Len(l) /\ m \in 0..n BY CacheEntry DEF CacheList
<1>2. l \in Seq(Entries) /\ \A i \in 1..n : l[i] \in Entries BY <1>1, CacheEntry DEF CacheList
<1>3. p \in Seq(Entries) /\ Len(p) = m /\ \A i \in 1..m : p[i] = l[i]
  <2>1. \A i \in 1..m : l[i] \in Entries BY <1>1, <1>2
  <2>2. /\ SubSeq(l, 1, m) \in Seq(Entries) /\ Len(SubSeq(l, 1, m)) = IF 1 <= m THEN m - 1 + 1 ELSE 0
        /\ \A i \in 1..m - 1 + 1 : SubSeq(l, 1, m)[i] = l[1 + i - 1]
    BY <1>1, <2>1, SubSeqProperties
  <2> QED BY <1>1, <2>2
<1>4. \A i \in 1..m : i \in 1..n BY <1>1
<1>5. InOrder(p, last) /\ HasPut(p, put) BY <1>1, <1>3, <1>4 DEF CacheList, InOrder, HasPut
<1>6. ASSUME NEW i \in 1..m PROVE p[i][1] \notin {l[j][1] : j \in {k \in 1..Len(l) : k > m}}
  <2> SUFFICES ASSUME NEW j \in 1..n, j > m, l[i][1] = l[j][1] PROVE FALSE BY <1>1, <1>3
  <2>1. i \in 1..Len(l) /\ j \in 1..Len(l) BY <1>1, <1>4
  <2>2. i = j BY <2>1, CacheDistinct
  <2> QED BY <1>1, <2>2
<1>7. ASSUME NEW i \in 1..n, l[i][1] \notin {l[j][1] : j \in {k \in 1..Len(l) : k > m}}
      PROVE  l[i][1] \in KeysIn(p)
  <2>1. ~(i > m) BY <1>1, <1>7
  <2>2. i \in 1..m BY <1>1, <2>1
  <2> QED BY <1>3, <2>2 DEF KeysIn
<1>8. \A i \in 1..m : p[i][1] \in KeysIn(l) BY <1>1, <1>3, <1>4 DEF KeysIn
<1>9. KeysIn(p) \subseteq KeysIn(l) \ {l[i][1] : i \in {j \in 1..Len(l) : j > m}}
  BY <1>3, <1>6, <1>8 DEF KeysIn
<1>10. KeysIn(l) \ {l[i][1] : i \in {j \in 1..Len(l) : j > m}} \subseteq KeysIn(p)
  BY <1>1, <1>7 DEF KeysIn
<1> QED BY <1>3, <1>5, <1>9, <1>10 DEF CacheList, FirstOf

\* One entry goes, the others stay in order.
LEMMA CacheRemoved ==
  ASSUME NEW l, NEW last \in [CacheKeys -> Nat], NEW put, CacheList(l, last, put),
         NEW r \in 1..Len(l), NEW p, p = SubSeq(l, 1, r - 1) \o SubSeq(l, r + 1, Len(l))
  PROVE  LessOne(p, l, r, last, put)
<1>1. PICK n \in Nat : n = Len(l) /\ r \in 1..n BY CacheEntry DEF CacheList
<1>2. l \in Seq(Entries) /\ \A i \in 1..n : l[i] \in Entries BY <1>1, CacheEntry DEF CacheList
<1>3. PICK a, b : a = SubSeq(l, 1, r - 1) /\ b = SubSeq(l, r + 1, n) OBVIOUS
<1>4. a \in Seq(Entries) /\ Len(a) = r - 1 /\ \A i \in 1..r - 1 : a[i] = l[i]
  <2>1. PICK m \in 0..n : m = r - 1 BY <1>1
  <2>2. \A i \in 1..m : l[i] \in Entries BY <1>1, <1>2
  <2>3. /\ SubSeq(l, 1, m) \in Seq(Entries) /\ Len(SubSeq(l, 1, m)) = IF 1 <= m THEN m - 1 + 1 ELSE 0
        /\ \A i \in 1..m - 1 + 1 : SubSeq(l, 1, m)[i] = l[1 + i - 1]
    BY <1>1, <2>2, SubSeqProperties
  <2> QED BY <1>1, <1>3, <2>1, <2>3
<1>5. b \in Seq(Entries) /\ Len(b) = n - r /\ \A i \in 1..n - r : b[i] = l[r + i]
  <2>1. PICK k \in Int : k = r + 1 BY <1>1
  <2>2. \A i \in k..n : l[i] \in Entries BY <1>1, <1>2, <2>1
  <2>3. /\ SubSeq(l, k, n) \in Seq(Entries) /\ Len(SubSeq(l, k, n)) = IF k <= n THEN n - k + 1 ELSE 0
        /\ \A i \in 1..n - k + 1 : SubSeq(l, k, n)[i] = l[k + i - 1]
    BY <1>1, <2>1, <2>2, SubSeqProperties
  <2> QED BY <1>1, <1>3, <2>1, <2>3
<1>6. p = a \o b BY <1>1, <1>3
<1>7. p \in Seq(Entries) /\ Len(p) = n - 1
      /\ \A i \in 1..n - 1 : p[i] = IF i <= r - 1 THEN a[i] ELSE b[i - (r - 1)]
  <2>a. a \in Seq(Entries) /\ b \in Seq(Entries) BY <1>4, <1>5
  <2>b. /\ a \o b \in Seq(Entries) /\ Len(a \o b) = Len(a) + Len(b)
        /\ \A i \in 1..Len(a) + Len(b) : (a \o b)[i] = IF i <= Len(a) THEN a[i] ELSE b[i - Len(a)]
    BY ONLY <2>a, ConcatProperties
  <2>1. /\ p \in Seq(Entries) /\ Len(p) = Len(a) + Len(b)
        /\ \A i \in 1..Len(a) + Len(b) : p[i] = IF i <= Len(a) THEN a[i] ELSE b[i - Len(a)]
    BY <1>6, <2>b
  <2>2. (r - 1) + (n - r) = n - 1 BY <1>1
  <2> QED BY <1>4, <1>5, <2>1, <2>2
<1>8. ASSUME NEW i \in 1..n - 1
      PROVE  /\ i < r => p[i] = l[i] /\ i \in 1..n
             /\ ~(i < r) => p[i] = l[i + 1] /\ i + 1 \in 1..n
  <2>1. CASE i < r
    <3>1. i <= r - 1 /\ i \in 1..r - 1 /\ i \in 1..n BY <1>1, <2>1
    <3> QED BY <1>4, <1>7, <2>1, <3>1
  <2>2. CASE ~(i < r)
    <3>1. ~(i <= r - 1) /\ i - (r - 1) \in 1..n - r /\ r + (i - (r - 1)) = i + 1 /\ i + 1 \in 1..n
      BY <1>1, <2>2
    <3>2. p[i] = b[i - (r - 1)] BY <1>7, <3>1
    <3>3. b[i - (r - 1)] = l[r + (i - (r - 1))] BY <1>5, <3>1
    <3> QED BY <2>2, <3>1, <3>2, <3>3
  <2> QED BY <2>1, <2>2
<1>9. ASSUME NEW i \in 1..n - 1
      PROVE  \E k \in 1..n : p[i] = l[k] /\ k # r /\ ((k = i /\ i < r) \/ (k = i + 1 /\ ~(i < r)))
  <2>1. CASE i < r
    <3>1. i \in 1..n /\ p[i] = l[i] BY <1>8, <2>1
    <3>2. i # r BY <1>1, <2>1
    <3> QED BY <2>1, <3>1, <3>2
  <2>2. CASE ~(i < r)
    <3>1. i + 1 \in 1..n /\ p[i] = l[i + 1] BY <1>8, <2>2
    <3>2. i + 1 # r BY <1>1, <2>2
    <3> QED BY <2>2, <3>1, <3>2
  <2> QED BY <2>1, <2>2
<1>10. InOrder(p, last)
  <2> SUFFICES ASSUME NEW i \in 1..n - 1, NEW j \in 1..n - 1, i < j
               PROVE  last[p[i][1]] > last[p[j][1]]
    BY <1>7 DEF InOrder
  <2>1. PICK f \in 1..n : p[i] = l[f] /\ ((f = i /\ i < r) \/ (f = i + 1 /\ ~(i < r))) BY <1>9
  <2>2. PICK g \in 1..n : p[j] = l[g] /\ ((g = j /\ j < r) \/ (g = j + 1 /\ ~(j < r))) BY <1>9
  <2>3. f < g BY <1>1, <2>1, <2>2
  <2> QED BY <1>1, <2>1, <2>2, <2>3 DEF CacheList, InOrder
<1>11. HasPut(p, put)
  <2> SUFFICES ASSUME NEW i \in 1..n - 1 PROVE p[i][2] = put[p[i][1]] BY <1>7 DEF HasPut
  <2>1. PICK k \in 1..n : p[i] = l[k] BY <1>9
  <2> QED BY <1>1, <2>1 DEF CacheList, HasPut
<1>12. ASSUME NEW i \in 1..n - 1 PROVE p[i][1] \in KeysIn(l) /\ p[i][1] # l[r][1]
  <2>1. PICK k \in 1..n : p[i] = l[k] /\ k # r BY <1>9
  <2>2. k \in 1..Len(l) /\ r \in 1..Len(l) BY <1>1
  <2>3. l[k][1] # l[r][1] BY <2>1, <2>2, CacheDistinct
  <2> QED BY <2>1, <2>2, <2>3 DEF KeysIn
<1>13. ASSUME NEW k \in 1..n, k # r PROVE l[k][1] \in KeysIn(p)
  <2>1. CASE k < r
    <3>1. k \in 1..n - 1 BY <1>1, <2>1
    <3> QED BY <1>7, <1>8, <2>1, <3>1 DEF KeysIn
  <2>2. CASE ~(k < r)
    <3>1. k - 1 \in 1..n - 1 /\ ~(k - 1 < r) /\ (k - 1) + 1 = k BY <1>1, <1>13, <2>2
    <3>2. p[k - 1] = l[k] BY <1>8, <3>1
    <3> QED BY <1>7, <3>1, <3>2 DEF KeysIn
  <2> QED BY <2>1, <2>2
<1>14. KeysIn(p) \subseteq KeysIn(l) \ {l[r][1]}
  <2>1. KeysIn(p) = {p[i][1] : i \in 1..n - 1} BY <1>7 DEF KeysIn
  <2> SUFFICES ASSUME NEW i \in 1..n - 1 PROVE p[i][1] \in KeysIn(l) \ {l[r][1]} BY <2>1
  <2> QED BY <1>12
<1>15. KeysIn(l) \ {l[r][1]} \subseteq KeysIn(p) BY <1>1, <1>13 DEF KeysIn
<1> QED BY <1>1, <1>7, <1>10, <1>11, <1>14, <1>15 DEF CacheList, LessOne

\* The key used now goes to the front, with what is put.
LEMMA CacheInFront ==
  ASSUME NEW l, NEW last \in [CacheKeys -> Nat], NEW put \in [CacheKeys -> CacheValues],
         CacheList(l, last, put),
         NEW k \in CacheKeys, NEW v \in CacheValues, k \notin KeysIn(l),
         NEW u \in Nat, \A x \in CacheKeys : last[x] <= u,
         NEW last2 \in [CacheKeys -> Nat], last2[k] = u + 1,
         \A x \in CacheKeys \ {k} : last2[x] = last[x],
         NEW put2 \in [CacheKeys -> CacheValues], put2[k] = v,
         \A x \in CacheKeys \ {k} : put2[x] = put[x],
         NEW p, p = <<<<k, v>>>> \o l
  PROVE  PutBefore(p, l, k, v, u, last, put, last2, put2)
<1>1. PICK n \in Nat : n = Len(l) BY CacheEntry DEF CacheList
<1>2. /\ l \in Seq(Entries) /\ \A i \in 1..n : l[i][1] \in CacheKeys BY <1>1, CacheEntry DEF CacheList
<1>3. PICK a : a = <<<<k, v>>>> OBVIOUS
<1>4. a \in Seq(Entries) /\ Len(a) = 1 /\ a[1] = <<k, v>> BY <1>3 DEF Entries
<1>5. /\ a \o l \in Seq(Entries) /\ Len(a \o l) = Len(a) + Len(l)
      /\ \A i \in 1..Len(a) + Len(l) : (a \o l)[i] = IF i <= Len(a) THEN a[i] ELSE l[i - Len(a)]
  BY ONLY <1>2, <1>4, ConcatProperties
<1>6. /\ p \in Seq(Entries) /\ Len(p) = n + 1
      /\ \A i \in 1..n + 1 : p[i] = IF i <= 1 THEN a[i] ELSE l[i - 1]
  BY <1>1, <1>3, <1>4, <1>5
<1>7. p[1] = <<k, v>> /\ p[1][1] = k /\ p[1][2] = v BY <1>4, <1>6
<1>8. \A i \in 2..n + 1 : p[i] = l[i - 1] /\ i - 1 \in 1..n BY <1>1, <1>6
<1>9. ASSUME NEW i \in 1..n
      PROVE  /\ l[i][1] \in CacheKeys \ {k} /\ l[i][1] \in KeysIn(l)
             /\ last2[l[i][1]] = last[l[i][1]] /\ put2[l[i][1]] = put[l[i][1]]
  <2>1. l[i][1] \in KeysIn(l) BY <1>1 DEF KeysIn
  <2>2. l[i][1] \in CacheKeys \ {k} BY <1>2, <2>1
  <2> QED BY <2>1, <2>2
<1>10. ASSUME NEW i \in 1..n + 1, NEW j \in 1..n + 1, i < j
       PROVE  last2[p[i][1]] > last2[p[j][1]]
  <2>1. j \in 2..n + 1 /\ p[j] = l[j - 1] /\ j - 1 \in 1..n BY <1>1, <1>8, <1>10
  <2>2. PICK g \in 1..n : g = j - 1 BY <2>1
  <2>3. CASE i = 1
    <3>1. last2[p[i][1]] = u + 1 BY <1>7, <2>3
    <3>2. last[l[g][1]] <= u /\ last[l[g][1]] \in Nat BY <1>9
    <3>3. last2[p[j][1]] = last[l[g][1]] BY <1>9, <2>1, <2>2
    <3> QED BY <3>1, <3>2, <3>3
  <2>4. CASE i # 1
    <3>1. i \in 2..n + 1 /\ p[i] = l[i - 1] /\ i - 1 \in 1..n BY <1>1, <1>8, <2>4
    <3>2. PICK f \in 1..n : f = i - 1 BY <3>1
    <3>3. f < g BY <1>10, <2>2, <3>2
    <3>4. last[l[f][1]] > last[l[g][1]] BY <1>1, <3>3 DEF CacheList, InOrder
    <3>5. last2[p[i][1]] = last[l[f][1]] /\ last2[p[j][1]] = last[l[g][1]]
      BY <1>9, <2>1, <2>2, <3>1, <3>2
    <3> QED BY <3>4, <3>5
  <2> QED BY <2>3, <2>4
<1>11. InOrder(p, last2) BY <1>6, <1>10 DEF InOrder
<1>12. ASSUME NEW i \in 1..n + 1 PROVE p[i][2] = put2[p[i][1]]
  <2>1. CASE i = 1 BY <1>7, <2>1
  <2>2. CASE i # 1
    <3>1. i \in 2..n + 1 /\ p[i] = l[i - 1] /\ i - 1 \in 1..n BY <1>1, <1>8, <2>2
    <3>2. PICK f \in 1..n : f = i - 1 BY <3>1
    <3>3. l[f][2] = put[l[f][1]] BY <1>1 DEF CacheList, HasPut
    <3> QED BY <1>9, <3>1, <3>2, <3>3
  <2> QED BY <2>1, <2>2
<1>13. HasPut(p, put2) BY <1>6, <1>12 DEF HasPut
<1>14. KeysIn(p) = {p[i][1] : i \in 1..n + 1} BY <1>6 DEF KeysIn
<1>15. ASSUME NEW i \in 1..n + 1 PROVE p[i][1] \in KeysIn(l) \cup {k}
  <2>1. CASE i = 1 BY <1>7, <2>1
  <2>2. CASE i # 1
    <3>1. i \in 2..n + 1 /\ p[i] = l[i - 1] /\ i - 1 \in 1..n BY <1>1, <1>8, <2>2
    <3> QED BY <1>9, <3>1
  <2> QED BY <2>1, <2>2
<1>16. k \in KeysIn(p)
  <2>1. 1 \in 1..n + 1 BY <1>1
  <2> QED BY ONLY <1>7, <1>14, <2>1, Zenon
<1>17. ASSUME NEW i \in 1..n PROVE l[i][1] \in KeysIn(p)
  <2>1. i + 1 \in 1..n + 1 /\ i + 1 \in 2..n + 1 /\ (i + 1) - 1 = i BY <1>1
  <2>2. p[i + 1] = l[i] BY <1>8, <2>1
  <2>3. p[i + 1][1] \in KeysIn(p) BY ONLY <1>14, <2>1, Zenon
  <2> QED BY ONLY <2>2, <2>3, Zenon
<1>18. KeysIn(p) \subseteq KeysIn(l) \cup {k} BY ONLY <1>14, <1>15, Zenon
<1>19. KeysIn(l) = {l[i][1] : i \in 1..n} BY <1>1 DEF KeysIn
<1>20. KeysIn(l) \cup {k} \subseteq KeysIn(p) BY ONLY <1>16, <1>17, <1>19, Zenon
<1> QED BY <1>1, <1>6, <1>11, <1>13, <1>18, <1>20 DEF CacheList, PutBefore

\* A use of k, after the others that stay are l0: put and get.
LEMMA CacheUsed ==
  ASSUME NEW c, NEW l, NEW m, NEW u, NEW last, NEW put, CacheHolds(c, l, m, u, last, put),
         NEW l0, CacheList(l0, last, put), Len(l0) < c,
         NEW k \in CacheKeys, NEW v \in CacheValues, k \notin KeysIn(l0),
         NEW put2 \in [CacheKeys -> CacheValues], put2[k] = v,
         \A x \in CacheKeys \ {k} : put2[x] = put[x]
  PROVE  CacheHolds(c, <<<<k, v>>>> \o l0, KeysIn(l0) \cup {k}, u + 1, [last EXCEPT ![k] = u + 1], put2)
<1>1. /\ u \in Nat /\ last \in [CacheKeys -> Nat] /\ put \in [CacheKeys -> CacheValues]
      /\ c \in CacheCapacities /\ \A x \in CacheKeys : last[x] <= u
  BY DEF CacheHolds
<1>2. PICK last2 : last2 = [last EXCEPT ![k] = u + 1] OBVIOUS
<1>3. /\ last2 \in [CacheKeys -> Nat] /\ last2[k] = u + 1
      /\ \A x \in CacheKeys \ {k} : last2[x] = last[x]
  BY <1>1, <1>2
<1>4. \A x \in CacheKeys : last2[x] <= u + 1 BY <1>1, <1>3
<1>5. PICK p : p = <<<<k, v>>>> \o l0 OBVIOUS
<1>a. /\ CacheList(l0, last, put) /\ k \in CacheKeys /\ v \in CacheValues /\ k \notin KeysIn(l0)
      /\ put2 \in [CacheKeys -> CacheValues] /\ put2[k] = v
      /\ \A x \in CacheKeys \ {k} : put2[x] = put[x]
  OBVIOUS
<1>b. PutBefore(p, l0, k, v, u, last, put, last2, put2) BY ONLY <1>1, <1>3, <1>5, <1>a, CacheInFront
<1>6. CacheList(p, last2, put2) /\ Len(p) = Len(l0) + 1 /\ KeysIn(p) = KeysIn(l0) \cup {k}
  BY <1>b DEF PutBefore
<1>7. Len(l0) \in Nat /\ c \in Nat BY <1>1, CacheEntry, ContainersAssumption DEF CacheList
<1>8. Len(p) <= c /\ u + 1 \in Nat BY <1>1, <1>6, <1>7
<1> QED BY <1>1, <1>2, <1>3, <1>4, <1>5, <1>6, <1>8 DEF CacheHolds

\* The place of a key that is there.
LEMMA CachePlace ==
  ASSUME CacheHolds(s1, s2, s3, s4, s5, s6), NEW k \in s3
  PROVE  /\ LRU!Place(k) \in 1..Len(s2) /\ s2[LRU!Place(k)][1] = k /\ k \in CacheKeys
         /\ s2[LRU!Place(k)] = <<k, s6[k]>> /\ s6[k] \in CacheValues
<1>1. s2 \in Seq(Entries) /\ KeysIn(s2) = s3 /\ HasPut(s2, s6) BY DEF CacheHolds, CacheList
<1>2. DOMAIN s2 = 1..Len(s2) BY <1>1
<1>3. \E i \in DOMAIN s2 : s2[i][1] = k BY <1>1, <1>2 DEF KeysIn
<1>4. PICK r : r = LRU!Place(k) OBVIOUS
<1>5. r \in 1..Len(s2) /\ s2[r][1] = k BY <1>2, <1>3, <1>4 DEF LRU!Place
<1>6. s2[r] \in Entries /\ s2[r][1] \in CacheKeys /\ s2[r][2] \in CacheValues BY <1>1, <1>5, CacheEntry
<1>7. s2[r][2] = s6[k] BY <1>1, <1>5 DEF HasPut
<1>8. s2[r] = <<s2[r][1], s2[r][2]>> BY <1>6 DEF Entries
<1> QED BY <1>4, <1>5, <1>6, <1>7, <1>8

\* What is left without it.
LEMMA CacheWithout ==
  ASSUME CacheHolds(s1, s2, s3, s4, s5, s6), NEW k \in s3, NEW p, p = LRU!Without(LRU!Place(k))
  PROVE  CacheList(p, s5, s6) /\ Len(p) < s1 /\ KeysIn(p) = s3 \ {k}
<1>1. PICK r \in 1..Len(s2) : r = LRU!Place(k) /\ s2[r][1] = k BY CachePlace
<1>2. CacheList(s2, s5, s6) /\ s5 \in [CacheKeys -> Nat] /\ KeysIn(s2) = s3 /\ Len(s2) <= s1
  BY DEF CacheHolds
<1>3. p = SubSeq(s2, 1, r - 1) \o SubSeq(s2, r + 1, Len(s2)) BY <1>1 DEF LRU!Without
<1>a. r \in 1..Len(s2) OBVIOUS
<1>4. CacheList(p, s5, s6) /\ Len(p) = Len(s2) - 1 /\ KeysIn(p) = KeysIn(s2) \ {s2[r][1]}
  <2>1. LessOne(p, s2, r, s5, s6) BY ONLY <1>a, <1>2, <1>3, CacheRemoved
  <2> QED BY <2>1 DEF LessOne
<1>5. Len(s2) \in Nat /\ s1 \in Nat BY CacheEntry, ContainersAssumption DEF CacheHolds, CacheList
<1> QED BY <1>1, <1>2, <1>4, <1>5

\* What is left after n evictions.
LEMMA CacheEvicted ==
  ASSUME CacheHolds(s1, s2, s3, s4, s5, s6), NEW n \in 0..Len(s2), NEW p, p = LRU!Evicted(n)
  PROVE  CacheList(p, s5, s6) /\ Len(p) = Len(s2) - n /\ KeysIn(p) = s3 \ LRU!Surplus(n)
<1>1. CacheList(s2, s5, s6) /\ s5 \in [CacheKeys -> Nat] /\ KeysIn(s2) = s3 BY DEF CacheHolds
<1>2. Len(s2) \in Nat /\ DOMAIN s2 = 1..Len(s2) BY <1>1, CacheEntry DEF CacheList
<1>a. PICK e \in Nat : e = Len(s2) /\ n \in 0..e BY <1>2
<1>b. PICK m \in 0..e : m = e - n BY <1>a
<1>3. m \in 0..Len(s2) /\ m = Len(s2) - n BY <1>a, <1>b
<1>4. p = SubSeq(s2, 1, m)
  <2>1. CASE n < Len(s2) BY <1>3, <2>1 DEF LRU!Evicted
  <2>2. CASE ~(n < Len(s2))
    <3>1. m = 0 BY <1>a, <1>b, <2>2
    <3> QED BY <2>2, <3>1 DEF LRU!Evicted
  <2> QED BY <2>1, <2>2
<1>5. LRU!Surplus(n) = {s2[i][1] : i \in {j \in 1..Len(s2) : j > m}} BY <1>2, <1>3 DEF LRU!Surplus
<1>6. /\ CacheList(p, s5, s6) /\ Len(p) = m
      /\ KeysIn(p) = KeysIn(s2) \ {s2[i][1] : i \in {j \in 1..Len(s2) : j > m}}
  <2>1. FirstOf(p, s2, m, s5, s6) BY ONLY <1>1, <1>3, <1>4, CachePrefix
  <2> QED BY <2>1 DEF FirstOf
<1> QED BY <1>1, <1>3, <1>5, <1>6

LEMMA CacheSize ==
  ASSUME CacheHolds(s1, s2, s3, s4, s5, s6)
  PROVE  /\ LRU!Cardinality(s3) = Len(s2) /\ Len(s2) \in Nat /\ s1 \in Nat \ {0} /\ Len(s2) <= s1
<1>1. CacheList(s2, s5, s6) /\ s5 \in [CacheKeys -> Nat] /\ KeysIn(s2) = s3 /\ Len(s2) <= s1
  BY DEF CacheHolds
<1>2. Len(s2) \in Nat /\ s1 \in Nat \ {0} BY <1>1, CacheEntry, ContainersAssumption DEF CacheHolds, CacheList
<1> QED BY <1>1, <1>2, CacheCount, CacheCardinality

LEMMA CacheGets ==
  ASSUME CacheHolds(s1, s2, s3, s4, s5, s6), NEW k \in CacheKeys, LRU!Get(k)
  PROVE  CacheHolds(s1', s2', s3', s4', s5', s6')
<1>1. k \in s3 /\ s1' = s1 /\ s3' = s3 /\ s6' = s6 BY DEF LRU!Get
<1>2. s4' = s4 + 1 /\ s5' = [s5 EXCEPT ![k] = s4 + 1] BY DEF LRU!Get, LRU!Use
<1>3. PICK p : p = LRU!Without(LRU!Place(k)) OBVIOUS
<1>4. CacheList(p, s5, s6) /\ Len(p) < s1 /\ KeysIn(p) = s3 \ {k} BY <1>1, <1>3, CacheWithout
<1>5. s2[LRU!Place(k)] = <<k, s6[k]>> /\ s6[k] \in CacheValues BY <1>1, CachePlace
<1>6. s2' = <<<<k, s6[k]>>>> \o p BY <1>3, <1>5 DEF LRU!Get, LRU!ToFront
<1>7. s6 \in [CacheKeys -> CacheValues] BY DEF CacheHolds
<1>8. k \notin KeysIn(p) /\ s3' = KeysIn(p) \cup {k} BY <1>1, <1>4
<1>9. CacheHolds(s1, <<<<k, s6[k]>>>> \o p, KeysIn(p) \cup {k}, s4 + 1, [s5 EXCEPT ![k] = s4 + 1], s6)
  BY <1>4, <1>5, <1>7, <1>8, CacheUsed
<1> QED BY ONLY <1>1, <1>2, <1>6, <1>8, <1>9, Zenon

\* What is put goes in front of what stays.
LEMMA CachePuts ==
  ASSUME CacheHolds(s1, s2, s3, s4, s5, s6), NEW k \in CacheKeys, NEW v \in CacheValues, LRU!Use(k),
         s6' = [s6 EXCEPT ![k] = v], s1' = s1,
         NEW p, CacheList(p, s5, s6), Len(p) < s1, k \notin KeysIn(p),
         s2' = <<<<k, v>>>> \o p, s3' = KeysIn(p) \cup {k}
  PROVE  CacheHolds(s1', s2', s3', s4', s5', s6')
<1>1. s4' = s4 + 1 /\ s5' = [s5 EXCEPT ![k] = s4 + 1] BY DEF LRU!Use
<1>2. PICK put2 : put2 = [s6 EXCEPT ![k] = v] OBVIOUS
<1>3. s6 \in [CacheKeys -> CacheValues] BY DEF CacheHolds
<1>4. /\ put2 \in [CacheKeys -> CacheValues] /\ put2[k] = v
      /\ \A x \in CacheKeys \ {k} : put2[x] = s6[x]
  BY <1>2, <1>3
<1>5. CacheHolds(s1, <<<<k, v>>>> \o p, KeysIn(p) \cup {k}, s4 + 1, [s5 EXCEPT ![k] = s4 + 1], put2)
  BY <1>4, CacheUsed
<1>6. s6' = put2 BY <1>2
<1>7. s1' = s1 /\ s2' = <<<<k, v>>>> \o p /\ s3' = KeysIn(p) \cup {k} OBVIOUS
<1> QED BY ONLY <1>1, <1>5, <1>6, <1>7, Zenon

LEMMA CacheInserts ==
  ASSUME CacheHolds(s1, s2, s3, s4, s5, s6), NEW k \in CacheKeys, NEW v \in CacheValues,
         LRU!Use(k), k \notin s3, LRU!Insert(k, v), s6' = [s6 EXCEPT ![k] = v], s1' = s1
  PROVE  CacheHolds(s1', s2', s3', s4', s5', s6')
<1>1. /\ LRU!Cardinality(s3) = Len(s2) /\ Len(s2) \in Nat /\ s1 \in Nat \ {0} /\ Len(s2) <= s1
  BY CacheSize
<1>2. PICK n : n = IF LRU!MustEvict THEN 1 ELSE 0 OBVIOUS
<1>3. n \in 0..Len(s2) /\ Len(s2) - n < s1 BY <1>1, <1>2 DEF LRU!MustEvict
<1>4. PICK p : p = LRU!Evicted(n) OBVIOUS
<1>5. s2' = <<<<k, v>>>> \o p /\ s3' = (s3 \ LRU!Surplus(n)) \cup {k} BY <1>2, <1>4 DEF LRU!Insert
<1>6. CacheList(p, s5, s6) /\ Len(p) = Len(s2) - n /\ KeysIn(p) = s3 \ LRU!Surplus(n)
  BY <1>3, <1>4, CacheEvicted
<1>7. Len(p) < s1 /\ k \notin KeysIn(p) /\ s3' = KeysIn(p) \cup {k} BY <1>3, <1>5, <1>6
<1> QED BY <1>5, <1>6, <1>7, CachePuts

LEMMA CachePutsThere ==
  ASSUME CacheHolds(s1, s2, s3, s4, s5, s6), NEW k \in CacheKeys, NEW v \in CacheValues,
         k \in s3, LRU!Put(k, v)
  PROVE  CacheHolds(s1', s2', s3', s4', s5', s6')
<1>1. LRU!Use(k) /\ s6' = [s6 EXCEPT ![k] = v] /\ s1' = s1 /\ s3' = s3 BY DEF LRU!Put
<1>2. PICK p : p = LRU!Without(LRU!Place(k)) OBVIOUS
<1>3. CacheList(p, s5, s6) /\ Len(p) < s1 /\ KeysIn(p) = s3 \ {k} BY <1>2, CacheWithout
<1>4. s2' = <<<<k, v>>>> \o p BY <1>2 DEF LRU!Put, LRU!ToFront
<1>5. k \notin KeysIn(p) /\ s3' = KeysIn(p) \cup {k} BY <1>1, <1>3
<1> QED BY <1>1, <1>3, <1>4, <1>5, CachePuts

LEMMA CacheErases ==
  ASSUME CacheHolds(s1, s2, s3, s4, s5, s6), NEW k \in CacheKeys, LRU!Erase(k)
  PROVE  CacheHolds(s1', s2', s3', s4', s5', s6')
<1>1. /\ k \in s3 /\ s1' = s1 /\ s4' = s4 /\ s5' = s5 /\ s6' = s6 /\ s3' = s3 \ {k}
      /\ s2' = LRU!Without(LRU!Place(k))
  BY DEF LRU!Erase
<1>2. CacheList(s2', s5, s6) /\ Len(s2') < s1 /\ KeysIn(s2') = s3 \ {k} BY <1>1, CacheWithout
<1>3. Len(s2') \in Nat /\ s1 \in Nat BY <1>2, CacheEntry, CacheSize DEF CacheList
<1>4. Len(s2') <= s1 BY <1>2, <1>3
<1> QED BY <1>1, <1>2, <1>4 DEF CacheHolds

LEMMA CacheEmpty ==
  ASSUME NEW last, NEW put
  PROVE  CacheList(<<>>, last, put) /\ KeysIn(<<>>) = {} /\ Len(<<>>) = 0
BY DEF CacheList, InOrder, HasPut, KeysIn

LEMMA CacheClears ==
  ASSUME CacheHolds(s1, s2, s3, s4, s5, s6), LRU!Clear
  PROVE  CacheHolds(s1', s2', s3', s4', s5', s6')
<1>1. s1' = s1 /\ s4' = s4 /\ s5' = s5 /\ s6' = s6 /\ s3' = {} /\ s2' = <<>> BY DEF LRU!Clear
<1>2. s1 \in Nat BY CacheSize
<1>3. 0 <= s1 BY <1>2
<1>4. CacheList(s2', s5, s6) /\ KeysIn(s2') = s3' /\ Len(s2') <= s1 BY <1>1, <1>3, CacheEmpty
<1> QED BY <1>1, <1>4 DEF CacheHolds

LEMMA CacheResizes ==
  ASSUME CacheHolds(s1, s2, s3, s4, s5, s6), NEW n \in CacheCapacities, LRU!Resize(n)
  PROVE  CacheHolds(s1', s2', s3', s4', s5', s6')
<1>1. /\ LRU!Cardinality(s3) = Len(s2) /\ Len(s2) \in Nat BY CacheSize
<1>2. n \in Nat BY ContainersAssumption
<1>3. PICK over : over = IF LRU!Cardinality(s3) > n THEN LRU!Cardinality(s3) - n ELSE 0 OBVIOUS
<1>4. over \in 0..Len(s2) /\ Len(s2) - over <= n BY <1>1, <1>2, <1>3
<1>5. /\ s1' = n /\ s4' = s4 /\ s5' = s5 /\ s6' = s6
      /\ s2' = LRU!Evicted(over) /\ s3' = s3 \ LRU!Surplus(over)
  BY <1>3 DEF LRU!Resize
<1>6. CacheList(s2', s5, s6) /\ Len(s2') = Len(s2) - over /\ KeysIn(s2') = s3 \ LRU!Surplus(over)
  BY <1>4, <1>5, CacheEvicted
<1> QED BY <1>4, <1>5, <1>6 DEF CacheHolds

LEMMA CacheKeeps ==
  ASSUME CacheHolds(s1', s2', s3', s4', s5', s6')
  PROVE  LRU!Inv'
<1>7.    /\ s1' \in CacheCapacities /\ s4' \in Nat
         /\ s2' \in Seq(CacheKeys \X CacheValues)
         /\ s5' \in [CacheKeys -> Nat] /\ \A k \in CacheKeys : s5'[k] <= s4'
         /\ s6' \in [CacheKeys -> CacheValues]
         /\ Len(s2') <= s1' /\ LRU!KeysOf(s2') = s3' /\ LRU!Cardinality(s3') = Len(s2')
         /\ \A i, j \in DOMAIN s2' : i < j => s5'[s2'[i][1]] > s5'[s2'[j][1]]
         /\ \A i \in DOMAIN s2' : s2'[i][2] = s6'[s2'[i][1]]
  BY ONLY CacheHolds(s1', s2', s3', s4', s5', s6'), CacheAfter
<1>8. LRU!KeysOf(s2)' = LRU!KeysOf(s2') BY DEF LRU!KeysOf
<1>9. LRU!Cardinality(s3)' = LRU!Cardinality(s3') BY DEF LRU!Cardinality
<1> QED BY ONLY <1>7, <1>8, <1>9 DEF LRU!Inv, LRU!LeastRecentLeaves

LEMMA CacheStart == LRU!Init => LRU!Inv
<1> SUFFICES ASSUME LRU!Init PROVE LRU!Inv OBVIOUS
<1>1. /\ s1 \in CacheCapacities /\ s2 = <<>> /\ s3 = {} /\ s4 = 0
      /\ s5 = [k \in CacheKeys |-> 0] /\ s6 \in [CacheKeys -> CacheValues]
  BY DEF LRU!Init
<1>2. s5 \in [CacheKeys -> Nat] /\ s4 \in Nat /\ \A k \in CacheKeys : s5[k] <= s4 BY <1>1
<1>3. s1 \in Nat BY <1>1, ContainersAssumption
<1>4. 0 <= s1 BY <1>3
<1>5. CacheList(s2, s5, s6) /\ KeysIn(s2) = s3 /\ Len(s2) <= s1 BY <1>1, <1>4, CacheEmpty
<1>6. CacheHolds(s1, s2, s3, s4, s5, s6) BY <1>1, <1>2, <1>5 DEF CacheHolds
<1>7.    /\ s1 \in CacheCapacities /\ s4 \in Nat
         /\ s2 \in Seq(CacheKeys \X CacheValues)
         /\ s5 \in [CacheKeys -> Nat] /\ \A k \in CacheKeys : s5[k] <= s4
         /\ s6 \in [CacheKeys -> CacheValues]
         /\ Len(s2) <= s1 /\ LRU!KeysOf(s2) = s3 /\ LRU!Cardinality(s3) = Len(s2)
         /\ \A i, j \in DOMAIN s2 : i < j => s5[s2[i][1]] > s5[s2[j][1]]
         /\ \A i \in DOMAIN s2 : s2[i][2] = s6[s2[i][1]]
  BY ONLY <1>6, CacheAfter
<1> QED BY ONLY <1>7 DEF LRU!Inv, LRU!LeastRecentLeaves

LEMMA CacheStep ==
  ASSUME LRU!Inv, LRU!Next
  PROVE  LRU!Inv'
<1>1. CacheHolds(s1, s2, s3, s4, s5, s6) BY CacheBefore
<1> SUFFICES CacheHolds(s1', s2', s3', s4', s5', s6') BY CacheKeeps
<1>2. ASSUME NEW k \in CacheKeys, LRU!Get(k) \/ LRU!Erase(k)
      PROVE  CacheHolds(s1', s2', s3', s4', s5', s6')
  BY <1>1, <1>2, CacheGets, CacheErases
<1>3. ASSUME NEW k \in CacheKeys, NEW v \in CacheValues, LRU!Put(k, v)
      PROVE  CacheHolds(s1', s2', s3', s4', s5', s6')
  <2>1. CASE k \in s3 BY <1>1, <1>3, <2>1, CachePutsThere
  <2>2. CASE k \notin s3
    <3>1. LRU!Use(k) /\ LRU!Insert(k, v) /\ s6' = [s6 EXCEPT ![k] = v] /\ s1' = s1
      BY <1>3, <2>2 DEF LRU!Put
    <3> QED BY <1>1, <2>2, <3>1, CacheInserts
  <2> QED BY <2>1, <2>2
<1>4. ASSUME NEW k \in CacheKeys, NEW v \in CacheValues, LRU!GetOrInsert(k, v)
      PROVE  CacheHolds(s1', s2', s3', s4', s5', s6')
  <2>1. LRU!Use(k) /\ LRU!Insert(k, v) /\ s6' = [s6 EXCEPT ![k] = v] /\ s1' = s1 /\ k \notin s3
    BY <1>4 DEF LRU!GetOrInsert
  <2> QED BY <1>1, <2>1, CacheInserts
<1>5. CASE LRU!Clear BY <1>1, <1>5, CacheClears
<1>6. ASSUME NEW n \in CacheCapacities, LRU!Resize(n)
      PROVE  CacheHolds(s1', s2', s3', s4', s5', s6')
  BY <1>1, <1>6, CacheResizes
<1> QED BY <1>2, <1>3, <1>4, <1>5, <1>6 DEF LRU!Next

LEMMA CacheStutters == LRU!Inv /\ UNCHANGED slots => LRU!Inv'
<1> SUFFICES ASSUME LRU!Inv, UNCHANGED slots PROVE LRU!Inv' OBVIOUS
<1>1. CacheHolds(s1', s2', s3', s4', s5', s6') BY CacheBefore DEF slots
<1> QED BY <1>1, CacheKeeps

-----------------------------------------------------------------------------
(* BitSet.  s1 size, s2 bits, s3 members. *)

\* The position a bit of a word stands for.
PosOf(w, i) == (w - 1) * BitWidth + i

LEMMA SmallestOf ==
  ASSUME NEW S, S \subseteq Nat, S # {}
  PROVE  \E m \in S : \A k \in S : m <= k
<1>1. \E x \in S : \A y \in S : ~(<<y, x>> \in OpToRel(<, Nat)) BY NatLessThanWellFounded, WFMin
<1>2. PICK x \in S : \A y \in S : ~(<<y, x>> \in OpToRel(<, Nat)) BY <1>1
<1>3. \A y \in S : ~(y < x) BY <1>2 DEF OpToRel
<1>4. \A y \in S : x <= y BY <1>3
<1> QED BY <1>4

LEMMA BitMin ==
  ASSUME NEW S, S \subseteq Nat, NEW m \in S, \A k \in S : m <= k
  PROVE  Bits!Min(S) = m
<1>1. \A x \in S : (\A y \in S : x <= y) => x = m
  <2> SUFFICES ASSUME NEW x \in S, \A y \in S : x <= y PROVE x = m OBVIOUS
  <2>1. x <= m /\ m <= x /\ x \in Nat /\ m \in Nat OBVIOUS
  <2> QED BY ONLY <2>1
<1> QED BY <1>1 DEF Bits!Min

LEMMA BitMinOf ==
  ASSUME NEW S, S \subseteq Nat, S # {}
  PROVE  Bits!Min(S) \in S /\ \A k \in S : Bits!Min(S) <= k
<1>1. PICK m \in S : \A k \in S : m <= k BY SmallestOf
<1>2. Bits!Min(S) = m BY <1>1, BitMin
<1> QED BY <1>1, <1>2

LEMMA BitNumbers == BitWidth \in Nat \ {0} /\ BitLimit \in Nat /\ Bits!Word = 0..BitWidth - 1
BY ContainersAssumption DEF Bits!Word

\* A bit of a word stands for one position, and a position for one bit.
LEMMA BitOfPos ==
  ASSUME NEW w \in Nat \ {0}, NEW i \in Bits!Word
  PROVE  /\ PosOf(w, i) \in Nat /\ Bits!WordOf(PosOf(w, i)) = w /\ Bits!BitOf(PosOf(w, i)) = i
<1>1. PICK c \in Nat \ {0} : c = BitWidth BY BitNumbers
<1>2. i \in 0..c - 1 BY <1>1, BitNumbers
<1>3. PICK a \in Nat : a = w - 1 OBVIOUS
<1>4. a * c + i \in Nat /\ (a * c + i) % c = i /\ (a * c + i) \div c = a BY <1>2, FieldApart
<1>5. PosOf(w, i) = a * c + i BY <1>1, <1>3 DEF PosOf
<1>6. a + 1 = w BY <1>3
<1> QED BY <1>1, <1>4, <1>5, <1>6 DEF Bits!WordOf, Bits!BitOf

LEMMA PosOfBit ==
  ASSUME NEW p \in Nat
  PROVE  /\ Bits!WordOf(p) \in Nat \ {0} /\ Bits!BitOf(p) \in Bits!Word
         /\ PosOf(Bits!WordOf(p), Bits!BitOf(p)) = p
<1>1. PICK c \in Nat \ {0} : c = BitWidth BY BitNumbers
<1>2. PICK q \in Nat, r \in 0..c - 1 : p = c * q + r /\ r = p % c BY DivMod
<1>3. c * q = q * c BY <1>1
<1>4. q * c + r \in Nat /\ (q * c + r) % c = r /\ (q * c + r) \div c = q BY <1>1, FieldApart
<1>5. p \div c = q /\ p % c = r BY <1>2, <1>3, <1>4
<1>6. Bits!WordOf(p) = q + 1 /\ Bits!BitOf(p) = r BY <1>1, <1>5 DEF Bits!WordOf, Bits!BitOf
<1>7. (q + 1) - 1 = q OBVIOUS
<1>8. PosOf(q + 1, r) = q * c + r BY <1>1, <1>7 DEF PosOf
<1>9. r \in Bits!Word BY <1>1, BitNumbers
<1> QED BY <1>2, <1>3, <1>6, <1>8, <1>9

\* The words of n bits: the last one starts below n, and ends at n or after it.
LEMMA BitWords ==
  ASSUME NEW n \in Nat
  PROVE  /\ Bits!Words(n) \in Nat
         /\ \A q \in Nat : q = Bits!Words(n) => (q - 1) * BitWidth < n /\ n <= q * BitWidth
<1>1. PICK c \in Nat \ {0} : c = BitWidth BY BitNumbers
<1>2. PICK a \in Nat : a = n + c - 1 OBVIOUS
<1>3. PICK q \in Nat, r \in 0..c - 1 : a = c * q + r /\ r = a % c BY DivMod
<1>4. q * c + r \in Nat /\ (q * c + r) \div c = q BY <1>1, FieldApart
<1>5. c * q = q * c BY <1>1
<1>6. a \div c = q BY <1>3, <1>4, <1>5
<1>7. Bits!Words(n) = q BY <1>1, <1>2, <1>6 DEF Bits!Words
<1>8. PICK t \in Nat : t = q * c BY <1>1
<1>9. n + c - 1 = t + r BY <1>2, <1>3, <1>5, <1>8
<1>10. (q - 1) * c = t - c BY <1>1, <1>8
<1>11. t - c < n /\ n <= t BY <1>1, <1>9
<1> QED BY <1>1, <1>7, <1>8, <1>10, <1>11

\* The words before the last one stand for positions below n only, those behind it for none.
LEMMA BitsBefore ==
  ASSUME NEW n \in Nat, NEW w \in Nat \ {0}, NEW i \in Bits!Word
  PROVE  /\ w < Bits!Words(n) => PosOf(w, i) < n
         /\ w > Bits!Words(n) => PosOf(w, i) >= n
<1>1. PICK c \in Nat \ {0} : c = BitWidth BY BitNumbers
<1>2. i \in 0..c - 1 BY <1>1, BitNumbers
<1>3. PICK q \in Nat : q = Bits!Words(n) BY BitWords
<1>4. (q - 1) * c < n /\ n <= q * c BY <1>1, <1>3, BitWords
<1>5. PICK t \in Int, u \in Int : t = q * c /\ u = w * c BY <1>1
<1>6. (q - 1) * c = t - c /\ (w - 1) * c = u - c BY <1>1, <1>5
<1>7. PosOf(w, i) = u - c + i BY <1>1, <1>6 DEF PosOf
<1>8. ASSUME w < q PROVE PosOf(w, i) < n
  <2>1. q - w >= 1 /\ q - w \in Int BY <1>8
  <2>2. c * (q - w) >= c BY <2>1, Multiple
  <2>3. c * (q - w) = t - u BY <1>1, <1>5
  <2> QED BY <1>1, <1>2, <1>4, <1>5, <1>6, <1>7, <2>2, <2>3
<1>9. ASSUME w > q PROVE PosOf(w, i) >= n
  <2>1. w - q >= 1 /\ w - q \in Int BY <1>9
  <2>2. c * (w - q) >= c BY <2>1, Multiple
  <2>3. c * (w - q) = u - t BY <1>1, <1>5
  <2> QED BY <1>1, <1>2, <1>4, <1>5, <1>7, <2>2, <2>3
<1> QED BY <1>3, <1>8, <1>9

\* The last word stands for positions below n with its first n % Width bits, or with all.
LEMMA BitsLast ==
  ASSUME NEW n \in Nat, NEW w \in Nat \ {0}, w = Bits!Words(n), NEW i \in Bits!Word
  PROVE  /\ n % BitWidth = 0 => PosOf(w, i) < n
         /\ n % BitWidth # 0 => (PosOf(w, i) < n <=> i < n % BitWidth)
<1>1. PICK c \in Nat \ {0} : c = BitWidth BY BitNumbers
<1>2. i \in 0..c - 1 BY <1>1, BitNumbers
<1>3. (w - 1) * c < n /\ n <= w * c BY <1>1, BitWords
<1>4. PICK k \in Nat, m \in 0..c - 1 : n = c * k + m /\ m = n % c BY DivMod
<1>5. PICK t \in Int : t = c * w BY <1>1
<1>6. w * c = t /\ (w - 1) * c = t - c /\ c * (w - 1) = t - c BY <1>1, <1>5
<1>7. PosOf(w, i) = t - c + i BY <1>1, <1>6 DEF PosOf
<1>8. PICK d \in Int : d = n - (t - c) BY <1>1, <1>5
<1>9. d >= 1 /\ d <= c /\ n = t - c + d BY <1>1, <1>3, <1>5, <1>6, <1>8
<1>10. CASE d = c
  <2>1. PICK z \in 0..c - 1 : z = 0 BY <1>1
  <2>2. c * w + z = c * k + m BY <1>1, <1>4, <1>5, <1>9, <1>10, <2>1
  <2>a. c \in Nat \ {0} /\ w \in Int /\ k \in Int /\ z \in 0..c - 1 /\ m \in 0..c - 1 OBVIOUS
  <2>b. w = k /\ z = m BY ONLY <2>2, <2>a, DivModUnique
  <2>3. 0 = m BY <2>1, <2>b
  <2>4. n % BitWidth = 0 BY <1>1, <1>4, <2>3
  <2>5. PosOf(w, i) < n BY <1>1, <1>2, <1>5, <1>7, <1>9, <1>10
  <2> QED BY <2>4, <2>5
<1>11. CASE d # c
  <2>1. d \in 0..c - 1 /\ w - 1 \in Int BY <1>1, <1>9, <1>11
  <2>2. c * (w - 1) + d = c * k + m BY <1>1, <1>4, <1>5, <1>6, <1>9
  <2>3. w - 1 = k /\ d = m BY <2>1, <2>2, DivModUnique
  <2>4. n % BitWidth = d /\ d # 0 BY <1>1, <1>4, <1>9, <2>3
  <2>5. PosOf(w, i) < n <=> i < d BY <1>1, <1>2, <1>5, <1>7, <1>9
  <2> QED BY <2>4, <2>5
<1> QED BY <1>10, <1>11

\* A position below n is in one of the words of n bits.
LEMMA BitInWords ==
  ASSUME NEW n \in Nat, NEW p \in Nat, p < n
  PROVE  Bits!WordOf(p) \in 1..Bits!Words(n)
<1>1. /\ Bits!WordOf(p) \in Nat \ {0} /\ Bits!BitOf(p) \in Bits!Word
      /\ PosOf(Bits!WordOf(p), Bits!BitOf(p)) = p
  BY PosOfBit
<1>2. PICK w \in Nat \ {0}, i \in Bits!Word : w = Bits!WordOf(p) /\ PosOf(w, i) = p BY <1>1
<1>3. PICK q \in Nat : q = Bits!Words(n) BY BitWords
<1>4. w > q => p >= n BY <1>2, <1>3, BitsBefore
<1>5. ~(w > q) BY <1>4
<1>6. w \in 1..q BY <1>5
<1> QED BY <1>2, <1>3, <1>6

BitArrays(n) == [1..Bits!Words(n) -> SUBSET Bits!Word]

\* The bits behind the last position are cleared, and nothing else.
LEMMA BitsCleared ==
  ASSUME NEW n \in Nat, NEW b \in BitArrays(n), NEW d, d = Bits!ClearUnusedBits(b, n)
  PROVE  /\ d \in BitArrays(n)
         /\ \A w \in 1..Bits!Words(n), i \in Bits!Word : i \in d[w] <=> i \in b[w] /\ PosOf(w, i) < n
<1>1. PICK q \in Nat : q = Bits!Words(n) BY BitWords
<1>2. b \in [1..q -> SUBSET Bits!Word] BY <1>1 DEF BitArrays
<1>3. b \in Seq(SUBSET Bits!Word) /\ Len(b) = q /\ DOMAIN b = 1..q BY <1>2, SequenceOf
<1>4. PICK c \in Nat \ {0} : c = BitWidth BY BitNumbers
<1>a. n % c \in 0..c - 1 BY ModuloRange
<1>5. PICK m \in Nat : m = n % c BY <1>a
<1>6. \A w \in 1..q : w \in Nat \ {0} OBVIOUS
<1>7. ASSUME NEW w \in 1..q, NEW i \in Bits!Word, ~(w = q /\ m # 0) PROVE PosOf(w, i) < n
  <2>1. CASE w < q BY <1>1, <1>6, <2>1, BitsBefore
  <2>2. CASE w = q /\ m = 0 BY <1>1, <1>4, <1>5, <1>6, <2>2, BitsLast
  <2>3. w < q \/ w = q OBVIOUS
  <2> QED BY <1>7, <2>1, <2>2, <2>3
<1>8. CASE m # 0 /\ b # <<>>
  <2>1. d = [b EXCEPT ![q] = b[q] \cap 0..(m - 1)] BY <1>3, <1>4, <1>5, <1>8 DEF Bits!ClearUnusedBits
  <2>2. d \in [1..q -> SUBSET Bits!Word] BY <1>2, <2>1
  <2>3. ASSUME NEW w \in 1..q, NEW i \in Bits!Word
        PROVE  i \in d[w] <=> i \in b[w] /\ PosOf(w, i) < n
    <3>1. CASE w # q
      <4>1. d[w] = b[w] BY <1>2, <2>1, <3>1
      <4> QED BY <1>7, <3>1, <4>1
    <3>2. CASE w = q
      <4>1. d[w] = b[w] \cap 0..(m - 1) BY <1>2, <2>1, <3>2
      <4>2. PosOf(w, i) < n <=> i < m BY <1>1, <1>4, <1>5, <1>6, <1>8, <3>2, BitsLast
      <4>3. i \in Nat BY BitNumbers
      <4>4. i < m <=> i \in 0..(m - 1) BY <4>3
      <4> QED BY <4>1, <4>2, <4>4
    <3> QED BY <3>1, <3>2
  <2> QED BY <1>1, <2>2, <2>3 DEF BitArrays
<1>9. CASE ~(m # 0 /\ b # <<>>)
  <2>1. d = b BY <1>4, <1>5, <1>9 DEF Bits!ClearUnusedBits
  <2>2. ASSUME NEW w \in 1..q PROVE ~(w = q /\ m # 0)
    <3>1. w \in DOMAIN b BY <1>3
    <3>2. b # <<>> BY <3>1
    <3> QED BY <1>9, <3>2
  <2>3. \A w \in 1..q, i \in Bits!Word : PosOf(w, i) < n BY <1>7, <2>2
  <2> QED BY <1>1, <2>1, <2>3
<1> QED BY <1>8, <1>9

\* Inv, of the values of the variables.
BitHolds(n, b, m) ==
  /\ n \in 0..BitLimit /\ b \in BitArrays(n) /\ m \subseteq 0..(n - 1)
  /\ \A w \in 1..Bits!Words(n), i \in Bits!Word : i \in b[w] <=> PosOf(w, i) \in m

LEMMA BitsHold == Bits!Inv <=> BitHolds(s1, s2, s3)
BY DEF Bits!Inv, BitHolds, BitArrays, PosOf

LEMMA BitsHoldNext == BitHolds(s1', s2', s3') => Bits!Inv'
BY Zenon DEF Bits!Inv, BitHolds, BitArrays, PosOf, Bits!Words, Bits!Word

LEMMA BitStart == Bits!Init => Bits!Inv
<1> SUFFICES ASSUME Bits!Init PROVE BitHolds(s1, s2, s3) BY BitsHold
<1>1. s1 \in 0..BitLimit /\ s3 = {} /\ s2 = [w \in 1..Bits!Words(s1) |-> {}] BY DEF Bits!Init, Bits!Blank
<1> QED BY <1>1 DEF BitHolds, BitArrays

\* One bit becomes what the position becomes.
LEMMA BitChanged ==
  ASSUME NEW n, NEW b, NEW m, BitHolds(n, b, m), NEW p \in Nat, p < n,
         NEW x \in SUBSET Bits!Word, NEW m2, m2 \subseteq 0..(n - 1),
         \A i \in Bits!Word \ {Bits!BitOf(p)} : i \in x <=> i \in b[Bits!WordOf(p)],
         \A k \in (0..(n - 1)) \ {p} : k \in m2 <=> k \in m,
         Bits!BitOf(p) \in x <=> p \in m2
  PROVE  BitHolds(n, [b EXCEPT ![Bits!WordOf(p)] = x], m2)
<1>1. n \in 0..BitLimit /\ n \in Nat /\ b \in BitArrays(n) /\ m \subseteq 0..(n - 1) BY BitNumbers DEF BitHolds
<1>2. PICK q \in Nat : q = Bits!Words(n) BY <1>1, BitWords
<1>3. b \in [1..q -> SUBSET Bits!Word] BY <1>1, <1>2 DEF BitArrays
<1>4. PICK a : a = Bits!WordOf(p) OBVIOUS
<1>5. PICK e : e = Bits!BitOf(p) OBVIOUS
<1>6. a \in 1..q /\ e \in Bits!Word /\ PosOf(a, e) = p BY <1>1, <1>2, <1>4, <1>5, BitInWords, PosOfBit
<1>7. PICK d : d = [b EXCEPT ![a] = x] OBVIOUS
<1>8. d \in [1..q -> SUBSET Bits!Word] /\ d[a] = x /\ \A w \in 1..q : w # a => d[w] = b[w] BY <1>3, <1>6, <1>7
<1>9. ASSUME NEW w \in 1..q, NEW i \in Bits!Word PROVE i \in d[w] <=> PosOf(w, i) \in m2
  <2>1. i \in b[w] <=> PosOf(w, i) \in m BY <1>2 DEF BitHolds
  <2>2. w \in Nat \ {0} OBVIOUS
  <2>3. PosOf(w, i) \in Nat /\ Bits!WordOf(PosOf(w, i)) = w /\ Bits!BitOf(PosOf(w, i)) = i
    BY <2>2, BitOfPos
  <2>4. CASE w = a /\ i = e BY <1>5, <1>6, <1>8, <2>4
  <2>5. CASE ~(w = a /\ i = e)
    <3>1. PosOf(w, i) # p BY <1>4, <1>5, <2>3, <2>5
    <3>2. PosOf(w, i) \in m2 <=> PosOf(w, i) \in m
      <4>1. PosOf(w, i) \in 0..(n - 1) \/ PosOf(w, i) \notin 0..(n - 1) OBVIOUS
      <4> QED BY <1>1, <3>1, <4>1
    <3>3. i \in d[w] <=> i \in b[w]
      <4>1. CASE w # a BY <1>8, <4>1
      <4>2. CASE w = a
        <5>1. i # e BY <2>5, <4>2
        <5> QED BY <1>4, <1>5, <1>8, <4>2, <5>1
      <4> QED BY <4>1, <4>2
    <3> QED BY <2>1, <3>2, <3>3
  <2> QED BY <2>4, <2>5
<1> QED BY <1>1, <1>2, <1>4, <1>7, <1>8, <1>9 DEF BitHolds, BitArrays

LEMMA BitSets ==
  ASSUME BitHolds(s1, s2, s3), NEW p \in 0..(BitLimit - 1), NEW v \in BOOLEAN, Bits!Set(p, v)
  PROVE  BitHolds(s1', s2', s3')
<1>1. p \in Nat /\ p < s1 /\ s1' = s1 BY BitNumbers DEF Bits!Set
<1>2. PICK a, e : a = Bits!WordOf(p) /\ e = Bits!BitOf(p) OBVIOUS
<1>3. s1 \in Nat /\ s2 \in BitArrays(s1) /\ s3 \subseteq 0..(s1 - 1) BY BitNumbers DEF BitHolds
<1>4. a \in 1..Bits!Words(s1) /\ e \in Bits!Word BY <1>1, <1>2, <1>3, BitInWords, PosOfBit
<1>5. s2[a] \in SUBSET Bits!Word BY <1>3, <1>4 DEF BitArrays
<1>6. PICK x : x = IF v THEN s2[a] \cup {e} ELSE s2[a] \ {e} OBVIOUS
<1>7. PICK m2 : m2 = IF v THEN s3 \cup {p} ELSE s3 \ {p} OBVIOUS
<1>8. s2' = [s2 EXCEPT ![a] = x] /\ s3' = m2 BY <1>2, <1>6, <1>7 DEF Bits!Set
<1>9. x \in SUBSET Bits!Word /\ \A i \in Bits!Word \ {e} : i \in x <=> i \in s2[a] BY <1>4, <1>5, <1>6
<1>10. m2 \subseteq 0..(s1 - 1) /\ \A k \in (0..(s1 - 1)) \ {p} : k \in m2 <=> k \in s3
  BY <1>1, <1>3, <1>7
<1>11. e \in x <=> p \in m2 BY <1>6, <1>7
<1>12. BitHolds(s1, [s2 EXCEPT ![a] = x], m2)
  BY <1>1, <1>2, <1>9, <1>10, <1>11, BitChanged
<1> QED BY <1>1, <1>8, <1>12

LEMMA BitFlips ==
  ASSUME BitHolds(s1, s2, s3), NEW p \in 0..(BitLimit - 1), Bits!Flip(p)
  PROVE  BitHolds(s1', s2', s3')
<1>1. p \in Nat /\ p < s1 /\ s1' = s1 BY BitNumbers DEF Bits!Flip
<1>2. PICK a, e : a = Bits!WordOf(p) /\ e = Bits!BitOf(p) OBVIOUS
<1>3. s1 \in Nat /\ s2 \in BitArrays(s1) /\ s3 \subseteq 0..(s1 - 1) BY BitNumbers DEF BitHolds
<1>4. a \in 1..Bits!Words(s1) /\ e \in Bits!Word /\ PosOf(a, e) = p
  BY <1>1, <1>2, <1>3, BitInWords, PosOfBit
<1>5. s2[a] \in SUBSET Bits!Word BY <1>3, <1>4 DEF BitArrays
<1>a. e \in s2[a] <=> p \in s3 BY <1>4 DEF BitHolds
<1>6. PICK x : x = Bits!SymDiff(s2[a], {e}) OBVIOUS
<1>7. PICK m2 : m2 = Bits!SymDiff(s3, {p}) OBVIOUS
<1>8. s2' = [s2 EXCEPT ![a] = x] /\ s3' = m2 BY <1>2, <1>6, <1>7 DEF Bits!Flip
<1>9. x \in SUBSET Bits!Word /\ \A i \in Bits!Word \ {e} : i \in x <=> i \in s2[a]
  BY <1>4, <1>5, <1>6 DEF Bits!SymDiff
<1>10. m2 \subseteq 0..(s1 - 1) /\ \A k \in (0..(s1 - 1)) \ {p} : k \in m2 <=> k \in s3
  BY <1>1, <1>3, <1>7 DEF Bits!SymDiff
<1>11. e \in x <=> p \in m2 BY <1>6, <1>7, <1>a DEF Bits!SymDiff
<1>12. BitHolds(s1, [s2 EXCEPT ![a] = x], m2)
  BY <1>1, <1>2, <1>9, <1>10, <1>11, BitChanged
<1> QED BY <1>1, <1>8, <1>12

\* What is cleared holds the positions below n that b stands for.
LEMMA BitsKept ==
  ASSUME NEW n \in 0..BitLimit, NEW b \in BitArrays(n), NEW m, m \subseteq 0..(n - 1),
         \A w \in 1..Bits!Words(n), i \in Bits!Word :
            PosOf(w, i) < n => (i \in b[w] <=> PosOf(w, i) \in m)
  PROVE  BitHolds(n, Bits!ClearUnusedBits(b, n), m)
<1>1. n \in Nat BY BitNumbers
<1>2. PICK d : d = Bits!ClearUnusedBits(b, n) OBVIOUS
<1>3. /\ d \in BitArrays(n)
      /\ \A w \in 1..Bits!Words(n), i \in Bits!Word : i \in d[w] <=> i \in b[w] /\ PosOf(w, i) < n
  BY <1>1, <1>2, BitsCleared
<1>4. ASSUME NEW w \in 1..Bits!Words(n), NEW i \in Bits!Word
      PROVE  i \in d[w] <=> PosOf(w, i) \in m
  <2>1. i \in d[w] <=> i \in b[w] /\ PosOf(w, i) < n BY <1>3
  <2>2. CASE PosOf(w, i) < n BY <2>1, <2>2
  <2>3. CASE ~(PosOf(w, i) < n)
    <3>1. PosOf(w, i) \notin 0..(n - 1) BY <1>1, <2>3
    <3> QED BY <2>1, <2>3, <3>1
  <2> QED BY <2>2, <2>3
<1> QED BY <1>2, <1>3, <1>4 DEF BitHolds

LEMMA BitPosition ==
  ASSUME NEW n \in Nat, NEW w \in 1..Bits!Words(n), NEW i \in Bits!Word
  PROVE  w \in Nat \ {0} /\ PosOf(w, i) \in Nat /\ (PosOf(w, i) < n => PosOf(w, i) \in 0..(n - 1))
<1>1. PICK q \in Nat : q = Bits!Words(n) BY BitWords
<1>2. w \in Nat \ {0} BY <1>1
<1>3. PICK p \in Nat : p = PosOf(w, i) BY <1>2, BitOfPos
<1>4. p < n => p \in 0..(n - 1) BY <1>3
<1> QED BY <1>2, <1>3, <1>4

LEMMA BitFlipsAll ==
  ASSUME BitHolds(s1, s2, s3), Bits!FlipAll
  PROVE  BitHolds(s1', s2', s3')
<1>1. s1 \in Nat /\ s1 \in 0..BitLimit /\ s2 \in BitArrays(s1) /\ s3 \subseteq 0..(s1 - 1)
  BY BitNumbers DEF BitHolds
<1>2. DOMAIN s2 = 1..Bits!Words(s1) BY <1>1 DEF BitArrays
<1>3. PICK b : b = [w \in 1..Bits!Words(s1) |-> Bits!Word \ s2[w]] OBVIOUS
<1>4. PICK m : m = 0..(s1 - 1) \ s3 OBVIOUS
<1>5. s1' = s1 /\ s2' = Bits!ClearUnusedBits(b, s1) /\ s3' = m BY <1>2, <1>3, <1>4 DEF Bits!FlipAll
<1>6. b \in BitArrays(s1) BY <1>3 DEF BitArrays
<1>7. ASSUME NEW w \in 1..Bits!Words(s1), NEW i \in Bits!Word, PosOf(w, i) < s1
      PROVE  i \in b[w] <=> PosOf(w, i) \in m
  <2>1. i \in b[w] <=> i \notin s2[w] BY <1>3
  <2>2. i \in s2[w] <=> PosOf(w, i) \in s3 BY DEF BitHolds
  <2>3. PosOf(w, i) \in 0..(s1 - 1) BY <1>1, <1>7, BitPosition
  <2> QED BY <1>4, <2>1, <2>2, <2>3
<1>8. m \subseteq 0..(s1 - 1) BY <1>4
<1>9. BitHolds(s1, Bits!ClearUnusedBits(b, s1), m) BY <1>1, <1>6, <1>7, <1>8, BitsKept
<1> QED BY <1>5, <1>9

LEMMA BitSetsAll ==
  ASSUME BitHolds(s1, s2, s3), Bits!SetAll
  PROVE  BitHolds(s1', s2', s3')
<1>1. s1 \in Nat /\ s1 \in 0..BitLimit /\ s2 \in BitArrays(s1) BY BitNumbers DEF BitHolds
<1>2. DOMAIN s2 = 1..Bits!Words(s1) BY <1>1 DEF BitArrays
<1>3. PICK b : b = [w \in 1..Bits!Words(s1) |-> Bits!Word] OBVIOUS
<1>4. PICK m : m = 0..(s1 - 1) OBVIOUS
<1>5. s1' = s1 /\ s2' = Bits!ClearUnusedBits(b, s1) /\ s3' = m BY <1>2, <1>3, <1>4 DEF Bits!SetAll
<1>6. b \in BitArrays(s1) BY <1>3 DEF BitArrays
<1>7. ASSUME NEW w \in 1..Bits!Words(s1), NEW i \in Bits!Word, PosOf(w, i) < s1
      PROVE  i \in b[w] <=> PosOf(w, i) \in m
  <2>1. PosOf(w, i) \in 0..(s1 - 1) BY <1>1, <1>7, BitPosition
  <2> QED BY <1>3, <1>4, <2>1
<1>8. m \subseteq 0..(s1 - 1) BY <1>4
<1>9. BitHolds(s1, Bits!ClearUnusedBits(b, s1), m) BY <1>1, <1>6, <1>7, <1>8, BitsKept
<1> QED BY <1>5, <1>9

LEMMA BitResets ==
  ASSUME BitHolds(s1, s2, s3), Bits!Reset
  PROVE  BitHolds(s1', s2', s3')
<1>1. s1 \in 0..BitLimit /\ s2 \in BitArrays(s1) BY DEF BitHolds
<1>2. DOMAIN s2 = 1..Bits!Words(s1) BY <1>1 DEF BitArrays
<1>3. s1' = s1 /\ s2' = [w \in 1..Bits!Words(s1) |-> {}] /\ s3' = {} BY <1>2 DEF Bits!Reset
<1>4. BitHolds(s1, [w \in 1..Bits!Words(s1) |-> {}], {}) BY <1>1 DEF BitHolds, BitArrays
<1> QED BY <1>3, <1>4

\* No bit behind the words of a bit set is one: none of its members is there.
LEMMA BitsBehind ==
  ASSUME NEW n, NEW b, NEW m, BitHolds(n, b, m), NEW w \in Nat \ {0}, NEW i \in Bits!Word
  PROVE  i \in Bits!WordAt(b, w) <=> PosOf(w, i) \in m
<1>1. n \in Nat /\ b \in BitArrays(n) /\ m \subseteq 0..(n - 1) BY BitNumbers DEF BitHolds
<1>2. PICK q \in Nat : q = Bits!Words(n) BY <1>1, BitWords
<1>3. DOMAIN b = 1..q BY <1>1, <1>2 DEF BitArrays
<1>4. CASE w \in 1..q
  <2>1. Bits!WordAt(b, w) = b[w] BY <1>3, <1>4 DEF Bits!WordAt
  <2> QED BY <1>2, <1>4, <2>1 DEF BitHolds
<1>5. CASE w \notin 1..q
  <2>1. w > q BY <1>5
  <2>2. PosOf(w, i) >= n /\ PosOf(w, i) \in Nat BY <1>1, <1>2, <2>1, BitsBefore, BitOfPos
  <2>3. PosOf(w, i) \notin 0..(n - 1) BY <1>1, <2>2
  <2>4. Bits!WordAt(b, w) = {} BY <1>3, <1>5 DEF Bits!WordAt
  <2> QED BY <1>1, <2>3, <2>4
<1> QED BY <1>4, <1>5

LEMMA BitResizes ==
  ASSUME BitHolds(s1, s2, s3), NEW n \in 0..BitLimit, Bits!Resize(n)
  PROVE  BitHolds(s1', s2', s3')
<1>1. n \in Nat /\ s1 \in Nat /\ s2 \in BitArrays(s1) /\ s3 \subseteq 0..(s1 - 1) BY BitNumbers DEF BitHolds
<1>2. PICK b : b = [w \in 1..Bits!Words(n) |-> Bits!WordAt(s2, w)] OBVIOUS
<1>3. PICK m : m = s3 \cap 0..(n - 1) OBVIOUS
<1>4. s1' = n /\ s2' = Bits!ClearUnusedBits(b, n) /\ s3' = m BY <1>2, <1>3 DEF Bits!Resize, Bits!WordAt
<1>5. \A w \in 1..Bits!Words(n) : Bits!WordAt(s2, w) \in SUBSET Bits!Word
  BY <1>1 DEF Bits!WordAt, BitArrays
<1>6. b \in BitArrays(n) BY <1>2, <1>5 DEF BitArrays
<1>7. ASSUME NEW w \in 1..Bits!Words(n), NEW i \in Bits!Word, PosOf(w, i) < n
      PROVE  i \in b[w] <=> PosOf(w, i) \in m
  <2>1. w \in Nat \ {0} /\ PosOf(w, i) \in 0..(n - 1) BY <1>1, <1>7, BitPosition
  <2>2. i \in Bits!WordAt(s2, w) <=> PosOf(w, i) \in s3 BY <2>1, BitsBehind
  <2> QED BY <1>2, <1>3, <2>1, <2>2
<1>8. m \subseteq 0..(n - 1) BY <1>3
<1>9. BitHolds(n, Bits!ClearUnusedBits(b, n), m) BY <1>6, <1>7, <1>8, BitsKept
<1> QED BY <1>4, <1>9

LEMMA BitStep ==
  ASSUME Bits!Inv, Bits!Next
  PROVE  Bits!Inv'
<1>1. BitHolds(s1, s2, s3) BY BitsHold
<1> SUFFICES BitHolds(s1', s2', s3') BY BitsHoldNext
<1>2. ASSUME NEW p \in 0..(BitLimit - 1), Bits!Flip(p) PROVE BitHolds(s1', s2', s3')
  BY <1>1, <1>2, BitFlips
<1>3. ASSUME NEW p \in 0..(BitLimit - 1), NEW v \in BOOLEAN, Bits!Set(p, v) PROVE BitHolds(s1', s2', s3')
  BY <1>1, <1>3, BitSets
<1>4. CASE Bits!FlipAll \/ Bits!SetAll \/ Bits!Reset BY <1>1, <1>4, BitFlipsAll, BitSetsAll, BitResets
<1>5. ASSUME NEW n \in 0..BitLimit, Bits!Resize(n) PROVE BitHolds(s1', s2', s3')
  BY <1>1, <1>5, BitResizes
<1> QED BY <1>2, <1>3, <1>4, <1>5 DEF Bits!Next

LEMMA BitStutters == Bits!Inv /\ UNCHANGED slots => Bits!Inv'
<1> SUFFICES ASSUME Bits!Inv, UNCHANGED slots PROVE Bits!Inv' OBVIOUS
<1>1. BitHolds(s1', s2', s3') BY BitsHold DEF slots
<1> QED BY <1>1, BitsHoldNext

\* The one bits and the members, one to one: words, bits and positions.
LEMMA BitMembers ==
  ASSUME BitHolds(s1, s2, s3)
  PROVE  /\ s1 \in Nat /\ s3 \subseteq Nat /\ s3 \subseteq 0..(s1 - 1) /\ DOMAIN s2 = 1..Bits!Words(s1)
         /\ \A w \in DOMAIN s2, i \in Bits!Word :
              w \in Nat \ {0} /\ (i \in s2[w] <=> PosOf(w, i) \in s3)
         /\ \A w \in DOMAIN s2 : s2[w] \subseteq Bits!Word
         /\ \A p \in s3 : /\ Bits!WordOf(p) \in DOMAIN s2 /\ Bits!BitOf(p) \in Bits!Word
                          /\ Bits!BitOf(p) \in s2[Bits!WordOf(p)]
                          /\ PosOf(Bits!WordOf(p), Bits!BitOf(p)) = p
<1>1. s1 \in Nat /\ s2 \in BitArrays(s1) /\ s3 \subseteq 0..(s1 - 1) BY BitNumbers DEF BitHolds
<1>2. DOMAIN s2 = 1..Bits!Words(s1) /\ \A w \in DOMAIN s2 : s2[w] \subseteq Bits!Word BY <1>1 DEF BitArrays
<1>3. \A w \in DOMAIN s2, i \in Bits!Word :
              w \in Nat \ {0} /\ (i \in s2[w] <=> PosOf(w, i) \in s3)
  BY <1>1, <1>2, BitPosition DEF BitHolds
<1>4. s3 \subseteq Nat BY <1>1
<1>5. ASSUME NEW p \in s3
      PROVE  /\ Bits!WordOf(p) \in DOMAIN s2 /\ Bits!BitOf(p) \in Bits!Word
             /\ Bits!BitOf(p) \in s2[Bits!WordOf(p)]
             /\ PosOf(Bits!WordOf(p), Bits!BitOf(p)) = p
  <2>1. p \in Nat /\ p < s1 BY <1>1
  <2>2. Bits!WordOf(p) \in DOMAIN s2 BY <1>1, <1>2, <2>1, BitInWords
  <2>3. Bits!BitOf(p) \in Bits!Word /\ PosOf(Bits!WordOf(p), Bits!BitOf(p)) = p BY <2>1, PosOfBit
  <2> QED BY <1>3, <2>2, <2>3
<1> QED BY <1>1, <1>2, <1>3, <1>4, <1>5

LEMMA BitGets ==
  ASSUME BitHolds(s1, s2, s3)
  PROVE  {p \in 0..(s1 - 1) : Bits!Get(p)} = s3
<1>1. s1 \in Nat /\ s3 \subseteq 0..(s1 - 1) BY BitMembers
<1>2. ASSUME NEW p \in 0..(s1 - 1) PROVE Bits!Get(p) <=> p \in s3
  <2>1. p \in Nat /\ p < s1 BY <1>1
  <2>2. Bits!WordOf(p) \in DOMAIN s2 BY <1>1, <2>1, BitInWords, BitMembers
  <2>3. Bits!BitOf(p) \in Bits!Word /\ PosOf(Bits!WordOf(p), Bits!BitOf(p)) = p BY <2>1, PosOfBit
  <2>4. PICK w \in DOMAIN s2, i \in Bits!Word : w = Bits!WordOf(p) /\ i = Bits!BitOf(p) BY <2>2, <2>3
  <2>5. i \in s2[w] <=> PosOf(w, i) \in s3 BY BitMembers
  <2> QED BY <2>3, <2>4, <2>5 DEF Bits!Get
<1> QED BY <1>1, <1>2

LEMMA BitCardinality == \A S : Bits!Cardinality(S) = Cardinality(S)
BY DEF Bits!Cardinality, Cardinality

LEMMA BitCounts ==
  ASSUME BitHolds(s1, s2, s3)
  PROVE  Bits!Count = Bits!Cardinality(s3) /\ (Bits!All <=> s3 = 0..(s1 - 1))
<1>1. s1 \in Nat /\ s3 \subseteq 0..(s1 - 1) BY BitMembers
<1>2. IsFiniteSet(0..(s1 - 1)) /\ Cardinality(0..(s1 - 1)) = s1
  <2>1. PICK k \in Int : k = s1 - 1 BY <1>1
  <2>2. IsFiniteSet(0..k) /\ Cardinality(0..k) = IF 0 > k THEN 0 ELSE k - 0 + 1 BY FS_Interval
  <2> QED BY <1>1, <2>1, <2>2
<1>3. IsFiniteSet(s3) /\ (Cardinality(0..(s1 - 1)) = Cardinality(s3) => 0..(s1 - 1) = s3)
  BY <1>1, <1>2, FS_Subset
<1>4. PICK f : f = [p \in s3 |-> <<Bits!WordOf(p), Bits!BitOf(p)>>] OBVIOUS
<1>5. \A p \in s3 : f[p] \in Bits!Ones BY <1>4, BitMembers DEF Bits!Ones
<1>6. \A p, r \in s3 : f[p] = f[r] => p = r BY <1>4, BitMembers
<1>7. ASSUME NEW o \in Bits!Ones PROVE \E p \in s3 : f[p] = o
  <2>1. PICK w \in DOMAIN s2, i \in Bits!Word : o = <<w, i>> /\ i \in s2[w] BY <1>7 DEF Bits!Ones
  <2>2. w \in Nat \ {0} /\ PosOf(w, i) \in s3 BY <2>1, BitMembers
  <2>3. Bits!WordOf(PosOf(w, i)) = w /\ Bits!BitOf(PosOf(w, i)) = i BY <2>2, BitOfPos
  <2>4. f[PosOf(w, i)] = o BY <1>4, <2>1, <2>2, <2>3
  <2> QED BY <2>2, <2>4
<1>8. f \in [s3 -> Bits!Ones] BY <1>4, <1>5
<1>9. f \in Bijection(s3, Bits!Ones)
  BY <1>6, <1>7, <1>8 DEF Bijection, Injection, Surjection, IsInjective
<1>10. ExistsBijection(s3, Bits!Ones) BY <1>9 DEF ExistsBijection
<1>11. Cardinality(Bits!Ones) = Cardinality(s3) BY <1>3, <1>10, FS_Bijection
<1>12. Bits!Count = Cardinality(s3) BY <1>11, BitCardinality DEF Bits!Count
<1>13. Bits!All <=> Cardinality(s3) = s1 BY <1>12 DEF Bits!All
<1> QED BY <1>2, <1>3, <1>12, <1>13, BitCardinality

LEMMA BitAny ==
  ASSUME BitHolds(s1, s2, s3)
  PROVE  Bits!Any <=> s3 # {}
<1>1. ASSUME NEW w \in DOMAIN s2, NEW i \in s2[w] PROVE s3 # {}
  <2>1. i \in Bits!Word BY BitMembers
  <2> QED BY <2>1, BitMembers
<1>2. ASSUME NEW p \in s3 PROVE \E w \in DOMAIN s2 : s2[w] # {} BY BitMembers
<1> QED BY <1>1, <1>2 DEF Bits!Any

\* The first one bit of the first word that has one is the least member.
LEMMA BitFinds ==
  ASSUME BitHolds(s1, s2, s3)
  PROVE  Bits!FindFirst = IF s3 = {} THEN s1 ELSE Bits!Min(s3)
<1>1. PICK used : used = {w \in DOMAIN s2 : s2[w] # {}} OBVIOUS
<1>2. used = {} <=> s3 = {} BY <1>1, BitAny DEF Bits!Any
<1>3. Bits!FindFirst = IF used = {} \/ (Bits!Min(used) - 1) * BitWidth + Bits!Min(s2[Bits!Min(used)]) >= s1
                       THEN s1 ELSE (Bits!Min(used) - 1) * BitWidth + Bits!Min(s2[Bits!Min(used)])
  BY <1>1 DEF Bits!FindFirst
<1>4. CASE s3 = {} BY <1>2, <1>3, <1>4
<1>5. CASE s3 # {}
  <2>1. used # {} /\ used \subseteq Nat
    <3>1. \A w \in DOMAIN s2 : w \in Nat
      <4> SUFFICES ASSUME NEW w \in DOMAIN s2 PROVE w \in Nat OBVIOUS
      <4>1. 0 \in Bits!Word BY BitNumbers
      <4> QED BY <4>1, BitMembers
    <3> QED BY <1>1, <1>2, <1>5, <3>1
  <2>2. PICK w : w = Bits!Min(used) OBVIOUS
  <2>3. w \in used /\ \A v \in used : w <= v BY <2>1, <2>2, BitMinOf
  <2>4. w \in DOMAIN s2 /\ s2[w] # {} /\ s2[w] \subseteq Bits!Word BY <1>1, <2>3, BitMembers
  <2>5. s2[w] \subseteq Nat BY <2>4, BitNumbers
  <2>6. PICK i : i = Bits!Min(s2[w]) OBVIOUS
  <2>7. i \in s2[w] /\ \A j \in s2[w] : i <= j BY <2>4, <2>5, <2>6, BitMinOf
  <2>8. i \in Bits!Word BY <2>4, <2>7
  <2>9. w \in Nat \ {0} /\ PosOf(w, i) \in s3 BY <2>4, <2>7, <2>8, BitMembers
  <2>10. PICK m : m = PosOf(w, i) OBVIOUS
  <2>11. ASSUME NEW p \in s3 PROVE m <= p
    <3>1. PICK v \in DOMAIN s2, j \in Bits!Word : j \in s2[v] /\ PosOf(v, j) = p /\ v \in Nat \ {0} BY BitMembers
    <3>2. v \in used BY <1>1, <3>1
    <3>3. w <= v BY <2>3, <3>2
    <3>4. PICK c \in Nat \ {0} : c = BitWidth BY BitNumbers
    <3>5. i \in 0..c - 1 /\ j \in 0..c - 1 BY <2>8, <3>4, BitNumbers
    <3>6. PICK t \in Int, u \in Int : t = c * w /\ u = c * v BY <2>9, <3>1, <3>4
    <3>7. m = t - c + i /\ p = u - c + j
      <4>1. (w - 1) * c = t - c /\ (v - 1) * c = u - c BY <2>9, <3>1, <3>4, <3>6
      <4> QED BY <2>10, <3>1, <3>4, <4>1 DEF PosOf
    <3>8. CASE w = v
      <4>1. i <= j BY <2>7, <3>1, <3>8
      <4>2. t = u BY <3>6, <3>8
      <4> QED BY <3>5, <3>6, <3>7, <4>1, <4>2
    <3>9. CASE w # v
      <4>1. v - w >= 1 /\ v - w \in Int BY <2>9, <3>1, <3>3, <3>9
      <4>2. c * (v - w) >= c BY <4>1, Multiple
      <4>3. c * (v - w) = u - t BY <2>9, <3>1, <3>4, <3>6
      <4> QED BY <3>4, <3>5, <3>6, <3>7, <4>2, <4>3
    <3> QED BY <3>8, <3>9
  <2>12. m \in s3 /\ s3 \subseteq Nat /\ s3 \subseteq 0..(s1 - 1) /\ s1 \in Nat BY <2>9, <2>10, BitMembers
  <2>13. Bits!Min(s3) = m BY <2>11, <2>12, BitMin
  <2>14. ~(m >= s1) BY <2>12
  <2>15. (Bits!Min(used) - 1) * BitWidth + Bits!Min(s2[Bits!Min(used)]) = m BY <2>2, <2>6, <2>10 DEF PosOf
  <2> QED BY <1>3, <1>5, <2>1, <2>13, <2>14, <2>15
<1> QED BY <1>4, <1>5

\* The positions of an array are those its bits stand for.
LEMMA BitPositions ==
  ASSUME NEW n \in Nat, NEW b \in BitArrays(n), NEW S, S \subseteq 0..(n - 1),
         \A w \in 1..Bits!Words(n), i \in Bits!Word : i \in b[w] <=> PosOf(w, i) \in S
  PROVE  Bits!Positions(b) = S
<1>1. DOMAIN b = 1..Bits!Words(n) /\ \A w \in DOMAIN b : b[w] \subseteq Bits!Word BY DEF BitArrays
<1>2. ASSUME NEW p PROVE p \in Bits!Positions(b) <=> \E w \in DOMAIN b : \E i \in b[w] : p = PosOf(w, i)
  BY DEF Bits!Positions, PosOf
<1>3. ASSUME NEW w \in DOMAIN b, NEW i \in b[w] PROVE PosOf(w, i) \in S BY <1>1
<1>4. ASSUME NEW p \in S PROVE \E w \in DOMAIN b : \E i \in b[w] : p = PosOf(w, i)
  <2>1. p \in Nat /\ p < n OBVIOUS
  <2>2. Bits!WordOf(p) \in DOMAIN b BY <1>1, <2>1, BitInWords
  <2>3. Bits!BitOf(p) \in Bits!Word /\ PosOf(Bits!WordOf(p), Bits!BitOf(p)) = p BY <2>1, PosOfBit
  <2>4. Bits!BitOf(p) \in b[Bits!WordOf(p)] BY <1>1, <2>2, <2>3
  <2> QED BY <2>2, <2>3, <2>4
<1>5. Bits!Positions(b) \subseteq S
  <2> SUFFICES ASSUME NEW p \in Bits!Positions(b) PROVE p \in S OBVIOUS
  <2>1. PICK w \in DOMAIN b : \E i \in b[w] : p = PosOf(w, i) BY <1>2
  <2>2. PICK i \in b[w] : p = PosOf(w, i) BY <2>1
  <2> QED BY <1>3, <2>2
<1>6. S \subseteq Bits!Positions(b) BY <1>2, <1>4
<1> QED BY <1>5, <1>6

EvensBelow(n) == {p \in 0..(n - 1) : p % 2 = 0}

LEMMA BitOther ==
  ASSUME NEW n \in Nat, NEW w \in Nat \ {0}, NEW i \in Bits!Word
  PROVE  i \in Bits!WordAt(Bits!Other(n), w) <=> PosOf(w, i) \in EvensBelow(n)
<1>1. PICK q \in Nat : q = Bits!Words(n) BY BitWords
<1>2. PICK b : b = Bits!Other(n) OBVIOUS
<1>3. DOMAIN b = 1..q BY <1>1, <1>2 DEF Bits!Other
<1>4. PosOf(w, i) \in Nat BY BitOfPos
<1>5. PosOf(w, i) \in EvensBelow(n) <=> PosOf(w, i) < n /\ PosOf(w, i) % 2 = 0
  <2>1. PICK p \in Nat : p = PosOf(w, i) BY <1>4
  <2>2. p \in 0..(n - 1) <=> p < n BY <2>1
  <2> QED BY <2>1, <2>2 DEF EvensBelow
<1>6. CASE w \in 1..q
  <2>1. Bits!WordAt(b, w) = b[w] BY <1>3, <1>6 DEF Bits!WordAt
  <2>2. i \in b[w] <=> PosOf(w, i) < n /\ PosOf(w, i) % 2 = 0 BY <1>1, <1>2, <1>6 DEF Bits!Other, PosOf
  <2> QED BY <1>2, <1>5, <2>1, <2>2
<1>7. CASE w \notin 1..q
  <2>1. w > q BY <1>7
  <2>2. PosOf(w, i) >= n BY <1>1, <2>1, BitsBefore
  <2>3. ~(PosOf(w, i) < n) BY <1>4, <2>2
  <2>4. Bits!WordAt(b, w) = {} BY <1>3, <1>7 DEF Bits!WordAt
  <2> QED BY <1>2, <1>5, <2>3, <2>4
<1> QED BY <1>6, <1>7

LEMMA BitsJoin ==
  ASSUME BitHolds(s1, s2, s3), NEW n \in 0..BitLimit
  PROVE  LET W == 1..Bits!Words(IF n > s1 THEN n ELSE s1) IN
         /\ Bits!Positions([w \in W |-> Bits!WordAt(s2, w) \cap Bits!WordAt(Bits!Other(n), w)])
              = s3 \cap {p \in 0..(n - 1) : p % 2 = 0}
         /\ Bits!Positions([w \in W |-> Bits!WordAt(s2, w) \cup Bits!WordAt(Bits!Other(n), w)])
              = s3 \cup {p \in 0..(n - 1) : p % 2 = 0}
         /\ Bits!Positions([w \in W |-> Bits!SymDiff(Bits!WordAt(s2, w), Bits!WordAt(Bits!Other(n), w))])
              = Bits!SymDiff(s3, {p \in 0..(n - 1) : p % 2 = 0})
<1>1. n \in Nat /\ s1 \in Nat /\ s3 \subseteq 0..(s1 - 1) BY BitNumbers, BitMembers
<1>2. PICK k \in Nat : k = (IF n > s1 THEN n ELSE s1) /\ n <= k /\ s1 <= k BY <1>1
<1>3. PICK o : o = Bits!Other(n) OBVIOUS
<1>4. PICK e : e = {p \in 0..(n - 1) : p % 2 = 0} OBVIOUS
<1>5. s3 \subseteq 0..(k - 1) /\ e \subseteq 0..(k - 1) BY <1>1, <1>2, <1>4
<1>6. ASSUME NEW w \in 1..Bits!Words(k), NEW i \in Bits!Word
      PROVE  /\ i \in Bits!WordAt(s2, w) <=> PosOf(w, i) \in s3
             /\ i \in Bits!WordAt(o, w) <=> PosOf(w, i) \in e
  <2>1. w \in Nat \ {0} BY BitPosition
  <2> QED BY <1>1, <1>3, <1>4, <2>1, BitsBehind, BitOther DEF EvensBelow
<1>7. \A w \in 1..Bits!Words(k) : Bits!WordAt(s2, w) \subseteq Bits!Word /\ Bits!WordAt(o, w) \subseteq Bits!Word
  <2>1. \A w : Bits!WordAt(s2, w) \subseteq Bits!Word BY BitMembers DEF Bits!WordAt
  <2>2. \A w : Bits!WordAt(o, w) \subseteq Bits!Word BY <1>3 DEF Bits!WordAt, Bits!Other
  <2> QED BY <2>1, <2>2
<1>8. Bits!Positions([w \in 1..Bits!Words(k) |-> Bits!WordAt(s2, w) \cap Bits!WordAt(o, w)]) = s3 \cap e
  <2>1. PICK b : b = [w \in 1..Bits!Words(k) |-> Bits!WordAt(s2, w) \cap Bits!WordAt(o, w)] OBVIOUS
  <2>2. b \in BitArrays(k) BY <1>7, <2>1 DEF BitArrays
  <2>a. PICK S : S = s3 \cap e OBVIOUS
  <2>3. \A w \in 1..Bits!Words(k), i \in Bits!Word : i \in b[w] <=> PosOf(w, i) \in S BY <1>6, <2>1, <2>a
  <2>4. S \subseteq 0..(k - 1) BY <1>5, <2>a
  <2>b. k \in Nat OBVIOUS
  <2>c. Bits!Positions(b) = S BY ONLY <2>2, <2>3, <2>4, <2>b, BitPositions
  <2>5. Bits!Positions(b) = s3 \cap e BY <2>a, <2>c
  <2> QED BY <2>1, <2>5
<1>9. Bits!Positions([w \in 1..Bits!Words(k) |-> Bits!WordAt(s2, w) \cup Bits!WordAt(o, w)]) = s3 \cup e
  <2>1. PICK b : b = [w \in 1..Bits!Words(k) |-> Bits!WordAt(s2, w) \cup Bits!WordAt(o, w)] OBVIOUS
  <2>2. b \in BitArrays(k) BY <1>7, <2>1 DEF BitArrays
  <2>3. \A w \in 1..Bits!Words(k), i \in Bits!Word : i \in b[w] <=> PosOf(w, i) \in s3 \cup e BY <1>6, <2>1
  <2>4. s3 \cup e \subseteq 0..(k - 1) BY <1>5
  <2>5. Bits!Positions(b) = s3 \cup e BY <2>2, <2>3, <2>4, BitPositions
  <2> QED BY <2>1, <2>5
<1>10. Bits!Positions([w \in 1..Bits!Words(k) |-> Bits!SymDiff(Bits!WordAt(s2, w), Bits!WordAt(o, w))])
         = Bits!SymDiff(s3, e)
  <2>1. PICK b : b = [w \in 1..Bits!Words(k) |-> Bits!SymDiff(Bits!WordAt(s2, w), Bits!WordAt(o, w))] OBVIOUS
  <2>2. b \in BitArrays(k) BY <1>7, <2>1 DEF BitArrays, Bits!SymDiff
  <2>3. \A w \in 1..Bits!Words(k), i \in Bits!Word : i \in b[w] <=> PosOf(w, i) \in Bits!SymDiff(s3, e)
    BY <1>6, <2>1 DEF Bits!SymDiff
  <2>4. Bits!SymDiff(s3, e) \subseteq 0..(k - 1) BY <1>5 DEF Bits!SymDiff
  <2>5. Bits!Positions(b) = Bits!SymDiff(s3, e) BY <2>2, <2>3, <2>4, BitPositions
  <2> QED BY <2>1, <2>5
<1> QED BY <1>2, <1>3, <1>4, <1>8, <1>9, <1>10

LEMMA BitShows == Bits!Inv => Bits!IsASet
<1> SUFFICES ASSUME BitHolds(s1, s2, s3) PROVE Bits!IsASet BY BitsHold
<1> QED BY BitGets, BitCounts, BitAny, BitFinds, BitsJoin DEF Bits!IsASet, Bits!Joined

-----------------------------------------------------------------------------
(* The parts together. *)

LocksInv ==
  /\ part = "lock" => RWLock!Inv
  /\ part = "map" => Map!Inv

QueuesInv ==
  /\ part = "mpmc" => MPMC!Inv
  /\ part = "spsc" => SPSC!Inv
  /\ part = "tasks" => Tasks!Inv
  /\ part = "timer" => Timers!Inv
  /\ part = "throttle" => Throttles!Inv
  /\ part = "log" => Log!Inv

ContainersInv ==
  /\ part = "ring" => Ring!Inv
  /\ part = "lru" => LRU!Inv
  /\ part = "bitset" => Bits!Inv
  /\ part = "bloom" => Bloom!Inv
  /\ part = "objects" => Objects!Inv
  /\ part = "memory" => Memory!Inv
  /\ part = "strings" => Interned!Inv

LEMMA LockStutters == RWLock!Inv /\ UNCHANGED slots => RWLock!Inv'
BY DEF RWLock!Inv, RWLock!LockSafe, RWLock!In, RWLock!Cardinality, slots

LEMMA MapStutters == Map!Inv /\ UNCHANGED slots => Map!Inv'
BY DEF Map!Inv, Map!Found, Map!GetOrInsertAtomic, Map!At, slots

LEMMA RingStutters == MPMC!Inv /\ UNCHANGED slots => MPMC!Inv'
<1> SUFFICES ASSUME MPMC!Inv, UNCHANGED slots PROVE MPMC!Inv' OBVIOUS
<1> USE DEF slots, MPMC!Reads, MPMC!Writes
<1>1. MPMC!InvTypes' BY DEF MPMC!Inv, MPMC!InvTypes
<1>2. MPMC!InvCells' BY DEF MPMC!Inv, MPMC!InvCells
<1>3. MPMC!InvApart' BY DEF MPMC!Inv, MPMC!InvApart
<1>4. MPMC!InvGot' BY DEF MPMC!Inv, MPMC!InvGot
<1>5. ASSUME NEW t \in Producers PROVE MPMC!InvProducer(t)'
  <2>1. MPMC!InvProducer(t) BY DEF MPMC!Inv
  <2> QED BY <2>1 DEF MPMC!InvProducer, MPMC!Value
<1>6. ASSUME NEW t \in Consumers PROVE MPMC!InvConsumer(t)'
  <2>1. MPMC!InvConsumer(t) BY DEF MPMC!Inv
  <2> QED BY <2>1 DEF MPMC!InvConsumer
<1> QED BY <1>1, <1>2, <1>3, <1>4, <1>5, <1>6 DEF MPMC!Inv

LEMMA PairStutters == SPSC!Inv /\ UNCHANGED slots => SPSC!Inv'
BY DEF SPSC!Inv, SPSC!Freed, slots

LEMMA TasksStutter == Tasks!Inv /\ UNCHANGED slots => Tasks!Inv'
<1> SUFFICES ASSUME Tasks!Inv, UNCHANGED slots PROVE Tasks!Inv' OBVIOUS
<1> USE DEF slots
<1>1. Tasks!Held' = Tasks!Held /\ Tasks!Queued' = Tasks!Queued BY DEF Tasks!Held, Tasks!Queued
<1>2. \A k : Tasks!Submitted(k)' <=> Tasks!Submitted(k) BY DEF Tasks!Submitted
<1> QED BY <1>1, <1>2 DEF Tasks!Inv

LEMMA TimersStutter == Timers!Inv /\ UNCHANGED slots => Timers!Inv'
BY DEF Timers!Inv, Timers!InTurn, Timers!InvCut, Timers!HasTask, Timers!Queued, slots

LEMMA ThrottlesStutter == Throttles!Inv /\ UNCHANGED slots => Throttles!Inv'
BY DEF Throttles!Inv, Throttles!NeverEarly, slots

LEMMA LogStutters == Log!Inv /\ UNCHANGED slots => Log!Inv'
<1> SUFFICES ASSUME Log!Inv, UNCHANGED slots PROVE Log!Inv' OBVIOUS
<1>1. PICK q, b, s, k, h : q = s2' /\ b = s5' /\ s = s10' /\ k = s7' /\ h = Log!Handed'
  OBVIOUS
<1>2. Placed(q, b, s, k["caller"], k["stop"], h) /\ LogRest(q, b, s4', s3', k)
  BY <1>1, LogInv DEF slots, Log!Handed, Log!Inv
<1>3. Log!InvPlaces' BY <1>1, <1>2, LogInvAfter
<1>4. PICK n, p, w : n = s11.pushes /\ p = s11.place /\ w = s11.writer OBVIOUS
<1>5. s11' = [pushes |-> n, place |-> p, writer |-> w] BY <1>4, LogOrder DEF slots, Log!Inv
<1>6. Ordered(q, b, s, k["caller"], k["stop"], n, p, w)
  BY <1>1, <1>4, LogOrder DEF slots, Log!Inv
<1>7. Log!InvOrder' BY ONLY <1>1, <1>2, <1>5, <1>6, LogOrderAfter
<1> QED BY <1>3, <1>7 DEF Log!Inv

(***************************************************************************)
(* For any number of threads, keys and shards: the lock excludes, its      *)
(* wake-ups and the semaphore's reach whom they should, and a key is found *)
(* or inserted in one step (ReadWriteLock, Semaphore, ShardedMap).         *)
(***************************************************************************)
THEOREM LocksExclude == ThreadsSpec => []LocksAndMaps
<1>1. ThreadsStart => LocksInv BY LockStart, MapStart DEF ThreadsStart, LocksInv
<1>2. LocksInv /\ [ThreadsStep]_all => LocksInv'
  <2> SUFFICES ASSUME LocksInv, [ThreadsStep]_all PROVE LocksInv' OBVIOUS
  <2>1. part' = part BY DEF ThreadsStep, all, Rest6, Rest7, Rest8, Rest9, Rest11
  <2>2. ASSUME part = "lock" PROVE RWLock!Inv'
    <3>1. RWLock!Next \/ UNCHANGED slots BY <2>2 DEF ThreadsStep, all
    <3> QED BY <2>2, <3>1, LockStep, LockStutters DEF LocksInv
  <2>3. ASSUME part = "map" PROVE Map!Inv'
    <3>1. Map!Next \/ UNCHANGED slots BY <2>3 DEF ThreadsStep, all
    <3> QED BY <2>3, <3>1, MapStep, MapStutters DEF LocksInv
  <2> QED BY <2>1, <2>2, <2>3 DEF LocksInv
<1>3. LocksInv => LocksAndMaps BY DEF LocksInv, LocksAndMaps, RWLock!Inv, Map!Inv
<1> QED BY <1>1, <1>2, <1>3, PTL DEF ThreadsSpec

(***************************************************************************)
(* For any number of threads, cells, tasks, timers, events and entries:    *)
(* the ring queues deliver in order what was pushed, the task queue runs a *)
(* task once, timers fire in turn, no event is called early and no log     *)
(* entry is lost or doubled (MPMCRingQueue, SPSCRingQueue, AsyncQueue,     *)
(* Timer, Throttle, AsyncLogger).                                          *)
(***************************************************************************)
THEOREM QueuesKeepOrder == ThreadsSpec => []OrderAndOnce
<1>1. ThreadsStart => QueuesInv
  BY RingStart, PairStart, TasksStart, TimerStart, ThrottleStart, LogStart
     DEF ThreadsStart, QueuesInv
<1>2. QueuesInv /\ [ThreadsStep]_all => QueuesInv'
  <2> SUFFICES ASSUME QueuesInv, [ThreadsStep]_all PROVE QueuesInv' OBVIOUS
  <2>1. part' = part BY DEF ThreadsStep, all, Rest6, Rest7, Rest8, Rest9, Rest11
  <2>2. ASSUME part = "mpmc" PROVE MPMC!Inv'
    <3>1. MPMC!Next \/ UNCHANGED slots BY <2>2 DEF ThreadsStep, all
    <3> QED BY <2>2, <3>1, RingStep, RingStutters DEF QueuesInv
  <2>3. ASSUME part = "spsc" PROVE SPSC!Inv'
    <3>1. SPSC!Next \/ UNCHANGED slots BY <2>3 DEF ThreadsStep, all
    <3> QED BY <2>3, <3>1, PairStep, PairStutters DEF QueuesInv
  <2>4. ASSUME part = "tasks" PROVE Tasks!Inv'
    <3>1. Tasks!Next \/ UNCHANGED slots BY <2>4 DEF ThreadsStep, all
    <3> QED BY <2>4, <3>1, TasksStep, TasksStutter DEF QueuesInv
  <2>5. ASSUME part = "timer" PROVE Timers!Inv'
    <3>1. Timers!Next \/ UNCHANGED slots BY <2>5 DEF ThreadsStep, all
    <3> QED BY <2>5, <3>1, TimerStep, TimersStutter DEF QueuesInv
  <2>6. ASSUME part = "throttle" PROVE Throttles!Inv'
    <3>1. Throttles!Next \/ UNCHANGED slots BY <2>6 DEF ThreadsStep, all
    <3> QED BY <2>6, <3>1, ThrottleStep, ThrottlesStutter DEF QueuesInv
  <2>7. ASSUME part = "log" PROVE Log!Inv'
    <3>1. Log!Next \/ UNCHANGED slots BY <2>7 DEF ThreadsStep, all
    <3> QED BY <2>7, <3>1, LogStep, LogStutters DEF QueuesInv
  <2> QED BY <2>1, <2>2, <2>3, <2>4, <2>5, <2>6, <2>7 DEF QueuesInv
<1>3. QueuesInv => OrderAndOnce
  BY RingFifo, PairFifo, TasksRunOnce, TimerInTurn, LogKept
     DEF QueuesInv, OrderAndOnce, Throttles!Inv
<1> QED BY <1>1, <1>2, <1>3, PTL DEF ThreadsSpec

(***************************************************************************)
(* For every capacity, size, width and number of keys, handles and blocks: *)
(* each container stands for the set, sequence or map its clients put into *)
(* it (CircularBuffer, LRUCache, BitSet, BloomFilter, ObjectPool,          *)
(* MemoryPool, StringPool).                                                *)
(***************************************************************************)
THEOREM ContainersHold == ContainersSpec => []ContainersMatch
<1>1. ContainersStart => ContainersInv
  BY BufferStart, CacheStart, BitStart, FilterStart, PoolStart, BlockStart, TextStart
     DEF ContainersStart, ContainersInv
<1>2. ContainersInv /\ [ContainersStep]_all => ContainersInv'
  <2> SUFFICES ASSUME ContainersInv, [ContainersStep]_all PROVE ContainersInv' OBVIOUS
  <2>1. part' = part BY DEF ContainersStep, all, Rest3, Rest4, Rest5, Rest6, Rest7
  <2>2. ASSUME part = "ring" PROVE Ring!Inv'
    <3>1. Ring!Next \/ UNCHANGED slots BY <2>2 DEF ContainersStep, all
    <3> QED BY <2>2, <3>1, BufferStep, BufferStutters DEF ContainersInv
  <2>3. ASSUME part = "lru" PROVE LRU!Inv'
    <3>1. LRU!Next \/ UNCHANGED slots BY <2>3 DEF ContainersStep, all
    <3> QED BY <2>3, <3>1, CacheStep, CacheStutters DEF ContainersInv
  <2>4. ASSUME part = "bitset" PROVE Bits!Inv'
    <3>1. Bits!Next \/ UNCHANGED slots BY <2>4 DEF ContainersStep, all
    <3> QED BY <2>4, <3>1, BitStep, BitStutters DEF ContainersInv
  <2>5. ASSUME part = "bloom" PROVE Bloom!Inv'
    <3>1. Bloom!Next \/ UNCHANGED slots BY <2>5 DEF ContainersStep, all
    <3> QED BY <2>5, <3>1, FilterStep, FilterStutters DEF ContainersInv
  <2>6. ASSUME part = "objects" PROVE Objects!Inv'
    <3>1. Objects!Next \/ UNCHANGED slots BY <2>6 DEF ContainersStep, all
    <3> QED BY <2>6, <3>1, PoolStep, PoolStutters DEF ContainersInv
  <2>7. ASSUME part = "memory" PROVE Memory!Inv'
    <3>1. Memory!Next \/ UNCHANGED slots BY <2>7 DEF ContainersStep, all
    <3> QED BY <2>7, <3>1, BlockStep, BlocksStutter DEF ContainersInv
  <2>8. ASSUME part = "strings" PROVE Interned!Inv'
    <3>1. Interned!Next \/ UNCHANGED slots BY <2>8 DEF ContainersStep, all
    <3> QED BY <2>8, <3>1, TextStep, TextStutters DEF ContainersInv
  <2> QED BY <2>1, <2>2, <2>3, <2>4, <2>5, <2>6, <2>7, <2>8 DEF ContainersInv
<1>3. ContainersInv => ContainersMatch
  BY BufferShows, BitShows, TextSame
     DEF ContainersInv, ContainersMatch, LRU!Inv, Bloom!Inv, Objects!Inv, Memory!Inv
<1> QED BY <1>1, <1>2, <1>3, PTL DEF ContainersSpec
=============================================================================
