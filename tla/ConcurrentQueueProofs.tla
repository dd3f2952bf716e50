----------------------- MODULE ConcurrentQueueProofs -----------------------
(***************************************************************************)
(* ConcurrentQueue respects its capacity, takes nothing after a stop and   *)
(* loses no wake-up, for any number of producers and consumers and every   *)
(* max_size_.                                                              *)
(***************************************************************************)
EXTENDS ConcurrentQueue, FiniteSetTheorems, SequenceTheorems, TLAPS

\* Who may be asleep: a sleeper is inside the call it sleeps in, nobody sleeps
\* behind the notify_all of NotifyStop that was meant for it, and only a limited
\* queue has producers asleep.
Sleeping == /\ \A t \in not_full : pc[t] = "enqueue"
            /\ \A t \in not_empty : pc[t] = "dequeue"
            /\ is_stopped <=> owner # "running"
            /\ owner \in {"notified", "stopped"} => not_empty = {}
            /\ owner = "stopped" => not_full = {}
            /\ not_full # {} => MaxSize > 0

\* The inductive invariant.
Inv == /\ TypeOK
       /\ Sleeping
       /\ CapacityRespected
       /\ NoLostConsumerWakeup
       /\ NoLostProducerWakeup

-----------------------------------------------------------------------------
(* Counting.                                                               *)

\* A set gains one element.
LEMMA OneMore ==
  ASSUME NEW S, IsFiniteSet(S), NEW x, x \notin S
  PROVE  Cardinality(S) \in Nat /\ Cardinality(S \cup {x}) = Cardinality(S) + 1
BY FS_AddElement, FS_CardinalityType

\* A set loses one element.
LEMMA OneLess ==
  ASSUME NEW S, IsFiniteSet(S), NEW x \in S
  PROVE  /\ Cardinality(S) \in Nat /\ Cardinality(S \ {x}) \in Nat
         /\ Cardinality(S \ {x}) = Cardinality(S) - 1
BY FS_RemoveElement, FS_CardinalityType, FS_Subset

\* The three sets that are counted are finite, before and after a step.
LEMMA CountedSets ==
  /\ IsFiniteSet(Notifying) /\ IsFiniteSet(Notifying')
  /\ IsFiniteSet(WokenConsumers) /\ IsFiniteSet(WokenConsumers')
  /\ IsFiniteSet(WokenProducers) /\ IsFiniteSet(WokenProducers')
  /\ Cardinality(Notifying) \in Nat /\ Cardinality(Notifying') \in Nat
  /\ Cardinality(WokenConsumers) \in Nat /\ Cardinality(WokenConsumers') \in Nat
  /\ Cardinality(WokenProducers) \in Nat /\ Cardinality(WokenProducers') \in Nat
<1>1. /\ Notifying \subseteq Producers /\ Notifying' \subseteq Producers
      /\ WokenConsumers \subseteq Consumers /\ WokenConsumers' \subseteq Consumers
      /\ WokenProducers \subseteq Producers /\ WokenProducers' \subseteq Producers
  BY DEF Notifying, WokenConsumers, WokenProducers
<1>2. IsFiniteSet(Producers) /\ IsFiniteSet(Consumers)
  BY ThreadsAssumption
<1> QED
  BY <1>1, <1>2, FS_Subset, FS_CardinalityType

\* What Inv says of queue, threads and places.
LEMMA InvTypes ==
  ASSUME Inv
  PROVE  /\ queue \in Seq(Values) /\ Len(queue) \in Nat /\ MaxSize \in Nat
         /\ not_full \subseteq Producers /\ not_empty \subseteq Consumers
         /\ pc \in [Threads -> PCs]
         /\ Producers \cap Consumers = {}
BY SizeAssumption, ThreadsAssumption DEF Inv, TypeOK

-----------------------------------------------------------------------------
(* The moves a call is made of.                                            *)

\* A producer puts an element in: one element more, one notification more.
LEMMA PushStep ==
  ASSUME Inv, NEW p \in Producers, pc[p] # "notify", p \notin not_full,
         HasSpace, ~is_stopped,
         NEW v \in Values, queue' = Append(queue, v),
         pc' = [pc EXCEPT ![p] = "notify"],
         UNCHANGED <<is_stopped, not_full, not_empty, owner>>
  PROVE  Inv'
<1>1. /\ queue \in Seq(Values) /\ Len(queue) \in Nat /\ MaxSize \in Nat
      /\ not_full \subseteq Producers /\ not_empty \subseteq Consumers
      /\ pc \in [Threads -> PCs] /\ Producers \cap Consumers = {} /\ p \in Threads
  BY InvTypes DEF Threads
<1>2. queue' \in Seq(Values) /\ Len(queue') = Len(queue) + 1
  BY <1>1
<1>3. TypeOK'
  BY <1>1, <1>2 DEF TypeOK, Inv, PCs
<1>4. Sleeping'
  BY <1>1 DEF Sleeping, Inv
<1>5. CapacityRespected'
  BY <1>1, <1>2 DEF CapacityRespected, HasSpace
<1>6. NoLostConsumerWakeup'
  <2>1. Notifying' = Notifying \cup {p} /\ p \notin Notifying
    BY <1>1 DEF Notifying
  <2>2. WokenConsumers' = WokenConsumers
    BY <1>1 DEF WokenConsumers
  <2>3. Cardinality(Notifying') = Cardinality(Notifying) + 1
    BY <2>1, CountedSets, OneMore
  <2> QED
    BY <1>1, <1>2, <2>2, <2>3, CountedSets DEF NoLostConsumerWakeup, Inv
<1>7. NoLostProducerWakeup'
  <2>1. Cardinality(WokenProducers') >= Cardinality(WokenProducers) - 1
    <3>1. CASE pc[p] = "enqueue"
      <4>1. WokenProducers' = WokenProducers \ {p} /\ p \in WokenProducers
        BY <1>1, <3>1 DEF WokenProducers
      <4> QED
        BY <4>1, CountedSets, OneLess
    <3>2. CASE pc[p] # "enqueue"
      <4>1. WokenProducers' = WokenProducers
        BY <1>1, <3>2 DEF WokenProducers
      <4> QED
        BY <4>1, CountedSets
    <3> QED
      BY <3>1, <3>2
  <2> QED
    BY <1>1, <1>2, <2>1, CountedSets DEF NoLostProducerWakeup, Inv
<1> QED
  BY <1>3, <1>4, <1>5, <1>6, <1>7 DEF Inv

\* A producer finds the queue full and goes to sleep.
LEMMA ProducerSleeps ==
  ASSUME Inv, NEW p \in Producers, pc[p] \in {"idle", "enqueue"}, p \notin not_full,
         ~HasSpace, ~is_stopped,
         not_full' = not_full \cup {p},
         pc' = [pc EXCEPT ![p] = "enqueue"],
         UNCHANGED <<queue, is_stopped, not_empty, owner>>
  PROVE  Inv'
<1>1. /\ queue \in Seq(Values) /\ Len(queue) \in Nat /\ MaxSize \in Nat
      /\ not_full \subseteq Producers /\ not_empty \subseteq Consumers
      /\ pc \in [Threads -> PCs] /\ Producers \cap Consumers = {} /\ p \in Threads
  BY InvTypes DEF Threads
<1>2. TypeOK'
  BY <1>1 DEF TypeOK, Inv, PCs
<1>3. MaxSize > 0 /\ MaxSize - Len(queue) <= 0
  BY <1>1 DEF HasSpace
<1>4. Sleeping'
  BY <1>1, <1>3 DEF Sleeping, Inv
<1>5. CapacityRespected'
  BY DEF CapacityRespected, Inv
<1>6. NoLostConsumerWakeup'
  <2>1. Notifying' = Notifying /\ WokenConsumers' = WokenConsumers
    BY <1>1 DEF Notifying, WokenConsumers
  <2> QED
    BY <2>1 DEF NoLostConsumerWakeup, Inv
<1>7. NoLostProducerWakeup'
  BY <1>1, <1>3, CountedSets DEF NoLostProducerWakeup
<1> QED
  BY <1>2, <1>4, <1>5, <1>6, <1>7 DEF Inv

\* A producer returns false from a stopped queue.
LEMMA ProducerRefused ==
  ASSUME Inv, NEW p \in Producers, pc[p] \in {"idle", "enqueue"}, p \notin not_full,
         is_stopped,
         pc' = [pc EXCEPT ![p] = "idle"],
         UNCHANGED <<queue, is_stopped, not_full, not_empty, owner>>
  PROVE  Inv'
<1>1. /\ queue \in Seq(Values) /\ Len(queue) \in Nat /\ MaxSize \in Nat
      /\ not_full \subseteq Producers /\ not_empty \subseteq Consumers
      /\ pc \in [Threads -> PCs] /\ Producers \cap Consumers = {} /\ p \in Threads
  BY InvTypes DEF Threads
<1>2. TypeOK'
  BY <1>1 DEF TypeOK, Inv, PCs
<1>4. Sleeping'
  BY <1>1 DEF Sleeping, Inv
<1>5. CapacityRespected'
  BY DEF CapacityRespected, Inv
<1>6. NoLostConsumerWakeup'
  <2>1. Notifying' = Notifying /\ WokenConsumers' = WokenConsumers
    BY <1>1 DEF Notifying, WokenConsumers
  <2> QED
    BY <2>1 DEF NoLostConsumerWakeup, Inv
<1>7. NoLostProducerWakeup'
  BY DEF NoLostProducerWakeup, Sleeping, Inv, TypeOK
<1> QED
  BY <1>2, <1>4, <1>5, <1>6, <1>7 DEF Inv

\* A producer's notify_one after the unlock: one notification less and, if
\* somebody sleeps, one woken consumer more.
LEMMA NotifyStep ==
  ASSUME Inv, NEW p \in Producers, NotifyNotEmpty(p)
  PROVE  Inv'
<1>1. /\ queue \in Seq(Values) /\ Len(queue) \in Nat /\ MaxSize \in Nat
      /\ not_full \subseteq Producers /\ not_empty \subseteq Consumers
      /\ pc \in [Threads -> PCs] /\ Producers \cap Consumers = {} /\ p \in Threads
  BY InvTypes DEF Threads
<1>2. /\ pc[p] = "notify" /\ pc' = [pc EXCEPT ![p] = "idle"]
      /\ not_empty' \subseteq not_empty
      /\ UNCHANGED <<queue, is_stopped, not_full, owner>>
  BY DEF NotifyNotEmpty, NotifyOne, Goto
<1>3. TypeOK'
  BY <1>1, <1>2 DEF TypeOK, Inv, PCs
<1>4. Sleeping'
  BY <1>1, <1>2 DEF Sleeping, Inv
<1>5. CapacityRespected'
  BY <1>2 DEF CapacityRespected, Inv
<1>6. NoLostConsumerWakeup'
  <2>1. SUFFICES ASSUME not_empty' # {}, owner # "flagged"
                 PROVE  Len(queue) <= Cardinality(Notifying') + Cardinality(WokenConsumers')
    BY <1>2 DEF NoLostConsumerWakeup
  <2>2. PICK c \in not_empty : not_empty' = not_empty \ {c}
    BY <2>1 DEF NotifyNotEmpty, NotifyOne
  <2>3. Notifying' = Notifying \ {p} /\ p \in Notifying
    BY <1>1, <1>2 DEF Notifying
  <2>4. WokenConsumers' = WokenConsumers \cup {c} /\ c \notin WokenConsumers
    BY <1>1, <1>2, <2>2 DEF WokenConsumers, Sleeping, Inv
  <2>5. Cardinality(Notifying') = Cardinality(Notifying) - 1
    BY <2>3, CountedSets, OneLess
  <2>6. Cardinality(WokenConsumers') = Cardinality(WokenConsumers) + 1
    BY <2>4, CountedSets, OneMore
  <2>7. Len(queue) <= Cardinality(Notifying) + Cardinality(WokenConsumers)
    BY <2>1, <2>2 DEF NoLostConsumerWakeup, Inv
  <2> QED
    BY <1>1, <2>5, <2>6, <2>7, CountedSets
<1>7. NoLostProducerWakeup'
  <2>1. WokenProducers' = WokenProducers
    BY <1>1, <1>2 DEF WokenProducers
  <2> QED
    BY <1>2, <2>1 DEF NoLostProducerWakeup, Inv
<1> QED
  BY <1>3, <1>4, <1>5, <1>6, <1>7 DEF Inv

\* An element leaves the queue, into the hands of a consumer that returns (or
\* was never in a wait): one element less and, if a producer sleeps, one woken.
LEMMA PopStep ==
  ASSUME Inv, NEW c \in Consumers, c \notin not_empty, PopFront,
         pc' = [pc EXCEPT ![c] = "idle"],
         UNCHANGED <<is_stopped, not_empty, owner>>
  PROVE  Inv'
<1>1. /\ queue \in Seq(Values) /\ Len(queue) \in Nat /\ MaxSize \in Nat
      /\ not_full \subseteq Producers /\ not_empty \subseteq Consumers
      /\ pc \in [Threads -> PCs] /\ Producers \cap Consumers = {} /\ c \in Threads
  BY InvTypes DEF Threads
<1>2. queue' \in Seq(Values) /\ Len(queue') = Len(queue) - 1
  BY <1>1 DEF PopFront
<1>3. not_full' \subseteq not_full
  BY DEF PopFront, NotifyOne
<1>4. TypeOK'
  BY <1>1, <1>2, <1>3 DEF TypeOK, Inv, PCs
<1>5. Sleeping'
  BY <1>1, <1>3 DEF Sleeping, Inv
<1>6. CapacityRespected'
  BY <1>1, <1>2 DEF CapacityRespected, Inv
<1>7. NoLostConsumerWakeup'
  <2>1. Notifying' = Notifying
    BY <1>1 DEF Notifying
  <2>2. Cardinality(WokenConsumers') >= Cardinality(WokenConsumers) - 1
    <3>1. CASE c \in WokenConsumers
      <4>1. WokenConsumers' = WokenConsumers \ {c}
        BY <1>1 DEF WokenConsumers
      <4> QED
        BY <3>1, <4>1, CountedSets, OneLess
    <3>2. CASE c \notin WokenConsumers
      <4>1. WokenConsumers' = WokenConsumers
        BY <1>1, <3>2 DEF WokenConsumers
      <4> QED
        BY <4>1, CountedSets
    <3> QED
      BY <3>1, <3>2
  <2> QED
    BY <1>1, <1>2, <2>1, <2>2, CountedSets DEF NoLostConsumerWakeup, Inv
<1>8. NoLostProducerWakeup'
  <2>1. SUFFICES ASSUME not_full' # {}, owner \notin {"flagged", "notified"}
                 PROVE  MaxSize - Len(queue') <= Cardinality(WokenProducers')
    BY DEF NoLostProducerWakeup
  <2>2. MaxSize > 0
    BY <1>3, <2>1 DEF Sleeping, Inv
  <2>3. PICK t \in not_full : not_full' = not_full \ {t}
    BY <2>1, <2>2 DEF PopFront, NotifyOne
  <2>4. WokenProducers' = WokenProducers \cup {t} /\ t \notin WokenProducers
    BY <1>1, <2>3 DEF WokenProducers, Sleeping, Inv
  <2>5. Cardinality(WokenProducers') = Cardinality(WokenProducers) + 1
    BY <2>4, CountedSets, OneMore
  <2>6. MaxSize - Len(queue) <= Cardinality(WokenProducers)
    BY <2>1, <2>3 DEF NoLostProducerWakeup, Inv
  <2> QED
    BY <1>1, <1>2, <2>5, <2>6, CountedSets
<1> QED
  BY <1>4, <1>5, <1>6, <1>7, <1>8 DEF Inv

\* A consumer finds the queue empty and goes to sleep.
LEMMA ConsumerSleeps ==
  ASSUME Inv, NEW c \in Consumers, queue = <<>>, ~is_stopped,
         not_empty' = not_empty \cup {c},
         pc' = [pc EXCEPT ![c] = "dequeue"],
         UNCHANGED <<queue, is_stopped, not_full, owner>>
  PROVE  Inv'
<1>1. /\ queue \in Seq(Values) /\ Len(queue) \in Nat /\ MaxSize \in Nat
      /\ not_full \subseteq Producers /\ not_empty \subseteq Consumers
      /\ pc \in [Threads -> PCs] /\ Producers \cap Consumers = {} /\ c \in Threads
  BY InvTypes DEF Threads
<1>2. TypeOK'
  BY <1>1 DEF TypeOK, Inv, PCs
<1>3. Sleeping'
  BY <1>1 DEF Sleeping, Inv
<1>4. CapacityRespected'
  BY DEF CapacityRespected, Inv
<1>5. NoLostConsumerWakeup'
  BY CountedSets DEF NoLostConsumerWakeup
<1>6. NoLostProducerWakeup'
  <2>1. WokenProducers' = WokenProducers
    BY <1>1 DEF WokenProducers
  <2> QED
    BY <2>1 DEF NoLostProducerWakeup, Inv
<1> QED
  BY <1>2, <1>3, <1>4, <1>5, <1>6 DEF Inv

\* A consumer returns with nothing: the queue is stopped, or empty.
LEMMA ConsumerLeaves ==
  ASSUME Inv, NEW c \in Consumers, c \notin not_empty, is_stopped \/ queue = <<>>,
         pc' = [pc EXCEPT ![c] = "idle"],
         UNCHANGED <<queue, is_stopped, not_full, not_empty, owner>>
  PROVE  Inv'
<1>1. /\ queue \in Seq(Values) /\ Len(queue) \in Nat /\ MaxSize \in Nat
      /\ not_full \subseteq Producers /\ not_empty \subseteq Consumers
      /\ pc \in [Threads -> PCs] /\ Producers \cap Consumers = {} /\ c \in Threads
  BY InvTypes DEF Threads
<1>2. TypeOK'
  BY <1>1 DEF TypeOK, Inv, PCs
<1>3. Sleeping'
  BY <1>1 DEF Sleeping, Inv
<1>4. CapacityRespected'
  BY DEF CapacityRespected, Inv
<1>5. NoLostConsumerWakeup'
  <2>1. CASE is_stopped
    BY <2>1 DEF NoLostConsumerWakeup, Sleeping, Inv, TypeOK
  <2>2. CASE queue = <<>>
    BY <2>2, CountedSets DEF NoLostConsumerWakeup
  <2> QED
    BY <2>1, <2>2
<1>6. NoLostProducerWakeup'
  <2>1. WokenProducers' = WokenProducers
    BY <1>1 DEF WokenProducers
  <2> QED
    BY <2>1 DEF NoLostProducerWakeup, Inv
<1> QED
  BY <1>2, <1>3, <1>4, <1>5, <1>6 DEF Inv

\* A consumer's deadline passes: it counts as woken.
LEMMA ExpireStep ==
  ASSUME Inv, NEW c \in Consumers, Expire(c)
  PROVE  Inv'
<1>1. /\ queue \in Seq(Values) /\ Len(queue) \in Nat /\ MaxSize \in Nat
      /\ not_full \subseteq Producers /\ not_empty \subseteq Consumers
      /\ pc \in [Threads -> PCs] /\ Producers \cap Consumers = {} /\ c \in Threads
  BY InvTypes DEF Threads
<1>2. /\ pc[c] = "dequeue" /\ c \in not_empty /\ not_empty' = not_empty \ {c}
      /\ pc' = [pc EXCEPT ![c] = "expired"]
      /\ UNCHANGED <<queue, is_stopped, not_full, owner>>
  BY DEF Expire, Goto
<1>3. TypeOK'
  BY <1>1, <1>2 DEF TypeOK, Inv, PCs
<1>4. Sleeping'
  BY <1>1, <1>2 DEF Sleeping, Inv
<1>5. CapacityRespected'
  BY <1>2 DEF CapacityRespected, Inv
<1>6. NoLostConsumerWakeup'
  <2>1. Notifying' = Notifying
    BY <1>1, <1>2 DEF Notifying
  <2>2. WokenConsumers' = WokenConsumers \cup {c} /\ c \notin WokenConsumers
    BY <1>1, <1>2 DEF WokenConsumers
  <2>3. Cardinality(WokenConsumers') = Cardinality(WokenConsumers) + 1
    BY <2>2, CountedSets, OneMore
  <2> QED
    BY <1>1, <1>2, <2>1, <2>3, CountedSets DEF NoLostConsumerWakeup, Inv
<1>7. NoLostProducerWakeup'
  <2>1. WokenProducers' = WokenProducers
    BY <1>1, <1>2 DEF WokenProducers
  <2> QED
    BY <1>2, <2>1 DEF NoLostProducerWakeup, Inv
<1> QED
  BY <1>3, <1>4, <1>5, <1>6, <1>7 DEF Inv

\* A sleeper wakes for no reason: it counts as woken.
LEMMA SpuriousStep ==
  ASSUME Inv, NEW t \in Threads, SpuriousWakeup(t)
  PROVE  Inv'
<1>1. /\ queue \in Seq(Values) /\ Len(queue) \in Nat /\ MaxSize \in Nat
      /\ not_full \subseteq Producers /\ not_empty \subseteq Consumers
      /\ pc \in [Threads -> PCs] /\ Producers \cap Consumers = {}
  BY InvTypes
<1>2. /\ t \in not_full \cup not_empty
      /\ not_full' = not_full \ {t} /\ not_empty' = not_empty \ {t}
      /\ UNCHANGED <<queue, is_stopped, pc, owner>>
  BY DEF SpuriousWakeup
<1>3. TypeOK'
  BY <1>1, <1>2 DEF TypeOK, Inv
<1>4. Sleeping'
  BY <1>1, <1>2 DEF Sleeping, Inv
<1>5. CapacityRespected'
  BY <1>2 DEF CapacityRespected, Inv
<1>6. NoLostConsumerWakeup'
  <2>1. Notifying' = Notifying
    BY <1>2 DEF Notifying
  <2>2. Cardinality(WokenConsumers') >= Cardinality(WokenConsumers)
    <3>1. CASE t \in not_empty
      <4>1. WokenConsumers' = WokenConsumers \cup {t} /\ t \notin WokenConsumers
        BY <1>1, <1>2, <3>1 DEF WokenConsumers, Sleeping, Inv
      <4> QED
        BY <4>1, CountedSets, OneMore
    <3>2. CASE t \notin not_empty
      <4>1. WokenConsumers' = WokenConsumers
        BY <1>2, <3>2 DEF WokenConsumers
      <4> QED
        BY <4>1, CountedSets
    <3> QED
      BY <3>1, <3>2
  <2> QED
    BY <1>1, <1>2, <2>1, <2>2, CountedSets DEF NoLostConsumerWakeup, Inv
<1>7. NoLostProducerWakeup'
  <2>1. Cardinality(WokenProducers') >= Cardinality(WokenProducers)
    <3>1. CASE t \in not_full
      <4>1. WokenProducers' = WokenProducers \cup {t} /\ t \notin WokenProducers
        BY <1>1, <1>2, <3>1 DEF WokenProducers, Sleeping, Inv
      <4> QED
        BY <4>1, CountedSets, OneMore
    <3>2. CASE t \notin not_full
      <4>1. WokenProducers' = WokenProducers
        BY <1>2, <3>2 DEF WokenProducers
      <4> QED
        BY <4>1, CountedSets
    <3> QED
      BY <3>1, <3>2
  <2> QED
    BY <1>1, <1>2, <2>1, CountedSets DEF NoLostProducerWakeup, Inv
<1> QED
  BY <1>3, <1>4, <1>5, <1>6, <1>7 DEF Inv

\* NotifyStop and Reset.
LEMMA OwnerKeepsInv ==
  ASSUME Inv, OwnerStep
  PROVE  Inv'
<1>1. CASE NotifyStop
  <2>1. TypeOK' /\ Sleeping' /\ CapacityRespected'
    BY <1>1 DEF NotifyStop, Inv, TypeOK, Sleeping, CapacityRespected
  <2>2. NoLostConsumerWakeup' /\ NoLostProducerWakeup'
    BY <1>1 DEF NotifyStop, NoLostConsumerWakeup, NoLostProducerWakeup
  <2> QED
    BY <2>1, <2>2 DEF Inv
<1>2. CASE NotifyStopNotEmpty
  <2>1. TypeOK' /\ Sleeping' /\ CapacityRespected'
    BY <1>2 DEF NotifyStopNotEmpty, Inv, TypeOK, Sleeping, CapacityRespected
  <2>2. NoLostConsumerWakeup' /\ NoLostProducerWakeup'
    BY <1>2 DEF NotifyStopNotEmpty, NoLostConsumerWakeup, NoLostProducerWakeup
  <2> QED
    BY <2>1, <2>2 DEF Inv
<1>3. CASE NotifyStopNotFull
  <2>1. TypeOK' /\ Sleeping' /\ CapacityRespected'
    BY <1>3 DEF NotifyStopNotFull, Inv, TypeOK, Sleeping, CapacityRespected
  <2>2. NoLostConsumerWakeup' /\ NoLostProducerWakeup'
    BY <1>3 DEF NotifyStopNotFull, NoLostConsumerWakeup, NoLostProducerWakeup, Inv, Sleeping
  <2> QED
    BY <2>1, <2>2 DEF Inv
<1>4. CASE Reset
  <2>1. TypeOK' /\ Sleeping' /\ CapacityRespected'
    BY <1>4 DEF Reset, Inv, TypeOK, Sleeping, CapacityRespected
  <2>2. NoLostConsumerWakeup' /\ NoLostProducerWakeup'
    BY <1>4 DEF Reset, NoLostConsumerWakeup, NoLostProducerWakeup, Inv, Sleeping
  <2> QED
    BY <2>1, <2>2 DEF Inv
<1> QED
  BY <1>1, <1>2, <1>3, <1>4 DEF OwnerStep

\* Enqueue with the mutex held: waits, is refused or pushes.
LEMMA EnqueueStep ==
  ASSUME Inv, NEW p \in Producers, pc[p] \in {"idle", "enqueue"}, p \notin not_full,
         EnqueueLocked(p), UNCHANGED <<is_stopped, not_empty, owner>>
  PROVE  Inv'
<1>1. CASE /\ ~HasSpace /\ ~is_stopped
           /\ not_full' = not_full \cup {p}
           /\ Goto(p, "enqueue") /\ UNCHANGED queue
  BY <1>1, ProducerSleeps DEF Goto
<1>2. CASE is_stopped /\ Goto(p, "idle") /\ UNCHANGED <<queue, not_full>>
  BY <1>2, ProducerRefused DEF Goto
<1>3. CASE /\ HasSpace /\ ~is_stopped
           /\ \E v \in Values : queue' = Append(queue, v)
           /\ Goto(p, "notify") /\ UNCHANGED not_full
  BY <1>3, PushStep DEF Goto
<1> QED
  BY <1>1, <1>2, <1>3 DEF EnqueueLocked

\* WaitDequeue with the mutex held: waits, gives up or pops.
LEMMA DequeueStep ==
  ASSUME Inv, NEW c \in Consumers, c \notin not_empty, NEW expired,
         WaitDequeueLocked(c, expired), UNCHANGED <<is_stopped, owner>>
  PROVE  Inv'
<1>1. CASE /\ queue = <<>> /\ ~is_stopped
           /\ not_empty' = not_empty \cup {c}
           /\ Goto(c, "dequeue") /\ UNCHANGED <<queue, not_full>>
  BY <1>1, ConsumerSleeps DEF Goto
<1>2. CASE /\ is_stopped \/ queue = <<>>
           /\ Goto(c, "idle") /\ UNCHANGED <<queue, not_full, not_empty>>
  BY <1>2, ConsumerLeaves DEF Goto
<1>3. CASE PopFront /\ Goto(c, "idle") /\ UNCHANGED not_empty
  BY <1>3, PopStep DEF Goto
<1> QED
  BY <1>1, <1>2, <1>3 DEF WaitDequeueLocked

\* A thread outside a wait is asleep on no condition variable.
LEMMA AwakeOutside ==
  ASSUME Inv, NEW t \in Threads, pc[t] = "idle"
  PROVE  t \notin not_full /\ t \notin not_empty
BY DEF Inv, Sleeping

\* Every step keeps the invariant.
LEMMA NextStep ==
  ASSUME Inv, [Next]_vars
  PROVE  Inv'
<1>1. ASSUME NEW p \in Producers, ProducerStep(p)
      PROVE  Inv'
  <2>1. CASE Enqueue(p)
    BY <2>1, EnqueueStep, AwakeOutside DEF Enqueue, Threads
  <2>2. CASE EnqueueResume(p)
    BY <2>2, EnqueueStep DEF EnqueueResume
  <2>3. CASE TryEnqueue(p)
    BY <2>3, PushStep, AwakeOutside DEF TryEnqueue, Goto, Threads
  <2>4. CASE NotifyNotEmpty(p)
    BY <2>4, NotifyStep
  <2> QED
    BY <1>1, <2>1, <2>2, <2>3, <2>4 DEF ProducerStep
<1>2. ASSUME NEW c \in Consumers, ConsumerStep(c)
      PROVE  Inv'
  <2>1. CASE TryDequeue(c)
    <3>1. pc' = [pc EXCEPT ![c] = "idle"]
      BY <2>1, InvTypes DEF TryDequeue, Threads
    <3> QED
      BY <2>1, <3>1, PopStep, AwakeOutside DEF TryDequeue, Threads
  <2>2. CASE WaitDequeue(c)
    BY <2>2, DequeueStep, AwakeOutside DEF WaitDequeue, Threads
  <2>3. CASE WaitDequeueResume(c)
    BY <2>3, DequeueStep DEF WaitDequeueResume
  <2>4. CASE Expire(c)
    BY <2>4, ExpireStep
  <2> QED
    BY <1>2, <2>1, <2>2, <2>3, <2>4 DEF ConsumerStep
<1>3. ASSUME NEW t \in Threads, SpuriousWakeup(t)
      PROVE  Inv'
  BY <1>3, SpuriousStep
<1>4. CASE OwnerStep
  BY <1>4, OwnerKeepsInv
<1>5. CASE UNCHANGED vars
  BY <1>5 DEF vars, Inv, TypeOK, Sleeping, CapacityRespected, NoLostConsumerWakeup,
              NoLostProducerWakeup, Notifying, WokenConsumers, WokenProducers
<1> QED
  BY <1>1, <1>2, <1>3, <1>4, <1>5 DEF Next

\* A new queue satisfies the invariant.
LEMMA InitStep == Init => Inv
<1> SUFFICES ASSUME Init
             PROVE  Inv
  OBVIOUS
<1>1. TypeOK
  <2>1. queue \in Seq(Values)
    BY DEF Init
  <2>2. is_stopped \in BOOLEAN
    BY Zenon DEF Init
  <2>3. pc \in [Threads -> PCs]
    BY DEF Init, PCs
  <2>4. /\ not_full \in SUBSET Producers /\ not_empty \in SUBSET Consumers
        /\ owner \in {"running", "flagged", "notified", "stopped"}
    BY DEF Init
  <2> QED
    BY <2>1, <2>2, <2>3, <2>4, Zenon DEF TypeOK
<1>2. Sleeping
  BY DEF Init, Sleeping
<1>3. CapacityRespected
  BY SizeAssumption DEF Init, CapacityRespected
<1>4. NoLostConsumerWakeup /\ NoLostProducerWakeup
  BY DEF Init, NoLostConsumerWakeup, NoLostProducerWakeup
<1> QED
  BY <1>1, <1>2, <1>3, <1>4 DEF Inv

-----------------------------------------------------------------------------
\* The invariant holds of every queue, with any threads and any max_size_.
THEOREM InvHolds == Spec => []Inv
BY InitStep, NextStep, PTL DEF Spec

\* Every variable keeps its type; in particular a thread sleeps only on the
\* condition variable of the call it is in.
THEOREM QueueTyped == Spec => []TypeOK
<1>1. Inv => TypeOK
  BY DEF Inv
<1> QED
  BY <1>1, InvHolds, PTL

\* Backpressure: Enqueue, TryEnqueue and their wake-ups never overfill a queue.
THEOREM CapacityHolds == Spec => []CapacityRespected
<1>1. Inv => CapacityRespected
  BY DEF Inv
<1> QED
  BY <1>1, InvHolds, PTL

\* Enqueue's notify_one after the unlock never strands an element while a
\* consumer sleeps in WaitDequeue.
THEOREM ConsumersAreWoken == Spec => []NoLostConsumerWakeup
<1>1. Inv => NoLostConsumerWakeup
  BY DEF Inv
<1> QED
  BY <1>1, InvHolds, PTL

\* The single notify_one of a pop never strands a free slot while a producer
\* sleeps in Enqueue.
THEOREM ProducersAreWoken == Spec => []NoLostProducerWakeup
<1>1. Inv => NoLostProducerWakeup
  BY DEF Inv
<1> QED
  BY <1>1, InvHolds, PTL

\* After NotifyStop has set the flag a queue can only shrink.
THEOREM StoppedOnlyDrains == Spec => StoppedTakesNothing
<1>1. ASSUME [Next]_vars
      PROVE  [is_stopped => (queue' = queue \/ queue' = Tail(queue))]_vars
  <2>1. SUFFICES ASSUME is_stopped, Next
                 PROVE  queue' = queue \/ queue' = Tail(queue)
    BY <1>1
  <2>2. ASSUME NEW p \in Producers, ProducerStep(p)
        PROVE  queue' = queue
    BY <2>1, <2>2 DEF ProducerStep, Enqueue, EnqueueResume, EnqueueLocked,
                      TryEnqueue, NotifyNotEmpty
  <2>3. ASSUME NEW c \in Consumers, ConsumerStep(c)
        PROVE  queue' = queue \/ queue' = Tail(queue)
    BY <2>3 DEF ConsumerStep, TryDequeue, WaitDequeue, WaitDequeueResume,
                WaitDequeueLocked, PopFront, Expire
  <2>4. ASSUME NEW t \in Threads, SpuriousWakeup(t)
        PROVE  queue' = queue
    BY <2>4 DEF SpuriousWakeup
  <2>5. CASE OwnerStep
    BY <2>5 DEF OwnerStep, NotifyStop, NotifyStopNotEmpty, NotifyStopNotFull, Reset
  <2> QED
    BY <2>1, <2>2, <2>3, <2>4, <2>5 DEF Next
<1> QED
  BY <1>1, PTL DEF Spec, StoppedTakesNothing
=============================================================================
