--------------------------- MODULE MPMCRingQueue ---------------------------
(***************************************************************************)
(* MPMCRingQueue (include/darwincore/foundation/container/RingQueue.h):    *)
(* the bounded queue of many producers and many consumers without a lock.  *)
(* A position is claimed by a compare-and-swap on head or tail, and a      *)
(* sequence number in every cell says whose turn the cell is.  Each load,  *)
(* compare-and-swap and store is a step of its own.                        *)
(***************************************************************************)
EXTENDS Integers, Sequences, FiniteSets

CONSTANTS Producers, Consumers,
          Capacity,    \* capacity_, a power of two; the constructor also takes 1
          MaxPushes,   \* bound: values pushed by each producer
          NoValue

VARIABLES head, tail,
          sequence,    \* buffer_[i].sequence
          data,        \* buffer_[i].data
          pc, pos,     \* where each call stands, and its local pos
          pushed,      \* values each producer has offered so far
          put,         \* what was put into each position
          got          \* what was taken from each position, in turn

vars == <<head, tail, sequence, data, pc, pos, pushed, put, got>>

Threads == Producers \cup Consumers
Cells == 0..(Capacity - 1)
Value(p) == <<p, pushed[p]>>
Positions == 0..(MaxPushes * Cardinality(Producers))

\* pos & mask_
Cell(p) == p % Capacity

Init ==
    /\ head = 0 /\ tail = 0
    /\ sequence = [i \in Cells |-> i]
    /\ data = [i \in Cells |-> NoValue]
    /\ pc = [t \in Threads |-> "idle"]
    /\ pos = [t \in Threads |-> 0]
    /\ pushed = [p \in Producers |-> 0]
    /\ put = [i \in Positions |-> NoValue]
    /\ got = [i \in Positions |-> <<>>]

Goto(t, l) == pc' = [pc EXCEPT ![t] = l]

\* The call starts: it loads tail_ or head_.
PushBegin(t) ==
    /\ pc[t] = "idle" /\ pushed[t] < MaxPushes
    /\ pushed' = [pushed EXCEPT ![t] = @ + 1]
    /\ pos' = [pos EXCEPT ![t] = tail]
    /\ Goto(t, "look")
    /\ UNCHANGED <<head, tail, sequence, data, put, got>>

PopBegin(t) ==
    /\ pc[t] = "idle"
    /\ pos' = [pos EXCEPT ![t] = head]
    /\ Goto(t, "look")
    /\ UNCHANGED <<head, tail, sequence, data, pushed, put, got>>

\* How far the cell is from the number that makes it this call's turn.
Diff(t, turn) == sequence[Cell(pos[t])] - turn

\* The sequence of the cell decides: claim it, give up, or look again.
Look(t, turn, end) ==
    /\ pc[t] = "look"
    /\ Goto(t, IF Diff(t, turn) = 0 THEN "claim"
               ELSE IF Diff(t, turn) < 0 THEN "idle" ELSE "look")
    /\ pos' = IF Diff(t, turn) > 0 THEN [pos EXCEPT ![t] = end] ELSE pos
    /\ UNCHANGED <<head, tail, sequence, data, pushed, put, got>>

LookForPush(t) == Look(t, pos[t], tail)
LookForPop(t) == Look(t, pos[t] + 1, head)

\* compare_exchange_weak: it may fail without a reason, and then loads.
ClaimFails(t, end) ==
    /\ pc[t] = "claim"
    /\ pos' = [pos EXCEPT ![t] = end]
    /\ Goto(t, "look")
    /\ UNCHANGED <<head, tail, sequence, data, pushed, put, got>>

\* Mutant: without the comparison every caller takes the position it saw.
ClaimBlindly(t) == pc[t] = "claim"

ClaimForPush(t) == pc[t] = "claim" /\ tail = pos[t]

PushClaims(t) ==
    /\ ClaimForPush(t)
    /\ tail' = pos[t] + 1
    /\ put' = [put EXCEPT ![pos[t]] = Value(t)]
    /\ Goto(t, "write")
    /\ UNCHANGED <<head, sequence, data, pos, pushed, got>>

PopClaims(t) ==
    /\ pc[t] = "claim" /\ head = pos[t]
    /\ head' = pos[t] + 1
    /\ Goto(t, "read")
    /\ UNCHANGED <<tail, sequence, data, pos, pushed, put, got>>

PushWrites(t) ==
    /\ pc[t] = "write"
    /\ data' = [data EXCEPT ![Cell(pos[t])] = Value(t)]
    /\ Goto(t, "publish")
    /\ UNCHANGED <<head, tail, sequence, pos, pushed, put, got>>

PopReads(t) ==
    /\ pc[t] = "read"
    /\ got' = [got EXCEPT ![pos[t]] = Append(@, data[Cell(pos[t])])]
    /\ Goto(t, "release")
    /\ UNCHANGED <<head, tail, sequence, data, pos, pushed, put>>

\* The cell's next number: pos + 1 after a push, pos + mask_ + 1 after a pop.
Hand(t, n) ==
    /\ sequence' = [sequence EXCEPT ![Cell(pos[t])] = n]
    /\ Goto(t, "idle")
    /\ UNCHANGED <<head, tail, data, pos, pushed, put, got>>

PushPublishes(t) == pc[t] = "publish" /\ Hand(t, pos[t] + 1)
PopReleases(t) == pc[t] = "release" /\ Hand(t, pos[t] + Capacity)

Push(t) ==
    \/ PushBegin(t) \/ LookForPush(t) \/ ClaimFails(t, tail)
    \/ PushClaims(t) \/ PushWrites(t) \/ PushPublishes(t)

Pop(t) ==
    \/ PopBegin(t) \/ LookForPop(t) \/ ClaimFails(t, head)
    \/ PopClaims(t) \/ PopReads(t) \/ PopReleases(t)

Next == \/ \E t \in Producers : Push(t)
        \/ \E t \in Consumers : Pop(t)

Spec == Init /\ [][Next]_vars

(***************************************************************************)
(* First in, first out, and once: a position is read by at most one pop,   *)
(* which gets the value whose producer claimed that position, whoever is   *)
(* between claiming and publishing a cell (push and pop of MPMCRingQueue). *)
(* It takes two cells: with one, which the constructor allows, the number  *)
(* that says "filled" to a pop says "free" to the next push, which         *)
(* overwrites the value.                                                   *)
(***************************************************************************)
Fifo == \A i \in Positions : got[i] = <<>> \/ got[i] = <<put[i]>>

\* Why: a position between head and tail has its own cell, whose number is the position
\* until its producer publishes, then one more; the cells after tail wait for their turn.
Writes(t) == pc[t] \in {"write", "publish"}
Reads(t) == pc[t] \in {"read", "release"}

InvTypes ==
    /\ head \in Nat /\ tail \in Nat /\ head <= tail /\ tail <= head + Capacity
    /\ sequence \in [Cells -> Int] /\ DOMAIN data = Cells
    /\ pc \in [Threads -> {"idle", "look", "claim", "write", "publish", "read", "release"}]
    /\ pos \in [Threads -> Nat] /\ DOMAIN pushed = Producers
    /\ DOMAIN put = Positions /\ DOMAIN got = Positions
    /\ \A t \in Producers : ~Reads(t)
    /\ \A t \in Consumers : ~Writes(t)

InvCells ==
    /\ \A p \in head..(tail - 1) :
         /\ sequence[Cell(p)] \in {p, p + 1}
         /\ sequence[Cell(p)] = p + 1 /\ p \in Positions => data[Cell(p)] = put[p]
    /\ \A p \in tail..(head + Capacity - 1) : sequence[Cell(p)] \in {p, p - Capacity + 1}

InvProducer(t) ==
    /\ pos[t] <= tail
    /\ pc[t] = "claim" /\ pos[t] = tail => sequence[Cell(pos[t])] = pos[t]
    /\ Writes(t) => /\ pos[t] \in head..(tail - 1) /\ sequence[Cell(pos[t])] = pos[t]
                    /\ pos[t] \in Positions => put[pos[t]] = Value(t)
    /\ pc[t] = "publish" => data[Cell(pos[t])] = Value(t)

InvConsumer(t) ==
    /\ pos[t] <= head
    /\ pc[t] = "claim" /\ pos[t] = head => sequence[Cell(pos[t])] = pos[t] + 1
    /\ Reads(t) => /\ pos[t] < head /\ tail <= pos[t] + Capacity
                   /\ sequence[Cell(pos[t])] = pos[t] + 1
    /\ pc[t] = "read" /\ pos[t] \in Positions =>
         data[Cell(pos[t])] = put[pos[t]] /\ got[pos[t]] = <<>>

InvApart ==
    /\ \A t, u \in Producers : Writes(t) /\ Writes(u) /\ pos[t] = pos[u] => t = u
    /\ \A t, u \in Consumers : Reads(t) /\ Reads(u) /\ pos[t] = pos[u] => t = u

InvGot == \A i \in Positions : got[i] # <<>> => i < head /\ got[i] = <<put[i]>>

Inv ==
    /\ InvTypes /\ InvCells /\ InvApart /\ InvGot
    /\ \A t \in Producers : InvProducer(t)
    /\ \A t \in Consumers : InvConsumer(t)
=============================================================================
