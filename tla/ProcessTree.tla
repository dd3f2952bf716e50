---------------------------- MODULE ProcessTree ----------------------------
(***************************************************************************)
(* ProcessTree (foundation/process/ProcessTree.h and .cpp): processes are  *)
(* reported as they start and as they die.  A dead process stays while a   *)
(* descendant lives, known only by a counter kept along the chain of       *)
(* parents.  Every operation runs under the mutex, so it is one step.      *)
(***************************************************************************)
EXTENDS Integers, Sequences, FiniteSets, SequencesExt

CONSTANTS Keys,    \* ProcKey: a pid and its version
          Launchd, \* the key with pid 1
          NoNode

VARIABLES node    \* nodes_: key to ProcessNode

vars == <<node>>

ProcessNode == [parent : Keys \cup {NoNode}, responsible : Keys,
                children : SUBSET Keys, state : {"Alive", "Dead"},
                alive_descendant_count : 0..Cardinality(Keys)]

Init == node = [k \in {} |-> NoNode]

Present == DOMAIN node

\* The chain of weak parent pointers from k upwards, k included.
RECURSIVE Chain(_)
Chain(k) == IF k = NoNode THEN {} ELSE {k} \cup Chain(node[k].parent)

\* A process is only linked to a parent that was reported before it.
AddProcess(k, pk, rk) ==
    /\ k \notin Present
    /\ LET parent == IF pk \in Present THEN pk ELSE NoNode
           new == [parent |-> parent, responsible |-> rk, children |-> {},
                   state |-> "Alive", alive_descendant_count |-> 0]
           up == Chain(parent)
       IN node' = [j \in Present \cup {k} |->
              IF j = k THEN new
              ELSE [node[j] EXCEPT
                      !.children = IF j = parent THEN @ \cup {k} ELSE @,
                      !.alive_descendant_count = IF j \in up THEN @ + 1 ELSE @]]

\* Mutant: telling the parent of the dead process only.
ParentOnly(k) == {node[k].parent} \ {NoNode}

\* The nodes whose counter goes down: every ancestor.
Told(k) == Chain(node[k].parent)

Counted(k) == [j \in Present |->
    [node[j] EXCEPT !.state = IF j = k THEN "Dead" ELSE @,
                    !.alive_descendant_count = IF j \in Told(k) /\ @ > 0 THEN @ - 1 ELSE @]]

\* tryCleanup: what is erased, from n upwards, in the nodes f.
RECURSIVE Cleaned(_, _)
Cleaned(f, n) ==
    IF n = NoNode THEN {}
    ELSE IF f[n].state = "Dead" /\ f[n].alive_descendant_count = 0
         THEN {n} \cup Cleaned(f, f[n].parent)
         ELSE {}

\* An erased node leaves its parent's list; a weak pointer to it expires.
MarkProcessDead(k) ==
    /\ k \in Present /\ node[k].state = "Alive"
    /\ LET f == Counted(k)
           gone == Cleaned(f, k)
       IN node' = [j \in Present \ gone |->
              [f[j] EXCEPT !.children = @ \ gone,
                           !.parent = IF @ \in gone THEN NoNode ELSE @]]

\* getProcLineage: the parents, then the responsible processes, then the
\* process itself, each at most once.
RECURSIVE Parents(_, _)
Parents(n, seen) ==
    IF n = NoNode \/ n = Launchd \/ n \in seen THEN <<>>
    ELSE <<n>> \o Parents(node[n].parent, seen \cup {n})

RECURSIVE Responsibles(_, _)
Responsibles(n, seen) ==
    LET r == node[n].responsible IN
    IF r \notin Present \/ r \in seen THEN <<>> ELSE <<r>> \o Responsibles(r, seen \cup {r})

GetProcLineage(k) ==
    LET up == Parents(k, {})
        line == up \o Responsibles(k, ToSet(up))
    IN IF k \in ToSet(line) THEN line ELSE Append(line, k)

\* launchd has no parent.
Next == \E k \in Keys :
    \/ \E pk \in IF k = Launchd THEN {k} ELSE Keys \ {k} :
         \E rk \in {pk, Launchd} : AddProcess(k, pk, rk)
    \/ MarkProcessDead(k)

Spec == Init /\ [][Next]_vars

Descendants(k) == {j \in Present : j # k /\ k \in Chain(j)}

(***************************************************************************)
(* Whatever the order of starts and deaths, a counter is the number of     *)
(* living descendants, a parent and its children know each other, a dead   *)
(* process is kept exactly while a descendant lives, and a lineage names   *)
(* each ancestor above launchd once (addProcess, markProcessDead,          *)
(* getProcLineage).                                                        *)
(***************************************************************************)
TreeCounts == \A k \in Present :
    LET alive == {j \in Descendants(k) : node[j].state = "Alive"} IN
    /\ node[k].alive_descendant_count = Cardinality(alive)
    /\ node[k].children = {j \in Present : node[j].parent = k}
    /\ node[k].state = "Dead" => alive # {}
    /\ node[k].parent # NoNode => node[k].parent \in Present
    /\ IsInjective(GetProcLineage(k))
    /\ (Chain(k) \ {Launchd}) \cup {k} \subseteq ToSet(GetProcLineage(k))
=============================================================================
