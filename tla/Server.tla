------------------------------- MODULE Server -------------------------------
(***************************************************************************)
(* darwincore::network::Server with its Acceptors: the order in which the  *)
(* worker pool, the reactors and the acceptors are started and stopped,    *)
(* the way of a connection from accept() to a reactor, the statistics, and *)
(* SendData finding the reactor of a connection.  A reactor and the pool   *)
(* are what Reactor and WorkerPool promise: a queue of additions, a table  *)
(* of connections, a queue of events handled in order and drained by Stop. *)
(* Any thread may call Start or Stop; the callers race for state_.         *)
(***************************************************************************)
EXTENDS Naturals, Sequences, FiniteSets, Functions

CONSTANTS Callers,          \* threads that call Start... and Stop
          Sender,           \* a thread that calls SendData
          ReactorCount,     \* options_.reactor_count
          Starts,           \* the Start... methods that are called
          Fds,              \* descriptor numbers for accepted connections
          MaxStarts,        \* bound: calls of Start...
          MaxClients,       \* bound: clients that connect
          MaxSends,         \* bound: calls of SendData
          SyscallsMayFail   \* listening, accepting and starting may fail

VARIABLES state,      \* state_
          pool,       \* worker_pool_: "none" or "up"
          events,     \* the pool's events
          reactors,   \* reactors_: running, queued descriptors, connections, next number
          acceptors,  \* acceptors_: running flag, thread, descriptor in hand, next reactor
          call,       \* what each caller and the sender is doing
          active,     \* active_connections_
          open,       \* open descriptors of accepted connections
          issued,     \* identifiers given out, in order
          unseen,     \* history: connections a Stop closed without an event
          left        \* how many calls and clients there may still be

vars == <<state, pool, events, reactors, acceptors, call, active, open, issued, unseen, left>>

\* The protocols each Start... method listens on, in order.
Protocols == [StartIPv4 |-> <<"IPv4">>, StartIPv6 |-> <<"IPv6">>,
              StartUniversalIP |-> <<"IPv4", "IPv6">>, StartUnixDomain |-> <<"Unix">>]

ASSUME StartsAssumption == Starts \subseteq DOMAIN Protocols
ASSUME ServerAssumption == /\ ReactorCount \in Nat \ {0}   \* 0 in the options stands for the cores
                           /\ Sender \notin Callers
                           /\ Fds \subseteq Nat \ {0}
                           /\ {MaxStarts, MaxClients, MaxSends} \subseteq Nat

Idle == [pc |-> "idle", todo |-> <<>>, ok |-> FALSE, id |-> <<>>]
NewReactor == [running |-> TRUE, adds |-> <<>>, conns |-> {}, seq |-> 1]
NewAcceptor == [running |-> TRUE, thread |-> "run", hand |-> 0, next |-> 0]

Init == /\ state = "kStopped"
        /\ pool = "none"
        /\ events = <<>>
        /\ reactors = <<>>
        /\ acceptors = [p \in {} |-> NewAcceptor]
        /\ call = [t \in Callers \cup {Sender} |-> Idle]
        /\ active = 0
        /\ open = {}
        /\ issued = <<>>
        /\ unseen = 0
        /\ left = [starts |-> MaxStarts, clients |-> MaxClients, sends |-> MaxSends]

Goto(t, pc) == call' = [call EXCEPT ![t].pc = pc]

-----------------------------------------------------------------------------
(* Start                                                                   *)

\* StartInternal: only a stopped server can be started.
StartInternal(t) == /\ call[t].pc = "idle" /\ left.starts > 0 /\ state = "kStopped"
                    /\ state' = "kStarting"
                    /\ \E m \in Starts :
                         call' = [call EXCEPT ![t] = [Idle EXCEPT !.pc = "pool", !.todo = Protocols[m]]]
                    /\ left' = [left EXCEPT !.starts = @ - 1]
                    /\ UNCHANGED <<pool, events, reactors, acceptors, active, open, issued, unseen>>

\* Return false: the state goes back, what was started stays.
StartFails(t) == state' = "kStopped" /\ call' = [call EXCEPT ![t] = Idle]

\* A pool that is there is used again.
InitializeWorkerPool(t) == /\ call[t].pc = "pool"
                           /\ \/ /\ pool' = "up"
                                 /\ Goto(t, "reactors")
                                 /\ UNCHANGED state
                              \/ /\ pool = "none" /\ SyscallsMayFail
                                 /\ StartFails(t)
                                 /\ UNCHANGED pool
                           /\ UNCHANGED <<events, reactors, acceptors, active, open, issued, unseen, left>>

\* All reactors, or none when one of them does not start; then the callback.
InitializeReactors(t) ==
  /\ call[t].pc = "reactors"
  /\ \/ /\ reactors' = IF reactors # <<>> THEN reactors
                       ELSE [i \in 1..ReactorCount |-> NewReactor]
        /\ Goto(t, "listen")
        /\ UNCHANGED state
     \/ /\ reactors = <<>> /\ SyscallsMayFail
        /\ StartFails(t)
        /\ UNCHANGED reactors
  /\ UNCHANGED <<pool, events, acceptors, active, open, issued, unseen, left>>

\* One protocol: ListenGeneric succeeds and its thread starts, or it fails.  The
\* constructor of the thread may throw, and nothing up to the caller of Start...
\* catches it: the acceptor is destroyed, an earlier one stays, and state_ stays
\* kStarting, so that no Start and no Stop gets past its test any more.
CreateAndStartAcceptor(t) ==
  /\ call[t].pc = "listen" /\ call[t].todo # <<>>
  /\ \/ /\ acceptors' = [p \in DOMAIN acceptors \cup {Head(call[t].todo)} |->
                           IF p = Head(call[t].todo) THEN NewAcceptor ELSE acceptors[p]]
        /\ call' = [call EXCEPT ![t].todo = Tail(@), ![t].ok = TRUE]
     \/ /\ SyscallsMayFail
        /\ call' \in {[call EXCEPT ![t].todo = Tail(@)], [call EXCEPT ![t] = Idle]}
        /\ UNCHANGED acceptors
  /\ UNCHANGED <<state, pool, events, reactors, active, open, issued, unseen, left>>

\* One acceptor is enough.
StartReturns(t) == /\ call[t].pc = "listen" /\ call[t].todo = <<>>
                   /\ state' = IF call[t].ok THEN "kRunning" ELSE "kStopped"
                   /\ call' = [call EXCEPT ![t] = Idle]
                   /\ UNCHANGED <<pool, events, reactors, acceptors, active, open, issued, unseen, left>>

-----------------------------------------------------------------------------
(* Stop                                                                    *)

StopBegins(t) == /\ call[t].pc = "idle" /\ state = "kRunning"
                 /\ state' = "kStopping"
                 /\ Goto(t, "stop acceptors")
                 /\ UNCHANGED <<pool, events, reactors, acceptors, active, open, issued, unseen, left>>

\* Mutant: the flag the accept thread tests is not lowered.
StopAcceptorForgets(t, p) == /\ call[t].pc = "stop acceptors" /\ acceptors[p].running
                             /\ UNCHANGED vars

\* acceptors_.clear() destroys one after the other; Acceptor::Stop up to the join.
StopAcceptor(t, p) == /\ call[t].pc = "stop acceptors"
                      /\ \A q \in DOMAIN acceptors : acceptors[q].running
                      /\ acceptors' = [acceptors EXCEPT ![p].running = FALSE]
                      /\ UNCHANGED <<state, pool, events, reactors, call, active, open, issued, unseen, left>>

\* The accept thread has ended: the listening socket is closed.
JoinAcceptor(t, p) == /\ call[t].pc = "stop acceptors"
                      /\ ~acceptors[p].running /\ acceptors[p].thread = "ended"
                      /\ acceptors' = Restrict(acceptors, DOMAIN acceptors \ {p})
                      /\ UNCHANGED <<state, pool, events, reactors, call, active, open, issued, unseen, left>>

\* Mutant: the threads are told to end and not joined.
AllTold == \A p \in DOMAIN acceptors : ~acceptors[p].running

\* acceptors_.clear() has destroyed them all.
AllJoined == DOMAIN acceptors = {}

AcceptorsStopped(t) == /\ call[t].pc = "stop acceptors" /\ AllJoined
                       /\ Goto(t, "stop reactors")
                       /\ UNCHANGED <<state, pool, events, reactors, acceptors, active, open, issued, unseen,
                                      left>>

\* Reactor::Stop closes its connections without an event; what was still queued
\* stays open.
StopReactor(t, i) ==
  /\ call[t].pc = "stop reactors" /\ reactors[i].running
  /\ \A j \in 1..i - 1 : ~reactors[j].running
  /\ reactors' = [reactors EXCEPT ![i].running = FALSE, ![i].conns = {}]
  /\ open' = open \ {id[2] : id \in reactors[i].conns}
  /\ unseen' = unseen + Cardinality(reactors[i].conns)
  /\ UNCHANGED <<state, pool, events, acceptors, call, active, issued, left>>

ReactorsStopped(t) == /\ call[t].pc = "stop reactors" /\ \A i \in DOMAIN reactors : ~reactors[i].running
                      /\ reactors' = <<>>
                      /\ Goto(t, "stop pool")
                      /\ UNCHANGED <<state, pool, events, acceptors, active, open, issued, unseen, left>>

\* WorkerPool::Stop returns when the events are drained.
Drained == events = <<>>

StopPool(t) == /\ call[t].pc = "stop pool" /\ Drained
               /\ pool' = "none"
               /\ state' = "kStopped"
               /\ Goto(t, "idle")
               /\ UNCHANGED <<events, reactors, acceptors, active, open, issued, unseen, left>>

-----------------------------------------------------------------------------
(* The accept threads                                                      *)

\* accept() gives the lowest free number; SetNonBlocking may fail, and then the
\* descriptor is closed at once.
AcceptLoop(p) ==
  /\ acceptors[p].running /\ acceptors[p].thread = "run" /\ acceptors[p].hand = 0
  /\ left.clients > 0 /\ Fds \ open # {}
  /\ left' = [left EXCEPT !.clients = @ - 1]
  /\ \/ \E fd \in Fds \ open :
          /\ \A g \in Fds \ open : fd <= g
          /\ acceptors' = [acceptors EXCEPT ![p].hand = fd]
          /\ open' = open \cup {fd}
     \/ SyscallsMayFail /\ UNCHANGED <<acceptors, open>>
  /\ UNCHANGED <<state, pool, events, reactors, call, active, issued, unseen>>

\* Mutant: every connection goes to the first reactor.
FirstReactor(p) == 1

\* next_reactor_index_.fetch_add(1) % reactors_.size()
NextReactor(p) == (acceptors[p].next % Len(reactors)) + 1

\* AddConnection takes the descriptor, or it is closed.
AssignToReactor(p) ==
  /\ acceptors[p].hand # 0
  /\ LET fd == acceptors[p].hand
     IN  IF reactors # <<>> /\ reactors[NextReactor(p)].running
         THEN /\ reactors' = [reactors EXCEPT ![NextReactor(p)].adds = Append(@, fd)]
              /\ UNCHANGED open
         ELSE open' = open \ {fd} /\ UNCHANGED reactors
  /\ acceptors' = [acceptors EXCEPT ![p].hand = 0, ![p].next = @ + 1]
  /\ UNCHANGED <<state, pool, events, call, active, issued, unseen, left>>

\* The loop ends when the flag is down, or at once if the socket cannot be watched.
AcceptThreadEnds(p) == /\ acceptors[p].thread = "run" /\ acceptors[p].hand = 0
                       /\ ~acceptors[p].running \/ SyscallsMayFail
                       /\ acceptors' = [acceptors EXCEPT ![p].thread = "ended"]
                       /\ UNCHANGED <<state, pool, events, reactors, call, active, open, issued, unseen, left>>

-----------------------------------------------------------------------------
(* Reactors and workers                                                    *)

\* The number is used up in any case; a descriptor that cannot be watched is
\* closed, and nobody is told.
DoAddConnection(i) ==
  /\ reactors[i].running /\ reactors[i].adds # <<>>
  /\ LET id == <<i, Head(reactors[i].adds), reactors[i].seq>>
     IN  \/ /\ reactors' = [reactors EXCEPT ![i].adds = Tail(@), ![i].conns = @ \cup {id},
                                            ![i].seq = @ + 1]
            /\ events' = Append(events, [type |-> "kConnected", id |-> id])
            /\ issued' = Append(issued, id)
            /\ UNCHANGED open
         \/ /\ SyscallsMayFail
            /\ reactors' = [reactors EXCEPT ![i].adds = Tail(@), ![i].seq = @ + 1]
            /\ open' = open \ {id[2]}
            /\ UNCHANGED <<events, issued>>
  /\ UNCHANGED <<state, pool, acceptors, call, active, unseen, left>>

ConnectionCloses(i, id) ==
  /\ reactors[i].running /\ id \in reactors[i].conns
  /\ reactors' = [reactors EXCEPT ![i].conns = @ \ {id}]
  /\ open' = open \ {id[2]}
  /\ events' = Append(events, [type |-> "kDisconnected", id |-> id])
  /\ UNCHANGED <<state, pool, acceptors, call, active, issued, unseen, left>>

\* Mutant: a connection that ends is not taken off the count.
CountConnectedOnly(e) == IF e.type = "kConnected" THEN active + 1 ELSE active

Count(e) == IF e.type = "kConnected" THEN active + 1 ELSE active - 1

OnNetworkEvent == /\ events # <<>>
                  /\ active' = Count(Head(events))
                  /\ events' = Tail(events)
                  /\ UNCHANGED <<state, pool, reactors, acceptors, call, open, issued, unseen, left>>

\* SendData up to the test of the reactor's number; only a running server sends.
SendData(id) == /\ call[Sender].pc = "idle" /\ left.sends > 0
                /\ state = "kRunning" /\ id[1] <= Len(reactors)
                /\ call' = [call EXCEPT ![Sender] = [Idle EXCEPT !.pc = "send", !.id = id]]
                /\ left' = [left EXCEPT !.sends = @ - 1]
                /\ UNCHANGED <<state, pool, events, reactors, acceptors, active, open, issued, unseen>>

\* reactors_[reactor_id]->SendData, with no lock since the test.
SendDataIndexes == /\ call[Sender].pc = "send"
                   /\ call' = [call EXCEPT ![Sender] = Idle]
                   /\ UNCHANGED <<state, pool, events, reactors, acceptors, active, open, issued, unseen, left>>

CallStep(t) == \/ InitializeWorkerPool(t) \/ InitializeReactors(t) \/ CreateAndStartAcceptor(t)
               \/ StartReturns(t) \/ AcceptorsStopped(t) \/ ReactorsStopped(t) \/ StopPool(t)
               \/ \E p \in DOMAIN acceptors : StopAcceptor(t, p) \/ JoinAcceptor(t, p)
               \/ \E i \in DOMAIN reactors : StopReactor(t, i)
AcceptorStep(p) == AssignToReactor(p) \/ AcceptThreadEnds(p)

Next == \/ \E t \in Callers : StartInternal(t) \/ StopBegins(t) \/ CallStep(t)
        \/ \E p \in DOMAIN acceptors : AcceptLoop(p) \/ AcceptorStep(p)
        \/ \E i \in DOMAIN reactors :
             DoAddConnection(i) \/ \E id \in reactors[i].conns : ConnectionCloses(i, id)
        \/ OnNetworkEvent
        \/ \E i \in DOMAIN issued : SendData(issued[i])
        \/ SendDataIndexes

Spec == Init /\ [][Next]_vars

\* Every thread that can go on does; the threads of the listening sockets too.
FairSpec == /\ Spec
            /\ \A t \in Callers : WF_vars(CallStep(t))
            /\ WF_vars(\E p \in DOMAIN acceptors : AcceptorStep(p))
            /\ WF_vars(OnNetworkEvent)

-----------------------------------------------------------------------------
Counted == Cardinality(UNION {reactors[i].conns : i \in DOMAIN reactors})

\* The connections a reactor was given since it started: it took a number for
\* each one it handled, the others are still queued.
Got(i) == (reactors[i].seq - 1) + Len(reactors[i].adds)

\* Each layer rests on a running one below it, in every interleaving of
\* starts, failed starts and stops by several threads: a thread that accepts
\* has all reactors running to give the connection to, and a running reactor
\* has a pool to send its events to (Server::Stop, Acceptor::Stop).
LayersRest == /\ \A p \in DOMAIN acceptors : acceptors[p].thread = "run" \/ acceptors[p].hand # 0 =>
                    /\ Len(reactors) = ReactorCount
                    /\ \A i \in DOMAIN reactors : reactors[i].running
              /\ (\E i \in DOMAIN reactors : reactors[i].running) => pool = "up"
              /\ events # <<>> => pool = "up"

\* With no event waiting the count of active connections is the sum over the
\* reactors' tables and, for ever, the connections every Stop so far closed
\* without an event: over any number of restarts, failed registrations and ends
\* of connections nothing else makes it drift, and it never falls short
\* (OnNetworkEvent, Reactor::CleanupAllConnections).
ActiveCounts == events = <<>> => active = Counted + unseen

\* A single acceptor deals its connections out evenly from the first start to the
\* first Stop: the numbers of connections two reactors got from it, the ones
\* that could not be registered included, never differ by more than one
\* (AssignToReactor).  Two acceptors deal independently, and a restart begins
\* again with the first reactor.
DealtEvenly ==
  left.starts = MaxStarts - 1 /\ state = "kRunning" /\ Cardinality(DOMAIN acceptors) = 1 =>
    \A i, j \in DOMAIN reactors : Got(i) <= Got(j) + 1

\* Start and Stop return: the accept threads end, the reactors stop and the
\* events are drained, whatever fails on the way.
CallsReturn == \A t \in Callers : call[t].pc # "idle" ~> call[t].pc = "idle"

\* What server.h says of SendData, that any thread may call it: the reactor it
\* found in the list is still there when it uses it.
SendDataSafe == call[Sender].pc = "send" => call[Sender].id[1] <= Len(reactors)
=============================================================================
