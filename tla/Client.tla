------------------------------- MODULE Client -------------------------------
(***************************************************************************)
(* darwincore::network::Client and its ClientReactor.  Four threads run:   *)
(* the application's owner (Connect, GracefulShutdown, Disconnect), a      *)
(* sender (SendData, SendAsync), the reactor's event loop and the one      *)
(* worker that calls OnNetworkEvent.  As client.h demands, the owner       *)
(* closes only while the sender is not inside a call.  The process has     *)
(* one free descriptor number, so that a new connection gets the number    *)
(* of the last one; num tells the connections apart for the properties.    *)
(***************************************************************************)
EXTENDS Naturals, Sequences

CONSTANTS MaxDials,       \* bound: calls of Connect
          MaxSends,       \* bound: calls of SendData and SendAsync
          MaxData,        \* bound: times the peer sends
          MaxBuffer,      \* SendBuffer's MAX_CAPACITY, in units
          HighWater,      \* SEND_HIGH_WATER_MARK, in units
          BatchOps,       \* kMaxBatchSize
          SyscallsMayFail \* connect, kqueue and kevent may fail

ASSUME ClientAssumption ==
  {MaxDials, MaxSends, MaxData, MaxBuffer, HighWater, BatchOps} \subseteq Nat

VARIABLES state,     \* Client: state_
          reactor,   \* Client: reactor_: "none", "failed" (Start failed), "up"
          running,   \* ClientReactor: is_running_
          conn,      \* ClientReactor: connection_ and has_connection_
          sock,      \* the descriptor, in the kernel
          filters,   \* the filters registered for it
          ops,       \* send_operations_
          loop,      \* the event loop: pc, operations done, events to handle
          events,    \* the worker's queue
          owner,     \* the owner's place: "idle" between calls
          sender,    \* the sender's place: "idle", "waiting", "timed"
          out,       \* units given to send(), with the connection they left on
          accepted,  \* units Write took, in order
          left       \* how many calls of each kind there may still be

clientVars == <<state, owner, sender, left>>
reactorVars == <<reactor, running, conn, filters, ops, loop>>
vars == <<clientVars, reactorVars, sock, events, out, accepted>>

NoSock == [status |-> "none", num |-> 0, data |-> FALSE, full |-> FALSE]
\* struct ClientConnection.  unwatched is history: since the buffer was last empty
\* on this connection the write filter was not asked for, because units or a set
\* write_pending were taken over from the connection before, or was refused.
NoConn == [has |-> FALSE, num |-> 0, buf |-> <<>>, write_pending |-> FALSE, unwatched |-> FALSE]
AtRest == [pc |-> "off", done |-> 0, batch |-> <<>>]

\* The two units of the m-th send.
Payload(m) == <<<<m, 1>>, <<m, 2>>>>

Init == /\ state = "kDisconnected"
        /\ reactor = "none"
        /\ running = FALSE
        /\ conn = NoConn
        /\ sock = NoSock
        /\ filters = {}
        /\ ops = <<>>
        /\ loop = AtRest
        /\ events = <<>>
        /\ owner = "idle"
        /\ sender = "idle"
        /\ out = <<>>
        /\ accepted = <<>>
        /\ left = [dials |-> MaxDials, sends |-> MaxSends, data |-> MaxData]

-----------------------------------------------------------------------------
(* Connect, on the owner's thread                                          *)

Num == MaxDials - left.dials

\* DispatchEvent hands the event to the worker.
Dispatch(kind) == events' = Append(events, kind)

\* state_.exchange(kConnecting); any other state than kDisconnected refuses
\* the call and keeps kConnecting.
ConnectInternal == /\ owner = "idle" /\ left.dials > 0
                   /\ state' = "kConnecting"
                   /\ owner' = IF state = "kDisconnected" THEN "dial" ELSE "idle"
                   /\ left' = [left EXCEPT !.dials = @ - 1]
                   /\ UNCHANGED <<reactorVars, sock, events, sender, out, accepted>>

\* Mutant: the error paths return without closing the descriptor.
GivesUpForgetsClose == /\ UNCHANGED <<sock, filters>>
                       /\ state' = "kDisconnected"
                       /\ owner' = "idle"

\* close(fd), state_ = kDisconnected, return false.  After a failed registration
\* SetConnection has closed fd already; the second close of that number is
\* harmless as long as no other thread of the process has got it meanwhile.
ConnectGivesUp == /\ sock' = NoSock
                  /\ filters' = {}
                  /\ state' = "kDisconnected"
                  /\ owner' = "idle"

\* connect(): established at once, in progress, or failed.
Dial == /\ owner = "dial"
        /\ \/ /\ \E s \in {"connecting", "open"} :
                   sock' = [NoSock EXCEPT !.status = s, !.num = Num]
              /\ owner' = "init"
              /\ UNCHANGED <<state, filters>>
           \/ SyscallsMayFail /\ ConnectGivesUp
        /\ UNCHANGED <<reactor, running, conn, ops, loop, events, sender, left, out, accepted>>

\* ClientReactor::Start
ReactorStarts == /\ reactor' = "up"
                 /\ running' = TRUE
                 /\ loop' = [AtRest EXCEPT !.pc = "top"]

\* InitReactor: nothing to do when reactor_ is there, even one that does not run.
InitReactor == /\ owner = "init"
               /\ \/ /\ reactor = "none"
                     /\ ReactorStarts
                     /\ owner' = "monitor"
                     /\ UNCHANGED <<state, sock, filters>>
                  \/ /\ reactor # "none"
                     /\ owner' = "monitor"
                     /\ UNCHANGED <<reactor, running, loop, state, sock, filters>>
                  \/ /\ reactor = "none" /\ SyscallsMayFail
                     /\ reactor' \in {"none", "failed"}
                     /\ ConnectGivesUp
                     /\ UNCHANGED <<running, loop>>
               /\ UNCHANGED <<conn, ops, events, sender, left, out, accepted>>

\* SetConnection up to StartReadMonitor.  Its branch for a connection that is
\* still there is never taken: NothingLeftOpen says that there is none.
StartReadMonitor == /\ owner = "monitor"
                    /\ \/ /\ running
                          /\ filters' = {"read"}
                          /\ owner' = "fields"
                          /\ UNCHANGED <<sock, state>>
                       \/ (~running \/ SyscallsMayFail) /\ ConnectGivesUp
                    /\ UNCHANGED <<reactor, running, conn, ops, loop, events, sender, left,
                                   out, accepted>>

\* The loop can see the connection from here on.
SetFields == /\ owner = "fields"
             /\ conn' = [conn EXCEPT !.has = TRUE, !.num = Num,
                                  !.unwatched = conn.buf # <<>> \/ conn.write_pending]
             /\ owner' = "tell"
             /\ UNCHANGED <<state, reactor, running, filters, ops, loop, sock, events, sender,
                            left, out, accepted>>

SetConnectionReturns == /\ owner = "tell"
                        /\ Dispatch("connected")
                        /\ owner' = "idle"
                        /\ UNCHANGED <<state, reactorVars, sock, sender, left, out, accepted>>

-----------------------------------------------------------------------------
(* Closing, on the owner's thread                                          *)

\* The compare-and-swap to kClosing; kConnecting goes on without it.
MayClose == owner = "idle" /\ sender = "idle" /\ state \in {"kConnected", "kConnecting"}
Closing == state' = IF state = "kConnected" THEN "kClosing" ELSE state

Disconnect == /\ MayClose
              /\ Closing
              /\ owner' = "stop"
              /\ UNCHANGED <<reactorVars, sock, events, sender, left, out, accepted>>

GracefulShutdown == /\ MayClose
                    /\ Closing
                    /\ owner' = "graceful"
                    /\ UNCHANGED <<reactorVars, sock, events, sender, left, out, accepted>>

GetSendBufferSize == IF conn.has THEN Len(conn.buf) ELSE 0

\* The buffer is empty, or time is up and the state stays what it is.
GracefulEnds == /\ owner = "graceful"
                /\ \/ /\ reactor = "none" \/ GetSendBufferSize = 0
                      /\ owner' = "stop"
                   \/ /\ reactor # "none" /\ GetSendBufferSize # 0
                      /\ owner' = "idle"
                /\ UNCHANGED <<state, reactorVars, sock, events, sender, left, out, accepted>>

\* ClientReactor::Stop up to the join; shutdown() ends the stream.
Stop == /\ owner = "stop"
        /\ running' = FALSE
        /\ sock' = IF conn.has THEN [sock EXCEPT !.status = "eof"] ELSE sock
        /\ owner' = "join"
        /\ UNCHANGED <<state, reactor, conn, filters, ops, loop, events, sender, left, out,
                       accepted>>

\* Mutant: the connection is left to the kernel.
StopForgetsClose == UNCHANGED sock

StopCloses == sock' = IF conn.has THEN NoSock ELSE sock

\* The loop has ended: close what is left, destroy the reactor and its queue.
StopJoin == /\ owner = "join"
            /\ loop.pc \in {"off", "dead"}
            /\ StopCloses
            /\ reactor' = "none"
            /\ conn' = NoConn
            /\ filters' = {}
            /\ ops' = <<>>
            /\ loop' = AtRest
            /\ accepted' = [i \in DOMAIN out |-> out[i].unit]
            /\ owner' = "pool"
            /\ UNCHANGED <<state, running, events, sender, left, out>>

\* WorkerPool::Stop returns when its queue is drained.
CloseReturns == /\ owner = "pool"
                /\ events = <<>>
                /\ state' = "kDisconnected"
                /\ owner' = "idle"
                /\ UNCHANGED <<reactorVars, sock, events, sender, left, out, accepted>>

-----------------------------------------------------------------------------
(* The sender                                                              *)

\* The owner stops the sender before it closes.
MaySend == /\ sender = "idle" /\ left.sends > 0 /\ state = "kConnected" /\ running
           /\ owner \notin {"graceful", "stop", "join", "pool"}

Enqueue(type) == /\ ops' = Append(ops, [type |-> type, data |-> Payload(left.sends)])
                 /\ left' = [left EXCEPT !.sends = @ - 1]

\* SendData: SendSync waits for its promise, with or without a time limit.
SendData == /\ MaySend
            /\ Enqueue("kSync")
            /\ sender' \in {"waiting", "timed"}
            /\ UNCHANGED <<state, reactor, running, conn, filters, loop, sock, events, owner, out,
                           accepted>>

SendSyncTimesOut == /\ sender = "timed"
                    /\ sender' = "idle"
                    /\ UNCHANGED <<state, reactorVars, sock, events, owner, left, out, accepted>>

SendAsync == /\ MaySend
             /\ GetSendBufferSize <= HighWater
             /\ Enqueue("kAsyncCallback")
             /\ UNCHANGED <<state, reactor, running, conn, filters, loop, sock, events, owner,
                            sender, out, accepted>>

-----------------------------------------------------------------------------
(* The event loop                                                          *)

\* RemoveConnection: the fields, the registration, the descriptor, the event.
\* The buffer and write_pending stay as they are.
RemoveConnection(c) == /\ conn' = [c EXCEPT !.has = FALSE]
                       /\ filters' = {}
                       /\ sock' = NoSock

\* Mutant: the rest of a partial send is not watched for.
NeverWatch(c, buf, ok) == filters

\* Register or drop the write filter, according to write_pending alone; when
\* kevent() fails (~ok) the filters stay, and nobody looks at the result.
WriteFilter(c, buf, ok) == IF ~ok THEN filters
                           ELSE IF buf # <<>> /\ ~c.write_pending THEN filters \cup {"write"}
                           ELSE IF buf = <<>> /\ c.write_pending THEN filters \ {"write"}
                           ELSE filters

\* Mutant: the read position stops one short.
RestRepeats(c, k) == IF k = 0 THEN c.buf ELSE SubSeq(c.buf, k, Len(c.buf))

\* SendToSocket moves read_pos_ by the units taken.
Rest(c, k) == SubSeq(c.buf, k + 1, Len(c.buf))

\* send() takes the first k units of c.buf; fewer than all of them fill the socket.
Takes(c, k) == /\ \E ok \in BOOLEAN :
                    /\ ok \/ SyscallsMayFail
                    /\ conn' = [c EXCEPT !.buf = Rest(c, k), !.write_pending = Rest(c, k) # <<>>,
                                 !.unwatched = Rest(c, k) # <<>> /\ IF c.write_pending THEN @ ELSE ~ok]
                    /\ filters' = WriteFilter(c, Rest(c, k), ok)
               /\ sock' = [sock EXCEPT !.full = k < Len(c.buf)]
               /\ out' = out \o [i \in 1..k |-> [unit |-> c.buf[i], on |-> sock.num]]
               /\ UNCHANGED events

\* TrySendDirect for the connection c.
TrySendDirect(c) ==
  \/ /\ ~c.has
     /\ conn' = c
     /\ UNCHANGED <<filters, sock, out, events>>
  \/ /\ c.has /\ (c.buf = <<>> \/ sock.status \in {"open", "eof"})
     /\ \E k \in (IF sock.full \/ c.buf = <<>> THEN {0} ELSE 1..Len(c.buf)) : Takes(c, k)
  \/ /\ c.has /\ c.buf # <<>> /\ sock.status # "open"
     /\ RemoveConnection(c)
     /\ Dispatch("disconnected")
     /\ UNCHANGED out

LoopTop == /\ loop.pc = "top"
           /\ loop' = IF running THEN [loop EXCEPT !.pc = "ops", !.done = 0] ELSE AtRest
           /\ UNCHANGED <<clientVars, reactor, running, conn, filters, ops, sock, events, out,
                          accepted>>

\* Mutant: a send that finds no connection is not answered.
AnswerOnlySent(op, success) ==
  IF success /\ op.type = "kSync" /\ op.data = Payload(left.sends + 1) THEN "idle" ELSE sender

\* set_value releases the caller that waits for this operation, the last one sent.
Answer(op, success) ==
  IF op.type = "kSync" /\ op.data = Payload(left.sends + 1) THEN "idle" ELSE sender

\* DoSend finds a connection and Write finds space.
Fits(op) == conn.has /\ Len(conn.buf) + Len(op.data) <= MaxBuffer

\* DoSend and the answer for one operation.
ProcessPendingOperation ==
  /\ loop.pc = "ops" /\ loop.done < BatchOps /\ ops # <<>>
  /\ LET op == Head(ops)
     IN  /\ IF Fits(op) THEN TrySendDirect([conn EXCEPT !.buf = @ \o op.data])
            ELSE UNCHANGED <<conn, filters, sock, out, events>>
         /\ accepted' = IF Fits(op) THEN accepted \o op.data ELSE accepted
         /\ sender' = Answer(op, Fits(op))
  /\ ops' = Tail(ops)
  /\ loop' = [loop EXCEPT !.done = @ + 1]
  /\ UNCHANGED <<state, reactor, running, owner, left>>

\* The batch is over: one more TrySendDirect, then kevent().
OperationsDone == /\ loop.pc = "ops" /\ (loop.done = BatchOps \/ ops = <<>>)
                  /\ IF loop.done > 0 THEN TrySendDirect(conn)
                     ELSE UNCHANGED <<conn, filters, sock, out, events>>
                  /\ loop' = [loop EXCEPT !.pc = "wait"]
                  /\ UNCHANGED <<clientVars, reactor, running, ops, accepted>>

Ended == sock.status \in {"eof", "broken"}
Ready(f) == \/ f = "read" /\ (sock.data \/ Ended)
            \/ f = "write" /\ (Ended \/ (sock.status = "open" /\ ~sock.full))

\* kevent() returns what is ready, or nothing when only the wake-up event or
\* the 5 seconds ended the wait.
WaitEvents == /\ loop.pc = "wait"
              /\ loop' = [loop EXCEPT !.pc = "events",
                            !.batch = SelectSeq(<<[filter |-> "read", eof |-> Ended],
                                                  [filter |-> "write", eof |-> Ended]>>,
                                                LAMBDA e : e.filter \in filters /\ Ready(e.filter))]
              /\ UNCHANGED <<clientVars, reactor, running, conn, filters, ops, sock, events, out,
                             accepted>>

\* An error other than EINTR ends the thread; is_running_ stays true.
WaitFails == /\ loop.pc = "wait" /\ SyscallsMayFail
             /\ loop' = [loop EXCEPT !.pc = "dead"]
             /\ UNCHANGED <<clientVars, reactor, running, conn, filters, ops, sock, events, out,
                            accepted>>

\* recv() until it has nothing more, or the stream has ended.
HandleReadEvent == LET tell == IF sock.data THEN Append(events, "data") ELSE events
                   IN  IF Ended THEN /\ RemoveConnection(conn)
                                     /\ events' = Append(tell, "disconnected")
                       ELSE /\ sock' = [sock EXCEPT !.data = FALSE]
                            /\ events' = tell
                            /\ UNCHANGED <<conn, filters>>

ProcessKqueueEvent ==
  /\ loop.pc = "events" /\ loop.batch # <<>>
  /\ loop' = [loop EXCEPT !.batch = Tail(@)]
  /\ LET e == Head(loop.batch)
     IN  \/ ~conn.has /\ UNCHANGED <<conn, filters, sock, events, out>>
         \/ /\ conn.has /\ e.eof
            /\ RemoveConnection(conn)
            /\ Dispatch("disconnected")
            /\ UNCHANGED out
         \/ conn.has /\ ~e.eof /\ e.filter = "read" /\ HandleReadEvent /\ UNCHANGED out
         \/ conn.has /\ ~e.eof /\ e.filter = "write" /\ TrySendDirect(conn)
  /\ UNCHANGED <<clientVars, reactor, running, ops, accepted>>

BatchDone == /\ loop.pc = "events" /\ loop.batch = <<>>
             /\ loop' = [loop EXCEPT !.pc = "top"]
             /\ UNCHANGED <<clientVars, reactor, running, conn, filters, ops, sock, events, out,
                            accepted>>

-----------------------------------------------------------------------------
(* The worker and the peer                                                 *)

\* OnNetworkEvent: the state follows the event, then the callback runs.
OnNetworkEvent == /\ events # <<>>
                  /\ events' = Tail(events)
                  /\ state' = CASE Head(events) = "connected" -> "kConnected"
                                [] Head(events) = "disconnected" -> "kDisconnected"
                                [] OTHER -> state
                  /\ UNCHANGED <<reactorVars, owner, sender, left, sock, out, accepted>>

\* The connection is established, closed by the peer or lost.
Network == /\ \E s \in {"open", "eof", "broken"} :
                /\ <<sock.status, s>> \in {<<"connecting", "open">>, <<"connecting", "broken">>,
                                          <<"open", "eof">>, <<"open", "broken">>}
                /\ sock' = [sock EXCEPT !.status = s]
           /\ UNCHANGED <<clientVars, reactorVars, events, out, accepted>>

PeerSends == /\ sock.status = "open" /\ ~sock.data /\ left.data > 0
             /\ sock' = [sock EXCEPT !.data = TRUE]
             /\ left' = [left EXCEPT !.data = @ - 1]
             /\ UNCHANGED <<state, owner, sender, reactorVars, events, out, accepted>>

\* The peer makes room in the socket's buffer.
PeerReads == /\ sock.full
             /\ sock' = [sock EXCEPT !.full = FALSE]
             /\ UNCHANGED <<clientVars, reactorVars, events, out, accepted>>

OwnerStep == \/ Dial \/ InitReactor \/ StartReadMonitor \/ SetFields \/ SetConnectionReturns
             \/ GracefulEnds \/ Stop \/ StopJoin \/ CloseReturns
LoopStep == \/ LoopTop \/ ProcessPendingOperation \/ OperationsDone \/ WaitEvents
            \/ ProcessKqueueEvent \/ BatchDone

Next == \/ ConnectInternal \/ Disconnect \/ GracefulShutdown \/ OwnerStep
        \/ SendData \/ SendSyncTimesOut \/ SendAsync
        \/ LoopStep \/ WaitFails
        \/ OnNetworkEvent
        \/ Network \/ PeerSends \/ PeerReads

Spec == Init /\ [][Next]_vars

\* Threads that can go on do so; a call that has begun is finished.
FairSpec == Spec /\ WF_vars(OwnerStep) /\ WF_vars(LoopStep) /\ WF_vars(OnNetworkEvent)

-----------------------------------------------------------------------------
\* The units that have left on all connections of a reactor, followed by those
\* in the send buffer, are the units it accepted, in order: none is lost,
\* doubled or overtaken by TrySendDirect, a partial send or a reconnection.
StreamInOrder == [i \in DOMAIN out |-> out[i].unit] \o conn.buf = accepted

\* A descriptor is open only as long as the reactor has it as its connection or
\* the call of Connect that opened it is about to hand it over, whichever of the
\* steps of ConnectInternal fails (connect(), the start of the reactor, the
\* registration), and whether the peer, the loop or Stop ends the connection.
\* And a Connect that dials finds no connection in the reactor that it would
\* have to close first (SetConnection).
NothingLeftOpen == /\ sock.status # "none" => conn.has \/ owner \in {"init", "monitor", "fields"}
                   /\ owner \in {"dial", "init", "monitor", "fields"} => ~conn.has

\* The loop waits with units in the send buffer only if it watches for the
\* socket to become writable, with two exceptions that end when the buffer is
\* next empty: the units or write_pending came from the connection before, or
\* StartWriteMonitor failed, which TrySendDirect does not look at.
WaitsForSpace == loop.pc = "wait" /\ conn.has /\ conn.buf # <<>> =>
                   "write" \in filters \/ conn.unwatched

\* A SendData without a time limit returns, unless the event loop has died:
\* whatever happens to the connection, its promise is answered.
SendSyncReturns == sender = "waiting" ~> (sender = "idle" \/ loop.pc = "dead")

=============================================================================
