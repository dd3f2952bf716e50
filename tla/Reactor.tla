------------------------------- MODULE Reactor -------------------------------
(***************************************************************************)
(* darwincore::network::Reactor: the thread that owns the connections of   *)
(* one kqueue.  Other threads (the acceptor, workers, users) reach it only *)
(* through pending_operations_ and the EVFILT_USER wake-up; the connection *)
(* table belongs to the event loop.  A call is split where another thread  *)
(* can get in between: the test of is_running_, the Enqueue and the        *)
(* TriggerWakeupEvent.  The loop runs each operation and each kqueue event *)
(* to its end as one step: nothing else touches the state it uses.         *)
(*                                                                         *)
(* Sockets and kqueue are external: a descriptor is free or carries one    *)
(* accepted connection (its incarnation number), filters are level         *)
(* triggered, a batch is a snapshot, and closing a descriptor drops its    *)
(* filters and makes the number available to the next accept().            *)
(***************************************************************************)
EXTENDS Naturals, Sequences, FiniteSets, SequencesExt

CONSTANTS
  Fds,            \* descriptor numbers, positive
  Acceptor,       \* the thread that runs Acceptor::AcceptLoop
  Users,          \* the threads that send, remove and query
  SeqValues,      \* number of values of connection_seq_ (2^16 in the code)
  BatchOps,       \* kMaxBatchSize of ProcessPendingOperations
  EventBatch,     \* kDefaultEventBatchSize of RunEventLoop
  HighWater, LowWater, MaxBuffer,  \* the marks of SendBuffer, in units
  SendSizes,      \* sizes of the payloads handed to SendData
  Budget,         \* bounds of the model: how many calls of each type
  MayStop,        \* whether Stop is called in this instance
  SyscallsMayFail \* whether, in this instance, kevent() may fail to wait or to
                  \* register a new socket, and send() be interrupted

OpTypes == {"add", "remove", "send", "query"}
Callers == Users \cup {Acceptor}

ASSUME ReactorAssumption ==
  /\ Fds \subseteq Nat \ {0} /\ IsFiniteSet(Fds)
  /\ SeqValues \in Nat /\ SeqValues > 1
  /\ BatchOps \in Nat \ {0}
  /\ EventBatch \in Nat \ {0}
  /\ LowWater \in Nat \ {0} /\ HighWater \in Nat /\ MaxBuffer \in Nat
  /\ LowWater <= HighWater /\ HighWater <= MaxBuffer
  /\ SendSizes \subseteq Nat \ {0}
  /\ Budget \in [OpTypes -> Nat]
  /\ MayStop \in BOOLEAN /\ SyscallsMayFail \in BOOLEAN
  /\ Acceptor \notin Users

VARIABLES
  is_running,      \* is_running_
  ops,             \* pending_operations_
  ops_stopped,     \* its is_stopped_
  wakeup,          \* the EVFILT_USER event is triggered
  connections,     \* connections_, a function on the live connection ids
  fd_to_id,        \* fd_to_connection_id_, a function on descriptors
  seq,             \* connection_seq_
  filters,         \* the <<fd, filter>> pairs registered in the kqueue
  batch,           \* events of the current batch not handled yet
  loop,            \* where the event loop is
  processed,       \* operations done by the current ProcessPendingOperations
  stop,            \* progress of Stop
  call,            \* the call each thread is in
  sock,            \* the socket behind each descriptor
  events,          \* per incarnation: the events handed to DispatchEvent
  wire,            \* per incarnation: units handed to the kernel
  issued,          \* per incarnation: its connection id, <<>> before DoAdd
  left             \* what is left of Budget

loopVars == <<batch, loop, processed>>
tableVars == <<connections, fd_to_id, filters, sock, events, wire>>
vars == <<is_running, ops, ops_stopped, wakeup, connections, fd_to_id, seq, filters,
          batch, loop, processed, stop, call, sock, events, wire, issued, left>>

Incarnations == 1..Budget["add"]

Idle == [pc |-> "idle", type |-> "none", fd |-> 0, id |-> <<>>, size |-> 0,
         answered |-> FALSE]
FreeSock == [inc |-> 0, unread |-> FALSE, eof |-> FALSE, reset |-> FALSE, writable |-> FALSE]

Init ==
  /\ is_running = TRUE                  \* after a successful Start
  /\ ops = <<>> /\ ops_stopped = FALSE
  /\ wakeup = FALSE
  /\ connections = <<>> /\ fd_to_id = <<>>
  /\ seq = 0
  /\ filters = {}
  /\ batch = <<>> /\ loop = "top" /\ processed = 0
  /\ stop = "no"
  /\ call = [t \in Callers |-> Idle]
  /\ sock = [fd \in Fds |-> FreeSock]
  /\ events = [i \in Incarnations |-> <<>>]
  /\ wire = [i \in Incarnations |-> <<>>]
  /\ issued = [i \in Incarnations |-> <<>>]
  /\ left = Budget

-----------------------------------------------------------------------------
(* The calls of other threads.                                             *)

Spend(type) == left[type] > 0 /\ left' = [left EXCEPT ![type] = @ - 1]

Returns(t) == call' = [call EXCEPT ![t] = Idle]
At(t, pc) == call' = [call EXCEPT ![t].pc = pc]

\* Mutant: an error path that forgets close(fd).
LeakFd(fd) == UNCHANGED sock

CloseFd(fd) == sock' = [sock EXCEPT ![fd] = FreeSock]

\* accept(): the kernel hands out any free descriptor; AssignToReactor calls
\* AddConnection with it.
Accept(fd) ==
  /\ call[Acceptor].pc = "idle"
  /\ sock[fd].inc = 0
  /\ Spend("add")
  /\ sock' = [sock EXCEPT ![fd] = [FreeSock EXCEPT !.inc = Budget["add"] - left["add"] + 1,
                                                   !.writable = TRUE]]
  /\ call' = [call EXCEPT ![Acceptor] = [Idle EXCEPT !.pc = "check", !.type = "add", !.fd = fd]]
  /\ UNCHANGED <<is_running, ops, ops_stopped, wakeup, connections, fd_to_id, seq, filters,
                 loopVars, stop, events, wire, issued>>

\* A user calls SendData, RemoveConnection or GetSendBufferSize with an id it
\* has learnt from a kConnected event, possibly of a connection now gone.
UserCall(t, type, i, size) ==
  /\ call[t].pc = "idle"
  /\ issued[i] # <<>>
  /\ Spend(type)
  /\ call' = [call EXCEPT ![t] = [Idle EXCEPT !.pc = "check", !.type = type,
                                              !.id = issued[i], !.size = size]]
  /\ UNCHANGED <<is_running, ops, ops_stopped, wakeup, tableVars, seq, loopVars, stop, issued>>

\* AddConnection returned false: AssignToReactor closes the descriptor.
CallFails(t) == /\ Returns(t)
                /\ IF call[t].type = "add" THEN CloseFd(call[t].fd) ELSE UNCHANGED sock

\* The test of is_running_ at the head of all four calls.
CallCheck(t) ==
  /\ call[t].pc = "check"
  /\ IF is_running THEN At(t, "enqueue") /\ UNCHANGED sock ELSE CallFails(t)
  /\ UNCHANGED <<is_running, ops, ops_stopped, wakeup, connections, fd_to_id, seq, filters,
                 loopVars, stop, events, wire, issued, left>>

Operation(t) == [type |-> call[t].type, fd |-> call[t].fd, id |-> call[t].id,
                 size |-> call[t].size, by |-> t]

\* pending_operations_.Enqueue: the queue is unlimited, only a stop refuses.
CallEnqueue(t) ==
  /\ call[t].pc = "enqueue"
  /\ IF ops_stopped
     THEN CallFails(t) /\ UNCHANGED ops
     ELSE At(t, "trigger") /\ ops' = Append(ops, Operation(t)) /\ UNCHANGED sock
  /\ UNCHANGED <<is_running, ops_stopped, wakeup, connections, fd_to_id, seq, filters,
                 loopVars, stop, events, wire, issued, left>>

\* TriggerWakeupEvent; then the call returns, a query waits on its future.
CallTrigger(t) ==
  /\ call[t].pc = "trigger"
  /\ wakeup' = TRUE
  /\ IF call[t].type = "query" THEN At(t, "await") ELSE Returns(t)
  /\ UNCHANGED <<is_running, ops, ops_stopped, tableVars, seq, loopVars, stop, issued, left>>

\* future.get() returns once the loop has fulfilled the promise.
QueryReturns(t) ==
  /\ call[t].pc = "await" /\ call[t].answered
  /\ Returns(t)
  /\ UNCHANGED <<is_running, ops, ops_stopped, wakeup, tableVars, seq, loopVars, stop, issued, left>>

-----------------------------------------------------------------------------
(* Closing connections.  Gone(S) is the whole of DoRemoveConnection for    *)
(* the connections in S; Tell appends what DispatchEvent is given.         *)

Inc(id) == connections[id].inc

FdsOf(S) == {connections[id].fd : id \in S}

\* Mutant: fd_to_connection_id_.erase is missing.
GoneKeepsIndex(S) ==
  /\ connections' = [id \in DOMAIN connections \ S |-> connections[id]]
  /\ filters' = {f \in filters : f[1] \notin FdsOf(S)}
  /\ sock' = [fd \in Fds |-> IF fd \in FdsOf(S) THEN FreeSock ELSE sock[fd]]
  /\ UNCHANGED fd_to_id

Gone(S) ==
  /\ connections' = [id \in DOMAIN connections \ S |-> connections[id]]
  /\ fd_to_id' = [fd \in DOMAIN fd_to_id \ FdsOf(S) |-> fd_to_id[fd]]
  /\ filters' = {f \in filters : f[1] \notin FdsOf(S)}
  /\ sock' = [fd \in Fds |-> IF fd \in FdsOf(S) THEN FreeSock ELSE sock[fd]]

\* Runs of kData events are recorded once; in what, kData comes first.
Repeats(i, what) == /\ events[i] # <<>> /\ Last(events[i]) = "data"
                    /\ what # <<>> /\ Head(what) = "data"
Told(i, what) == events[i] \o IF Repeats(i, what) THEN Tail(what) ELSE what
Tell(S, what) ==
  events' = [i \in Incarnations |-> IF i \in {Inc(id) : id \in S} THEN Told(i, what)
                                                                 ELSE events[i]]

\* Mutant: the end is reported and the connection stays in the table.
CloseOnlyTells(S) == Tell(S, <<"disconnected">>)
                     /\ UNCHANGED <<connections, fd_to_id, filters, sock>>

HandleConnectionClose(S) == Tell(S, <<"disconnected">>) /\ Gone(S)
HandleConnectionError(id) == Tell({id}, <<"error", "disconnected">>) /\ Gone({id})

-----------------------------------------------------------------------------
(* The operations, on the loop's thread.                                   *)

\* Mutant: 0 is not skipped.
NextSeqWithZero == seq

\* connection_seq_.fetch_add, skipping 0.
NextSeq == IF seq = 0 THEN 1 ELSE seq
NewId(fd) == <<fd, NextSeq>>

DoAddConnection(op) ==
  LET fd == op.fd
      id == NewId(fd)
      i  == sock[fd].inc
      new == [fd |-> fd, inc |-> i, send_buffer |-> <<>>, taken |-> 0,
              read_paused |-> FALSE, write_pending |-> FALSE]
  IN \/ /\ ~is_running                       \* return 0, the descriptor stays open
        /\ UNCHANGED <<tableVars, seq, issued>>
     \/ /\ is_running
        /\ seq' = (NextSeq + 1) % SeqValues
        /\ \/ /\ id \notin DOMAIN connections
              /\ filters' = filters \cup {<<fd, "read">>}
              /\ connections' = [x \in DOMAIN connections \cup {id} |->
                                   IF x = id THEN new ELSE connections[x]]
              /\ fd_to_id' = [x \in DOMAIN fd_to_id \cup {fd} |->
                                   IF x = fd THEN id ELSE fd_to_id[x]]
              /\ events' = [events EXCEPT ![i] = Append(@, "connected")]
              /\ issued' = [issued EXCEPT ![i] = id]
              /\ UNCHANGED <<sock, wire>>
           \/ /\ id \in DOMAIN connections \/ SyscallsMayFail   \* close(fd), return 0
              /\ CloseFd(fd)
              /\ UNCHANGED <<connections, fd_to_id, filters, events, wire, issued>>

DoRemoveConnection(op) ==
  /\ IF op.id \in DOMAIN connections THEN Gone({op.id})
     ELSE UNCHANGED <<connections, fd_to_id, filters, sock>>
  /\ UNCHANGED <<events, wire, seq, issued>>

\* The data of a send, as consecutive unit numbers of its connection.
Payload(c, size) == [k \in 1..size |-> c.taken + k]

\* What the kernel takes of n units: a writable socket some or all of them,
\* none if send() is interrupted; a full socket none (EAGAIN).
Taken(s, n) == IF ~s.writable THEN {0}
               ELSE IF SyscallsMayFail THEN 0..n ELSE 1..n

\* Mutant: pausing the read side replaces the registration for writing.
PauseInsteadOfWatch(c, pause) ==
  IF pause THEN filters \ {<<c.fd, "read">>} ELSE filters \cup {<<c.fd, "write">>}

\* StopReadMonitor at the high-water mark, then StartWriteMonitor, each only if
\* its flag does not say that it has been done.
WatchFilters(c, pause) ==
  (filters \ (IF pause /\ ~c.read_paused THEN {<<c.fd, "read">>} ELSE {}))
     \cup (IF c.write_pending THEN {} ELSE {<<c.fd, "write">>})

\* BufferAndMonitorWrite: rest is what the kernel did not take.
BufferAndMonitorWrite(id, c, rest) ==
  LET buf == c.send_buffer \o rest
      pause == Len(buf) >= HighWater
  IN IF Len(buf) > MaxBuffer
     THEN HandleConnectionError(id)
     ELSE /\ connections' = [connections EXCEPT ![id] =
                [c EXCEPT !.send_buffer = buf, !.write_pending = TRUE,
                          !.read_paused = @ \/ pause]]
          /\ filters' = WatchFilters(c, pause)
          /\ UNCHANGED <<fd_to_id, events, sock>>

\* Mutant: after a partial direct send the whole payload is buffered.
SendDirectRepeats(id, c, data, k) ==
  /\ wire' = [wire EXCEPT ![c.inc] = @ \o SubSeq(data, 1, k)]
  /\ IF k < Len(data)
     THEN BufferAndMonitorWrite(id, c, data)
     ELSE /\ connections' = [connections EXCEPT ![id] = c]
          /\ UNCHANGED <<fd_to_id, filters, events, sock>>

\* The direct attempt: k units go out, the rest is buffered.
SendDirect(id, c, data, k) ==
  LET rest == SubSeq(data, k + 1, Len(data))
  IN /\ wire' = [wire EXCEPT ![c.inc] = @ \o SubSeq(data, 1, k)]
     /\ IF rest # <<>>
        THEN BufferAndMonitorWrite(id, c, rest)
        ELSE /\ connections' = [connections EXCEPT ![id] = c]
             /\ UNCHANGED <<fd_to_id, filters, events, sock>>

DoSendData(op) ==
  LET id == op.id
      c0 == connections[id]
      c  == [c0 EXCEPT !.taken = @ + op.size]
      data == Payload(c0, op.size)
      s == sock[c0.fd]
  IN /\ UNCHANGED <<seq, issued>>
     /\ \/ /\ id \notin DOMAIN connections           \* return false
           /\ UNCHANGED tableVars
        \/ /\ id \in DOMAIN connections
           /\ \/ /\ c0.send_buffer # <<>>            \* append, never overtake
                 /\ BufferAndMonitorWrite(id, c, data)
                 /\ UNCHANGED wire
              \/ /\ c0.send_buffer = <<>> /\ s.reset  \* send() fails
                 /\ HandleConnectionError(id)
                 /\ UNCHANGED wire
              \/ /\ c0.send_buffer = <<>> /\ ~s.reset
                 /\ \E k \in Taken(s, op.size) : SendDirect(id, c, data, k)

\* Mutant: the promise is fulfilled only for a connection that is still there.
AnswerKnownOnly(op) ==
  /\ call' = [call EXCEPT ![op.by].answered = op.id \in DOMAIN connections]
  /\ UNCHANGED <<tableVars, seq, issued>>

\* kGetSendBufferSize: promise->set_value, with 0 for an unknown id.
AnswerQuery(op) ==
  /\ call' = [call EXCEPT ![op.by].answered = TRUE]
  /\ UNCHANGED <<tableVars, seq, issued>>

DoOperation(op) ==
  \/ op.type = "add" /\ DoAddConnection(op) /\ UNCHANGED call
  \/ op.type = "remove" /\ DoRemoveConnection(op) /\ UNCHANGED call
  \/ op.type = "send" /\ DoSendData(op) /\ UNCHANGED call
  \/ op.type = "query" /\ AnswerQuery(op)

-----------------------------------------------------------------------------
(* The event loop.                                                         *)

\* while (is_running_), and the entry into ProcessPendingOperations.
LoopTop == /\ loop = "top"
           /\ loop' = IF is_running THEN "ops" ELSE "exited"
           /\ UNCHANGED <<is_running, ops, ops_stopped, wakeup, tableVars, seq, batch,
                          processed, stop, call, issued, left>>

\* Mutant: operations are also served between two events of a batch.
InOpsOrEvents == loop \in {"ops", "ops_after", "events"}

\* One turn of the loop in ProcessPendingOperations, before or after the wait.
InOps == loop \in {"ops", "ops_after"}
ProcessOperation ==
  /\ InOps
  /\ processed < BatchOps /\ ops # <<>>
  /\ processed' = processed + 1
  /\ ops' = Tail(ops)
  /\ DoOperation(Head(ops))
  /\ UNCHANGED <<is_running, ops_stopped, wakeup, batch, loop, stop, left>>

\* ProcessPendingOperations returns: the batch is used up or the queue empty.
OperationsDone ==
  /\ InOps
  /\ processed = BatchOps \/ ops = <<>>
  /\ loop' = IF loop = "ops" THEN "timeouts" ELSE "top"
  /\ processed' = 0
  /\ UNCHANGED <<is_running, ops, ops_stopped, wakeup, tableVars, seq, batch,
                 stop, call, issued, left>>

\* CheckTimeouts, when it is due, closes every connection idle for too long.
CheckTimeouts ==
  /\ loop = "timeouts"
  /\ \E S \in SUBSET DOMAIN connections : HandleConnectionClose(S)
  /\ loop' = "wait"
  /\ UNCHANGED <<is_running, ops, ops_stopped, wakeup, seq, batch, processed, stop, call,
                 wire, issued, left>>

Event(fd, filter, flags) == [fd |-> fd, filter |-> filter, flags |-> flags, inc |-> sock[fd].inc]
UserEvent == [fd |-> 0, filter |-> "user", flags |-> {}, inc |-> 0]

\* What kevent() would report now.  A reset socket is reported with EV_EOF or
\* EV_ERROR, an orderly close by the peer with EV_EOF on the read filter only.
Ready ==
  {Event(f[1], f[2], IF sock[f[1]].reset THEN {x}
                     ELSE IF f[2] = "read" /\ sock[f[1]].eof THEN {"EV_EOF"} ELSE {}) :
      f \in {g \in filters : \/ sock[g[1]].reset
                             \/ g[2] = "read" /\ (sock[g[1]].unread \/ sock[g[1]].eof)
                             \/ g[2] = "write" /\ sock[g[1]].writable},
      x \in {"EV_EOF", "EV_ERROR"}}
  \cup (IF wakeup THEN {UserEvent} ELSE {})

\* The batches kevent() may return: ready filters, each once, in any order,
\* all of them if they fit.
OnePerFilter(s) == \A j, k \in DOMAIN s : j # k => <<s[j].fd, s[j].filter>> # <<s[k].fd, s[k].filter>>
ReadyFilters == {<<e.fd, e.filter>> : e \in Ready}
BatchSize == IF Cardinality(ReadyFilters) < EventBatch THEN Cardinality(ReadyFilters)
             ELSE EventBatch
Batches == {s \in [1..BatchSize -> Ready] : OnePerFilter(s)}

\* WaitEvents returns events (EV_CLEAR resets the wake-up it reports) ...
WaitEvents ==
  /\ loop = "wait" /\ Ready # {}
  /\ \E s \in Batches : /\ batch' = s
                        /\ wakeup' = (wakeup /\ UserEvent \notin ToSet(s))
  /\ loop' = "events"
  /\ UNCHANGED <<is_running, ops, ops_stopped, tableVars, seq, processed, stop, call, issued, left>>

\* ... or nothing after 5 seconds ...
WaitTimesOut ==
  /\ loop = "wait" /\ Ready = {}
  /\ loop' = "events"
  /\ UNCHANGED <<is_running, ops, ops_stopped, wakeup, tableVars, seq, batch, processed, stop,
                 call, issued, left>>

\* ... or fails: EINTR goes on with the next turn, any other errno leaves the loop.
WaitFails ==
  /\ loop = "wait" /\ SyscallsMayFail
  /\ loop' \in {"top", "exited"}
  /\ UNCHANGED <<is_running, ops, ops_stopped, wakeup, tableVars, seq, batch, processed, stop,
                 call, issued, left>>

\* HandleReadEvent: recv until EAGAIN, end of stream or an error.
HandleReadEvent(id) ==
  LET c == connections[id]
      s == sock[c.fd]
      data == IF s.unread THEN <<"data">> ELSE <<>>
  IN /\ UNCHANGED wire
     /\ \/ /\ s.reset
           /\ Tell({id}, <<"error", "disconnected">>)
           /\ Gone({id})
        \/ /\ ~s.reset /\ s.eof
           /\ Tell({id}, data \o <<"disconnected">>)
           /\ Gone({id})
        \/ /\ ~s.reset /\ ~s.eof
           /\ Tell({id}, data)
           /\ sock' = [sock EXCEPT ![c.fd].unread = FALSE]
           /\ UNCHANGED <<connections, fd_to_id, filters>>

\* Mutant: reading is never resumed.
AfterSendStaysPaused(c, k) ==
  LET buf == SubSeq(c.send_buffer, k + 1, Len(c.send_buffer))
  IN [c EXCEPT !.send_buffer = buf, !.write_pending = @ /\ buf # <<>>]

\* SendToSocket handed k units over: resume reading below the low mark, stop
\* watching for writability when the buffer is empty.
AfterSend(c, k) ==
  LET buf == SubSeq(c.send_buffer, k + 1, Len(c.send_buffer))
  IN [c EXCEPT !.send_buffer = buf,
               !.read_paused = @ /\ ~(k > 0 /\ Len(buf) < LowWater),
               !.write_pending = @ /\ buf # <<>>]

FiltersOf(c, d) ==
  (filters \cup (IF c.read_paused /\ ~d.read_paused THEN {<<c.fd, "read">>} ELSE {}))
     \ (IF c.write_pending /\ ~d.write_pending THEN {<<c.fd, "write">>} ELSE {})

HandleWriteEvent(id) ==
  LET c == connections[id]
      s == sock[c.fd]
  IN \/ /\ s.reset /\ c.send_buffer # <<>>
        /\ HandleConnectionError(id)
        /\ UNCHANGED wire
     \/ /\ s.reset => c.send_buffer = <<>>
        /\ \E k \in IF c.send_buffer = <<>> THEN {0} ELSE Taken(s, Len(c.send_buffer)) :
             /\ connections' = [connections EXCEPT ![id] = AfterSend(c, k)]
             /\ filters' = FiltersOf(c, AfterSend(c, k))
             /\ wire' = [wire EXCEPT ![c.inc] = @ \o SubSeq(c.send_buffer, 1, k)]
        /\ UNCHANGED <<fd_to_id, events, sock>>

\* ProcessKqueueEvent: EV_EOF first, then EV_ERROR, then the filters.
HandleEvent(e) ==
  IF e.fd \notin DOMAIN fd_to_id \/ fd_to_id[e.fd] \notin DOMAIN connections
  THEN UNCHANGED tableVars
  ELSE LET id == fd_to_id[e.fd]
       IN \/ "EV_EOF" \in e.flags /\ HandleConnectionClose({id}) /\ UNCHANGED wire
          \/ "EV_ERROR" \in e.flags /\ HandleConnectionError(id) /\ UNCHANGED wire
          \/ e.flags = {} /\ e.filter = "read" /\ HandleReadEvent(id)
          \/ e.flags = {} /\ e.filter = "write" /\ HandleWriteEvent(id)

ProcessKqueueEvent ==
  /\ loop = "events" /\ batch # <<>>
  /\ HandleEvent(Head(batch))
  /\ batch' = Tail(batch)
  /\ UNCHANGED <<is_running, ops, ops_stopped, wakeup, seq, loop, processed, stop, call, issued, left>>

BatchDone ==
  /\ loop = "events" /\ batch = <<>>
  /\ loop' = "ops_after"
  /\ UNCHANGED <<is_running, ops, ops_stopped, wakeup, tableVars, seq, batch, processed, stop, call,
                 issued, left>>

LoopStep == \/ LoopTop \/ ProcessOperation \/ OperationsDone \/ CheckTimeouts
            \/ WaitEvents \/ WaitTimesOut \/ ProcessKqueueEvent \/ BatchDone

-----------------------------------------------------------------------------
(* Stop: the CAS, NotifyStop, the wake-up, the join, the clean-up.         *)

StopBegin == /\ MayStop /\ stop = "no"
             /\ is_running' = FALSE
             /\ stop' = "flagged"
             /\ UNCHANGED <<ops, ops_stopped, wakeup, tableVars, seq, loopVars, call, issued, left>>

StopNotify == /\ stop = "flagged"
              /\ ops_stopped' = TRUE
              /\ stop' = "notified"
              /\ UNCHANGED <<is_running, ops, wakeup, tableVars, seq, loopVars, call, issued, left>>

StopTrigger == /\ stop = "notified"
               /\ wakeup' = TRUE
               /\ stop' = "joining"
               /\ UNCHANGED <<is_running, ops, ops_stopped, tableVars, seq, loopVars, call, issued, left>>

\* Closes every connection and clears both tables; dispatches nothing.
CleanupAllConnections == Gone(DOMAIN connections)

\* join(), IOMonitor::Close and CleanupAllConnections.
StopCleanup == /\ stop = "joining" /\ loop = "exited"
               /\ CleanupAllConnections
               /\ stop' = "done"
               /\ UNCHANGED <<is_running, ops, ops_stopped, wakeup, events, wire, seq, loopVars,
                              call, issued, left>>

-----------------------------------------------------------------------------
(* The peers, through the kernel.                                          *)

PeerChanges(fd, s) == /\ sock[fd].inc # 0 /\ sock[fd] # s
                      /\ sock' = [sock EXCEPT ![fd] = s]
                      /\ UNCHANGED <<is_running, ops, ops_stopped, wakeup, connections, fd_to_id, seq,
                                     filters, loopVars, stop, call, events, wire, issued, left>>

PeerSends(fd) == ~sock[fd].eof /\ ~sock[fd].reset /\ PeerChanges(fd, [sock[fd] EXCEPT !.unread = TRUE])
PeerShutsDown(fd) == ~sock[fd].reset /\ PeerChanges(fd, [sock[fd] EXCEPT !.eof = TRUE])
\* A reset discards what was still in the socket's buffers.
PeerResets(fd) == PeerChanges(fd, [FreeSock EXCEPT !.inc = sock[fd].inc, !.reset = TRUE])
\* The socket's own buffer fills up or has room again.
SocketSpace(fd) == ~sock[fd].reset /\ PeerChanges(fd, [sock[fd] EXCEPT !.writable = ~@])

-----------------------------------------------------------------------------
CallStep(t) == CallCheck(t) \/ CallEnqueue(t) \/ CallTrigger(t) \/ QueryReturns(t)
StopStep == StopNotify \/ StopTrigger \/ StopCleanup

Next ==
  \/ \E fd \in Fds : Accept(fd)
  \/ \E t \in Users, i \in Incarnations :
        \/ \E n \in SendSizes : UserCall(t, "send", i, n)
        \/ UserCall(t, "remove", i, 0)
        \/ UserCall(t, "query", i, 0)
  \/ \E t \in Callers : CallStep(t)
  \/ LoopStep
  \/ WaitFails
  \/ StopBegin \/ StopStep
  \/ \E fd \in Fds : PeerSends(fd) \/ PeerShutsDown(fd) \/ PeerResets(fd) \/ SocketSpace(fd)

Spec == Init /\ [][Next]_vars

\* The loop's thread and the threads inside a call keep running, and so does
\* Stop once it has begun; the peers and the callers may do nothing at all.
Fairness == /\ WF_vars(LoopStep)
            /\ \A t \in Callers : WF_vars(CallStep(t))
            /\ WF_vars(StopStep)

FairSpec == Spec /\ Fairness

-----------------------------------------------------------------------------
(* Properties.                                                             *)

ConnectionIds == Fds \X (1..(SeqValues - 1))
Connection == [fd : Fds, inc : Incarnations, send_buffer : Seq(Nat), taken : Nat,
               read_paused : BOOLEAN, write_pending : BOOLEAN]
Operations == [type : OpTypes, fd : Fds \cup {0}, id : ConnectionIds \cup {<<>>},
               size : Nat, by : Callers]

TypeOK ==
  /\ is_running \in BOOLEAN /\ ops_stopped \in BOOLEAN /\ wakeup \in BOOLEAN
  /\ ops \in Seq(Operations)
  /\ DOMAIN connections \subseteq ConnectionIds
  /\ \A id \in DOMAIN connections : connections[id] \in Connection
  /\ DOMAIN fd_to_id \subseteq Fds
  /\ seq \in 0..(SeqValues - 1)
  /\ filters \subseteq Fds \X {"read", "write"}
  /\ loop \in {"top", "ops", "timeouts", "wait", "events", "ops_after", "exited"}
  /\ processed \in 0..BatchOps
  /\ stop \in {"no", "flagged", "notified", "joining", "done"}
  /\ \A t \in Callers : call[t].pc \in {"idle", "check", "enqueue", "trigger", "await"}

\* The worker sees each connection as Connect, Data*, [Error,] Disconnect: at
\* most one of each end, nothing before the first and nothing after the last,
\* whichever of peer, timeout, send error and RemoveConnection ends it first.
LifecycleOrder ==
  \A i \in Incarnations :
    LET e == events[i]
        body == IF e # <<>> /\ Last(e) = "disconnected" THEN Front(e) ELSE e
    IN e = <<>> \/ body \in {<<"connected">>, <<"connected", "data">>}
            \/ (e # body /\ body \in {<<"connected", "error">>, <<"connected", "data", "error">>})

\* connections_ and fd_to_connection_id_ stay inverse to each other, and a
\* connection's descriptor is open and still the socket it was added with: the
\* loop never works on a descriptor that was closed and given out again.
TableConsistent ==
  /\ \A id \in DOMAIN connections :
       LET c == connections[id]
       IN c.fd \in DOMAIN fd_to_id /\ fd_to_id[c.fd] = id /\ sock[c.fd].inc = c.inc
  /\ \A fd \in DOMAIN fd_to_id : fd_to_id[fd] \in DOMAIN connections
  /\ \A f \in filters : f[1] \in DOMAIN fd_to_id

\* Who is responsible for closing descriptor fd.
InCall(fd) == {t \in Callers : call[t].type = "add" /\ call[t].fd = fd
                               /\ call[t].pc \in {"check", "enqueue"}}
InQueue(fd) == {k \in DOMAIN ops : ops[k].type = "add" /\ ops[k].fd = fd}
InTable(fd) == {id \in DOMAIN connections : connections[id].fd = fd}
Owners(fd) == Cardinality(InCall(fd)) + Cardinality(InQueue(fd)) + Cardinality(InTable(fd))

\* From accept() on, an open descriptor has exactly one owner (the acceptor's
\* call, an operation in the queue, a connection), so it is closed once and is
\* not forgotten while the reactor runs; nobody holds a closed one.
OneOwner ==
  \A fd \in Fds : IF sock[fd].inc = 0 THEN Owners(fd) = 0
                  ELSE Owners(fd) <= 1 /\ (is_running => Owners(fd) = 1)

\* An event of a batch is never applied to another connection that has got the
\* same descriptor number since kevent() reported it.
NoStaleEvent ==
  \A k \in DOMAIN batch :
    batch[k].fd \in DOMAIN fd_to_id => Inc(fd_to_id[batch[k].fd]) = batch[k].inc

\* What was sent directly followed by what is buffered is the data in the order
\* of the SendData calls: nothing overtakes, is lost or repeated when a direct
\* send takes only a part.
StreamInOrder ==
  \A id \in DOMAIN connections :
    LET c == connections[id]
    IN wire[c.inc] \o c.send_buffer = [k \in 1..c.taken |-> k]

\* Backpressure cannot get stuck: bytes wait only while the write filter is
\* registered, reading is paused only with LOW_WATER_MARK or more bytes waiting
\* (so a write event will come and resume it), and the registered filters are
\* the ones the two flags stand for.
BackpressureConsistent ==
  \A id \in DOMAIN connections :
    LET c == connections[id]
    IN /\ c.write_pending <=> c.send_buffer # <<>>
       /\ c.write_pending <=> <<c.fd, "write">> \in filters
       /\ c.read_paused <=> <<c.fd, "read">> \notin filters
       /\ c.read_paused => Len(c.send_buffer) >= LowWater

\* The loop has left with the query of t in the queue: nobody takes it out, and t
\* itself holds the promise whose value it waits for, so that the wait has no end.
Stranded(t) == /\ loop = "exited"
               /\ \E i \in DOMAIN ops : ops[i].type = "query" /\ ops[i].by = t

\* Every call of GetSendBufferSize returns, unless Stop ends the loop between the
\* Enqueue and the answer: that is the one way for a caller to hang, and with Stop
\* before the Enqueue, a stale id or a connection closed meanwhile it does not.
QueryReturnsEventually ==
  \A t \in Users : (call[t].type = "query") ~> (call[t].pc = "idle" \/ Stranded(t))

\* A connection that the peer resets is closed and reported sooner or later,
\* even while reading from it is paused.
ResetIsNoticed ==
  \A fd \in Fds :
    (fd \in DOMAIN fd_to_id /\ sock[fd].reset) ~> (fd \notin DOMAIN fd_to_id)

\* Stop() leaves no descriptor open once no call is in flight.
StopClosesEverything ==
  (stop = "done" /\ \A t \in Callers : call[t].pc = "idle") =>
     \A fd \in Fds : sock[fd].inc = 0

-----------------------------------------------------------------------------
(* Values of Budget for TLC, which a .cfg cannot write: how many calls of  *)
(* each type there are.                                                    *)

Calls(add, remove, send, query) ==
  [type \in OpTypes |-> CASE type = "add" -> add [] type = "remove" -> remove
                          [] type = "send" -> send [] type = "query" -> query]

Reuse == Calls(2, 1, 1, 0)
Asking == Calls(1, 0, 2, 1)
OneConnection == Calls(1, 0, 0, 0)
=============================================================================
