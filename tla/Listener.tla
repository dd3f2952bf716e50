------------------------------ MODULE Listener ------------------------------
(***************************************************************************)
(* darwincore::network::Acceptor from ListenGeneric to Stop, with the      *)
(* SocketHelper calls it makes and its IOMonitor: the descriptors of the   *)
(* kqueue and of the socket, the socket file of a Unix domain address, the *)
(* accept thread and its registration.  Every system call may fail.  What  *)
(* the thread does with accepted connections is in Server and Reactor.     *)
(***************************************************************************)
EXTENDS Naturals, FiniteSets, FiniteSetsExt, TLC

CONSTANTS Acceptors,   \* Acceptor objects; each is used, destroyed and made anew
          MaxFd,       \* bound: descriptors of the process
          MaxListens   \* bound: lives of an object

VARIABLES files,     \* what lies at each name: nothing, a file, a socket of nobody or of one
          foreign,   \* the names at which a file that is no socket was found
          open,      \* open descriptors
          acceptor   \* the objects, and the call each is in

vars == <<files, foreign, open, acceptor>>

\* What ListenIPv4, ListenIPv6 and ListenUnixDomain pass to ListenGeneric.
Protocols == {"kIPv4", "kIPv6", "kUnixDomain"}

\* Two addresses: a path that fits sun_path and one that does not.
Hosts == {"path", "long path"}
Names == {"path", "cut path"}
SunPath(host) == IF host = "path" THEN "path" ELSE "cut path"

\* kqueue_fd_, the local fd or listen_fd_, unix_socket_path_: 0 and "" are none.
NewAcceptor == [pc |-> "new", protocol |-> "kIPv4", host |-> "path", kqueue |-> 0, fd |-> 0,
                unixPath |-> "", thread |-> "none", read |-> FALSE]

Init == /\ files \in [Names -> {"none", "file", "stale"}]
        /\ foreign = {n \in Names : files[n] = "file"}
        /\ open = {}
        /\ acceptor = [a \in Acceptors |-> NewAcceptor @@ [lives |-> MaxListens]]

At(a, pc) == acceptor[a].pc = pc
Set(a, record) == acceptor' = [acceptor EXCEPT ![a] = record]
Goto(a, pc) == acceptor' = [acceptor EXCEPT ![a].pc = pc]

CanOpen == Cardinality(open) < MaxFd
Lowest == Min((1..MaxFd) \ open)

-----------------------------------------------------------------------------
(* ListenGeneric                                                           *)

\* IOMonitor::Initialize.
Initialize(a) ==
  /\ At(a, "new") /\ acceptor[a].lives > 0
  /\ \E p \in Protocols, h \in Hosts :
       /\ p # "kUnixDomain" => h = "path"
       /\ LET called == [acceptor[a] EXCEPT !.protocol = p, !.host = h, !.lives = @ - 1] IN
            \/ /\ CanOpen
               /\ open' = open \cup {Lowest}
               /\ Set(a, [called EXCEPT !.kqueue = Lowest, !.pc = "create"])
            \/ Set(a, [called EXCEPT !.pc = "destroy"]) /\ UNCHANGED open
  /\ UNCHANGED <<files, foreign>>

CreateSocket(a) == /\ At(a, "create")
                   /\ \/ /\ CanOpen
                         /\ open' = open \cup {Lowest}
                         /\ acceptor' = [acceptor EXCEPT ![a].fd = Lowest, ![a].pc = "configure"]
                      \/ Goto(a, "destroy") /\ UNCHANGED open
                   /\ UNCHANGED <<files, foreign>>

\* Mutant: an error path returns without closing the socket.
ForgetSocket(a) == /\ acceptor' = [acceptor EXCEPT ![a].fd = 0, ![a].pc = "destroy"]
                   /\ UNCHANGED open

\* Every later error path: close(fd); return false.
GiveUp(a) == /\ open' = open \ {acceptor[a].fd}
             /\ acceptor' = [acceptor EXCEPT ![a].fd = 0, ![a].pc = "destroy"]

\* Non-blocking and SO_REUSEADDR; SO_REUSEPORT may fail.
SetSocketOptions(a) == /\ At(a, "configure")
                       /\ (Goto(a, "resolve") /\ UNCHANGED open) \/ GiveUp(a)
                       /\ UNCHANGED <<files, foreign>>

\* A Unix path is copied as far as it fits; the text of another address may be wrong.
ResolveAddress(a) ==
  /\ At(a, "resolve")
  /\ \/ acceptor[a].protocol = "kUnixDomain" /\ Goto(a, "unlink") /\ UNCHANGED open
     \/ /\ acceptor[a].protocol # "kUnixDomain"
        /\ (Goto(a, "bind") /\ UNCHANGED open) \/ GiveUp(a)
  /\ UNCHANGED <<files, foreign>>

IsSocket(name) == files[name] \notin {"none", "file"}

\* Mutant: whatever lies at the path is removed.
UnlinkAnything(host) == files' = IF host \in Names THEN [files EXCEPT ![host] = "none"] ELSE files

\* Only a socket is removed, at the whole path: nothing of the library lies at a long one.
UnlinkUnixDomainSocket(host) == files' = IF host \in Names /\ IsSocket(host)
                                         THEN [files EXCEPT ![host] = "none"] ELSE files

UnlinkOld(a) == /\ At(a, "unlink")
                /\ UnlinkUnixDomainSocket(acceptor[a].host)
                /\ Goto(a, "bind")
                /\ UNCHANGED <<foreign, open>>

\* bind() makes the socket file; a name that is taken is refused.
Bind(a) ==
  LET name == SunPath(acceptor[a].host) IN
    /\ At(a, "bind")
    /\ \/ acceptor[a].protocol # "kUnixDomain" /\ Goto(a, "listen") /\ UNCHANGED <<files, open>>
       \/ /\ acceptor[a].protocol = "kUnixDomain" /\ files[name] = "none"
          /\ files' = [files EXCEPT ![name] = a]
          /\ Goto(a, "listen")
          /\ UNCHANGED open
       \/ GiveUp(a) /\ UNCHANGED files
    /\ UNCHANGED foreign

\* listen(), the flag, the thread; ListenUnixDomain notes the path.
Listen(a) ==
  /\ At(a, "listen")
  /\ \/ /\ acceptor' = [acceptor EXCEPT ![a].pc = "up", ![a].thread = "start",
                          ![a].unixPath = IF acceptor[a].protocol = "kUnixDomain"
                                          THEN acceptor[a].host ELSE ""]
        /\ UNCHANGED open
     \/ GiveUp(a)
  /\ UNCHANGED <<files, foreign>>

-----------------------------------------------------------------------------
(* The accept thread                                                       *)

\* AcceptLoop registers the socket, or returns with is_running_ still true.
StartReadMonitor(a) ==
  /\ acceptor[a].thread = "start"
  /\ \/ acceptor' = [acceptor EXCEPT ![a].thread = "loop", ![a].read = TRUE]
     \/ acceptor' = [acceptor EXCEPT ![a].thread = "ended"]
  /\ UNCHANGED <<files, foreign, open>>

\* Stopped, or a kevent() error that ends the loop; then StopMonitor.
LoopEnds(a) == /\ acceptor[a].thread = "loop"
               /\ acceptor' = [acceptor EXCEPT ![a].thread = "ended", ![a].read = FALSE]
               /\ UNCHANGED <<files, foreign, open>>

-----------------------------------------------------------------------------
(* Stop, and the destructor                                                *)

\* The flag falls once and the registration goes: the thread is not in kevent() for long.
StopBegins(a) == /\ At(a, "up")
                 /\ acceptor' = [acceptor EXCEPT ![a].pc = "join", ![a].read = FALSE]
                 /\ UNCHANGED <<files, foreign, open>>

\* Mutant: the socket is closed without waiting for the thread.
MayClose(a) == TRUE

\* The thread is joined before the socket is closed.
Joined(a) == acceptor[a].thread = "ended"

StopCloses(a) == /\ At(a, "join") /\ Joined(a)
                 /\ open' = open \ {acceptor[a].fd}
                 /\ acceptor' = [acceptor EXCEPT ![a].fd = 0, ![a].pc = "unlink own"]
                 /\ UNCHANGED <<files, foreign>>

StopUnlinks(a) == /\ At(a, "unlink own")
                  /\ UnlinkUnixDomainSocket(acceptor[a].unixPath)
                  /\ acceptor' = [acceptor EXCEPT ![a].unixPath = "", ![a].pc = "destroy"]
                  /\ UNCHANGED <<foreign, open>>

\* ~Acceptor: its Stop has nothing left to do, IOMonitor::Close closes the kqueue.
Destroy(a) == /\ At(a, "destroy")
              /\ open' = open \ {acceptor[a].kqueue}
              /\ Set(a, NewAcceptor @@ [lives |-> acceptor[a].lives])
              /\ UNCHANGED <<files, foreign>>

Next == \E a \in Acceptors : \/ Initialize(a) \/ CreateSocket(a) \/ SetSocketOptions(a)
                             \/ ResolveAddress(a) \/ UnlinkOld(a) \/ Bind(a) \/ Listen(a)
                             \/ StartReadMonitor(a) \/ LoopEnds(a)
                             \/ StopBegins(a) \/ StopCloses(a) \/ StopUnlinks(a) \/ Destroy(a)

-----------------------------------------------------------------------------
(***************************************************************************)
(* Acceptor::ListenGeneric and Stop, whatever fails and whichever acceptor *)
(* runs beside: an open descriptor belongs to exactly one acceptor, so     *)
(* that none is lost or closed twice; the accept thread never runs on a    *)
(* closed socket or kqueue; a file that is no socket is never removed; and *)
(* a socket file left behind by an earlier life stands in the way of       *)
(* bind() for a path that was cut to fit sun_path, and for no other.  Such *)
(* a file is never removed, and a long path is not handled by a change of  *)
(* directory as the comment of StartUnixDomain says.                       *)
(***************************************************************************)
Held(a) == {acceptor[a].kqueue, acceptor[a].fd} \ {0}

ListenersClean ==
  /\ open = UNION {Held(a) : a \in Acceptors}
  /\ \A a, b \in Acceptors : a # b => Held(a) \cap Held(b) = {}
  /\ \A a \in Acceptors : acceptor[a].thread \in {"start", "loop"}
                            => acceptor[a].fd \in open /\ acceptor[a].kqueue \in open
  /\ \A n \in foreign : files[n] = "file"
  /\ \A a \in Acceptors :
       At(a, "bind") /\ acceptor[a].protocol = "kUnixDomain" =>
         LET name == SunPath(acceptor[a].host) IN
           \/ files[name] \in {"none", "file"} \cup (Acceptors \ {a})
           \/ name = "cut path"

=============================================================================
