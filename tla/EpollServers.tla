------------------------------ MODULE EpollServers ------------------------------
(***************************************************************************)
(* Four servers of one shape, an epoll loop with an edge-triggered         *)
(* listening socket, that differ in how they handle a connection's event:  *)
(*   "lt"    src/epoll/serv.c with lt(): level-triggered, one recv         *)
(*   "et"    the same with et(): edge-triggered, recv in a while(1)        *)
(*   "echo"  the server of TCP and UDP: as et(), and sends back; it has a  *)
(*           UDP socket beside                                             *)
(*   "sig"   src/SIG/serv.c: looks at its signal socket pair only          *)
(* The server is chosen in Init and never changes.                         *)
(*                                                                         *)
(* SIGHUP stands for SIGCHLD and SIGTERM for SIGINT, which are treated     *)
(* alike.                                                                  *)
(***************************************************************************)
EXTENDS EpollSockets

CONSTANT Datagrams   \* bound: datagrams not read

VARIABLES server,
          dgrams,    \* datagrams waiting in the UDP socket
          sigs,      \* signals in the socket pair
          at,        \* the connection whose while(1) is running, or NULL
          status     \* "running", "stopping" once stop_server is set, "ended", "killed"

netVars == <<conn, unread>>
queueVars == <<backlog, dgrams, sigs>>
vars == <<server, netVars, queueVars, ready, batch, at, status>>

Left == {fd \in Fds : conn[fd] \in {"fin", "rst", "broken"}}

\* What main adds to epoll before its loop.
EpollMain  == {"listenfd"}
TcpUdpMain == {"listenfd", "udpfd"}
SigMain    == {"listenfd", "pipefd"}
Watched == CASE server \in {"lt", "et"} -> EpollMain
             [] server = "echo" -> TcpUdpMain
             [] server = "sig" -> SigMain

Init ==
  /\ server \in {"lt", "et", "echo", "sig"}
  /\ NoConnections
  /\ dgrams = 0 /\ sigs = {}
  /\ at = NULL
  /\ status = "running"

-------------------------------------------------------------------------------
(* Peers and signals.  Whatever arrives puts its descriptor on the ready   *)
(* list.                                                                   *)

Connect ==
  /\ Arrival
  /\ UNCHANGED <<server, netVars, dgrams, sigs, batch, at, status>>

Send(fd) ==
  /\ conn[fd] = "up"
  /\ unread[fd] < MaxUnread
  /\ unread' = [unread EXCEPT ![fd] = @ + 1]
  /\ ready' = ready \cup {fd}
  /\ UNCHANGED <<server, conn, queueVars, batch, at, status>>

\* The peer closes or resets (data that came before can still be read); or, when it
\* had closed, answers what the echo server sends with a reset.
Leave(fd) ==
  /\ \/ conn[fd] = "up" /\ conn' \in {[conn EXCEPT ![fd] = how] : how \in {"fin", "rst"}}
     \/ server = "echo" /\ conn[fd] = "fin" /\ conn' = [conn EXCEPT ![fd] = "broken"]
  /\ ready' = ready \cup {fd}
  /\ UNCHANGED <<server, unread, queueVars, batch, at, status>>

Datagram ==
  /\ "udpfd" \in Watched
  /\ dgrams < Datagrams
  /\ dgrams' = dgrams + 1
  /\ ready' = ready \cup {"udpfd"}
  /\ UNCHANGED <<server, netVars, backlog, sigs, batch, at, status>>

\* sig_handler runs for signal s.
SigHandler(s) ==
  /\ "pipefd" \in Watched
  /\ sigs' = sigs \cup {s}
  /\ ready' = ready \cup {"pipefd"}
  /\ UNCHANGED <<server, netVars, backlog, dgrams, batch, at, status>>

-------------------------------------------------------------------------------
(* The loop.                                                               *)

Readable(x) ==
  \/ x = "listenfd" /\ backlog > 0
  \/ x = "udpfd" /\ dgrams > 0
  \/ x = "pipefd" /\ sigs # {}
  \/ x \in Left
  \/ x \in Fds /\ unread[x] > 0

\* Mutant: lt() with connections that are edge-triggered.
EpollWaitForgets ==
  /\ status = "running" /\ batch = {} /\ at = NULL
  /\ batch' = {x \in ready : Readable(x)}
  /\ batch' # {}
  /\ ready' = {}
  /\ UNCHANGED <<server, netVars, queueVars, at, status>>

\* epoll_wait takes the readable descriptors off the ready list, and puts the
\* level-triggered ones back.
EpollWait ==
  /\ status = "running" /\ batch = {} /\ at = NULL
  /\ batch' = {x \in ready : Readable(x)}
  /\ batch' # {}
  /\ ready' = IF server = "lt" THEN batch' \cap Fds ELSE {}
  /\ UNCHANGED <<server, netVars, queueVars, at, status>>

\* events[i] is x, and no connection is being read.
Handle(x) ==
  /\ at = NULL
  /\ x \in batch
  /\ batch' = batch \ {x}

Accept(fd) ==
  /\ Handle("listenfd")
  /\ conn[fd] = "closed"
  /\ backlog' = backlog - 1
  /\ conn' = [conn EXCEPT ![fd] = "up"]
  /\ UNCHANGED <<server, unread, dgrams, sigs, ready, at, status>>

\* One recvfrom and one sendto.
UdpEvent ==
  /\ Handle("udpfd")
  /\ dgrams' = dgrams - 1
  /\ UNCHANGED <<server, netVars, backlog, sigs, ready, at, status>>

\* Mutant: only the first signal is looked at.
SignalEventFirst ==
  /\ Handle("pipefd")
  /\ sigs' = {}
  /\ \E s \in sigs : status' = IF s = "SIGTERM" THEN "stopping" ELSE status
  /\ UNCHANGED <<server, netVars, backlog, dgrams, ready, at>>

\* All the signals are read and looked at.
SignalEvent ==
  /\ Handle("pipefd")
  /\ sigs' = {}
  /\ status' = IF "SIGTERM" \in sigs THEN "stopping" ELSE status
  /\ UNCHANGED <<server, netVars, backlog, dgrams, ready, at>>

\* src/SIG/serv.c has no case for a connection.
Ignored(fd) ==
  /\ server = "sig"
  /\ Handle(fd)
  /\ UNCHANGED <<server, netVars, queueVars, ready, at, status>>

\* recv takes a unit, or close() gives the descriptor back.
Take(fd)  == unread' = [unread EXCEPT ![fd] = @ - 1]
Close(fd) ==
  /\ conn' = [conn EXCEPT ![fd] = "closed"]
  /\ ready' = ready \ {fd}

\* lt(): one recv, and close if it returns 0 or fails, whatever errno is.
LtEvent(fd) ==
  /\ server = "lt"
  /\ Handle(fd)
  /\ \/ unread[fd] > 0 /\ Take(fd) /\ UNCHANGED <<conn, ready>>
     \/ unread[fd] = 0 /\ Close(fd) /\ UNCHANGED unread
  /\ UNCHANGED <<server, queueVars, at, status>>

-------------------------------------------------------------------------------
(* The while(1) of et() and of the server of TCP and UDP.                  *)

Reader(fd) ==
  /\ server \in {"et", "echo"}
  /\ Handle(fd)
  /\ at' = fd
  /\ UNCHANGED <<server, netVars, queueVars, ready, status>>

\* recv has data.  The send that echoes it reports a reset, and raises SIGPIPE when
\* that was reported already.
Received(fd) ==
  /\ at = fd /\ unread[fd] > 0
  /\ Take(fd)
  /\ conn' = [conn EXCEPT ![fd] = IF server = "echo" /\ @ = "rst" THEN "broken" ELSE @]
  /\ status' = IF server = "echo" /\ conn[fd] = "broken" THEN "killed" ELSE status
  /\ UNCHANGED <<server, queueVars, ready, batch, at>>

\* Mutant: the end of the connection only ends the loop.
EndedKeepsOpen(fd) ==
  /\ at = fd /\ unread[fd] = 0
  /\ conn[fd] \in {"fin", "broken"}
  /\ at' = NULL
  /\ UNCHANGED <<server, netVars, queueVars, ready, batch, status>>

\* recv returns 0: the descriptor is closed, and the loop goes on with it.
Ended(fd) ==
  /\ at = fd /\ unread[fd] = 0
  /\ conn[fd] \in {"fin", "broken"}
  /\ Close(fd)
  /\ UNCHANGED <<server, unread, queueVars, batch, at, status>>

\* recv fails: the connection was reset, or was closed before (and close fails too).
Failed(fd) ==
  /\ at = fd /\ unread[fd] = 0
  /\ conn[fd] \in {"rst", "closed"}
  /\ Close(fd)
  /\ at' = NULL
  /\ UNCHANGED <<server, unread, queueVars, batch, status>>

\* Mutant: EAGAIN is an error as any other.
AgainCloses(fd) ==
  /\ at = fd /\ unread[fd] = 0
  /\ conn[fd] = "up"
  /\ Close(fd)
  /\ at' = NULL
  /\ UNCHANGED <<server, unread, queueVars, batch, status>>

\* EAGAIN.
Again(fd) ==
  /\ at = fd /\ unread[fd] = 0
  /\ conn[fd] = "up"
  /\ at' = NULL
  /\ UNCHANGED <<server, netVars, queueVars, ready, batch, status>>

\* The loop is left, and the descriptors are closed.
End ==
  /\ status = "stopping" /\ batch = {}
  /\ status' = "ended"
  /\ UNCHANGED <<server, netVars, queueVars, ready, batch, at>>

-------------------------------------------------------------------------------
Environment ==
  \/ Connect
  \/ \E fd \in Fds : Send(fd) \/ Leave(fd)
  \/ Datagram
  \/ \E s \in {"SIGHUP", "SIGTERM"} : SigHandler(s)

Loop ==
  \/ EpollWait
  \/ \E fd \in Fds : Accept(fd) \/ Ignored(fd) \/ LtEvent(fd)
  \/ UdpEvent
  \/ SignalEvent
  \/ \E fd \in Fds : Reader(fd) \/ Received(fd) \/ Ended(fd) \/ Failed(fd) \/ Again(fd)
  \/ End

Next == status \in {"running", "stopping"} /\ (Environment \/ Loop)

Spec == Init /\ [][Next]_vars

\* The server runs.
FairSpec == Spec /\ WF_vars(Loop)

-------------------------------------------------------------------------------
TypeOK ==
  /\ server \in {"lt", "et", "echo", "sig"}
  /\ conn \in [Fds -> {"closed", "up", "fin", "rst", "broken"}]
  /\ unread \in [Fds -> Nat]
  /\ backlog \in Nat /\ dgrams \in Nat
  /\ sigs \in SUBSET {"SIGHUP", "SIGTERM"}
  /\ ready \in SUBSET (Fds \cup {"listenfd", "udpfd", "pipefd"})
  /\ batch \in SUBSET (Fds \cup {"listenfd", "udpfd", "pipefd"})
  /\ at \in Fds \cup {NULL}
  /\ status \in {"running", "stopping", "ended", "killed"}

\* An open connection with data or with a peer that has left is on the ready list,
\* in events[], or being read, whenever its data came: during the while(1), between
\* its EAGAIN and epoll_wait, or more of it than one recv takes.  A signal in the
\* socket pair is reported likewise.  Only closed descriptors have nothing waiting.
NothingForgotten ==
  /\ TypeOK
  /\ server # "sig" =>
       \A fd \in Open : Readable(fd) => fd \in ready \cup batch \cup {at}
  /\ sigs # {} => "pipefd" \in ready \cup batch
  /\ \A fd \in Fds \ Open : unread[fd] = 0 /\ fd \notin ready \cup batch

\* A connection is closed only when its peer has left and all it sent was read.  So
\* lt(), which closes on any error, never meets EAGAIN, and the recv after close()
\* never reaches another connection.
OnlyLeaversClosed ==
  [][\A fd \in Open : fd \notin Open' => fd \in Left /\ unread[fd] = 0]_vars

\* Every event of the listening socket finds a connection, and every event of the UDP
\* socket a datagram; what arrived while an event was pending stays behind for good.
Events(x) == Cardinality({x} \cap ready) + Cardinality({x} \cap batch)
Listening == INSTANCE EdgeOnce WITH queue <- backlog, edges <- Events("listenfd")
Udp       == INSTANCE EdgeOnce WITH queue <- dgrams, edges <- Events("udpfd")
OneTakenPerEdge == Listening!Spec /\ Udp!Spec

\* A connection whose peer has left is closed, unless the server is killed by SIGPIPE,
\* or stays with another peer for good, that sends again before its data is read.
Starving(fd) == <>[](at = fd) /\ []<><<Send(fd)>>_vars
LeaversAreClosed ==
  \/ \E fd \in Fds : Starving(fd)
  \/ \A fd \in Fds : fd \in Left ~> (fd \notin Left \/ server = "sig" \/ status = "killed")

\* SIGTERM ends the server, whatever comes with it.
StopsOnTerm == ("SIGTERM" \in sigs) ~> status = "ended"
===============================================================================
