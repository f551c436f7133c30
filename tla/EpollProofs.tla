------------------------------ MODULE EpollProofs ------------------------------
(***************************************************************************)
(* Proofs about the servers of EpollServers and OneshotServer, for any     *)
(* number of descriptors and workers and any bounds.                       *)
(***************************************************************************)
EXTENDS EpollServers, OneshotServer, FiniteSetTheorems, TLAPS

\* Every event of the socket x, reported or about to be, has a unit of q of its own.
Covered(x, q) ==
  /\ x \in ready \cup batch => q >= 1
  /\ x \in ready \cap batch => q >= 2

\* Whatever epoll_wait reported can still be read when its turn comes, and the
\* connection that is being read has no event left in events[].
BatchIsReadable ==
  /\ \A x \in batch : Readable(x)
  /\ at \in Fds => at \notin batch

\* lt() takes one unit for an event: until its turn comes, a connection of events[] is
\* still on the ready list, and there is no while(1) that could close it.
LevelTriggered ==
  server = "lt" => batch \cap Fds \subseteq ready /\ at \notin Fds

Inv ==
  /\ NothingForgotten
  /\ LevelTriggered
  /\ BatchIsReadable
  /\ Covered("listenfd", backlog)
  /\ Covered("udpfd", dgrams)

-------------------------------------------------------------------------------
LEMMA InvInit == Init => Inv
<1> SUFFICES ASSUME Init PROVE Inv
  OBVIOUS
<1>1. TypeOK
  BY DEF Init, NoConnections, TypeOK
<1>2. Open = {}
  BY DEF Init, NoConnections, Open
<1> QED
  BY <1>1, <1>2, FdsAssumption
     DEF Init, NoConnections, Inv, NothingForgotten, BatchIsReadable, LevelTriggered, Covered

\* Peers and signals put what they make readable on the ready list.
LEMMA EnvironmentStep ==
  ASSUME Inv, Environment
  PROVE  Inv'
<1> USE FdsAssumption DEF Inv, NothingForgotten, BatchIsReadable, LevelTriggered, Covered, TypeOK,
                          Open, Left, Readable, netVars, queueVars
<1>1. CASE Connect
  BY <1>1 DEF Connect, Arrival
<1>2. ASSUME NEW fd \in Fds, Send(fd)
      PROVE  Inv'
  BY <1>2 DEF Send
<1>3. ASSUME NEW fd \in Fds, Leave(fd)
      PROVE  Inv'
  BY <1>3 DEF Leave
<1>4. CASE Datagram
  BY <1>4 DEF Datagram
<1>5. ASSUME NEW s \in {"SIGHUP", "SIGTERM"}, SigHandler(s)
      PROVE  Inv'
  BY <1>5 DEF SigHandler
<1> QED
  BY <1>1, <1>2, <1>3, <1>4, <1>5 DEF Environment

\* epoll_wait moves what is readable from the ready list to events[]; with lt() it stays
\* on the list as well.
LEMMA WaitStep ==
  ASSUME Inv, EpollWait
  PROVE  Inv'
<1> USE FdsAssumption DEF Inv, NothingForgotten, BatchIsReadable, LevelTriggered, Covered, TypeOK,
                          Open, Left, Readable, netVars, queueVars, EpollWait
<1>1. TypeOK'
  OBVIOUS
<1>2. BatchIsReadable'
  OBVIOUS
<1>3. Covered("listenfd", backlog)' /\ Covered("udpfd", dgrams)'
  OBVIOUS
<1>4. ASSUME NEW fd \in Open', server # "sig", Readable(fd)'
      PROVE  fd \in ready' \cup batch' \cup {at'}
  BY <1>4
<1>5. sigs' # {} => "pipefd" \in ready' \cup batch'
  OBVIOUS
<1>6. ASSUME NEW fd \in Fds \ Open'
      PROVE  unread'[fd] = 0 /\ fd \notin ready' \cup batch'
  BY <1>6
<1>7. LevelTriggered'
  OBVIOUS
<1> QED
  BY <1>1, <1>2, <1>3, <1>4, <1>5, <1>6, <1>7

\* The handlers of the listening, the UDP and the signal socket, and that of a connection's
\* event which src/SIG/serv.c does not have.
LEMMA SocketStep ==
  ASSUME Inv,
         UdpEvent \/ SignalEvent \/ \E fd \in Fds : Accept(fd) \/ Ignored(fd)
  PROVE  Inv'
<1> USE FdsAssumption DEF Inv, NothingForgotten, BatchIsReadable, LevelTriggered, Covered, TypeOK,
                          Open, Left, Readable, netVars, queueVars, Handle
<1>1. CASE UdpEvent
  BY <1>1 DEF UdpEvent
<1>2. CASE SignalEvent
  BY <1>2 DEF SignalEvent
<1>3. ASSUME NEW fd \in Fds, Accept(fd)
      PROVE  Inv'
  BY <1>3 DEF Accept
<1>4. ASSUME NEW fd \in Fds, Ignored(fd)
      PROVE  Inv'
  BY <1>4 DEF Ignored
<1> QED
  BY <1>1, <1>2, <1>3, <1>4

\* The handlers of a connection's event.  A connection is given back only when it has
\* nothing to read, so nothing is left of it.
LEMMA ReaderStep ==
  ASSUME Inv, NEW fd \in Fds,
         LtEvent(fd) \/ Reader(fd) \/ Received(fd) \/ Ended(fd) \/ Failed(fd) \/ Again(fd)
  PROVE  Inv'
<1> USE FdsAssumption DEF Inv, NothingForgotten, BatchIsReadable, LevelTriggered, Covered, TypeOK,
                          Open, Left, Readable, netVars, queueVars, Handle, Take, Close
<1>1. CASE LtEvent(fd)
  BY <1>1 DEF LtEvent
<1>2. CASE Reader(fd)
  BY <1>2 DEF Reader
<1>3. CASE Received(fd)
  BY <1>3 DEF Received
<1>4. CASE Ended(fd)
  BY <1>4 DEF Ended
<1>5. CASE Failed(fd)
  BY <1>5 DEF Failed
<1>6. CASE Again(fd)
  BY <1>6 DEF Again
<1> QED
  BY <1>1, <1>2, <1>3, <1>4, <1>5, <1>6

LEMMA InvStep == Inv /\ [Next]_vars => Inv'
<1> SUFFICES ASSUME Inv, [Next]_vars PROVE Inv'
  OBVIOUS
<1>1. CASE Environment
  BY <1>1, EnvironmentStep
<1>2. CASE EpollWait
  BY <1>2, WaitStep
<1>3. CASE UdpEvent \/ SignalEvent \/ \E fd \in Fds : Accept(fd) \/ Ignored(fd)
  BY <1>3, SocketStep
<1>4. ASSUME NEW fd \in Fds,
             LtEvent(fd) \/ Reader(fd) \/ Received(fd) \/ Ended(fd) \/ Failed(fd) \/ Again(fd)
      PROVE  Inv'
  BY <1>4, ReaderStep
<1>5. CASE End
  BY <1>5 DEF End, netVars, queueVars, Inv, NothingForgotten, BatchIsReadable, LevelTriggered,
              Covered, TypeOK, Open, Left, Readable
<1>6. CASE UNCHANGED vars
  BY <1>6 DEF vars, netVars, queueVars, Inv, NothingForgotten, BatchIsReadable, LevelTriggered,
              Covered, TypeOK, Open, Left, Readable
<1> QED
  BY <1>1, <1>2, <1>3, <1>4, <1>5, <1>6 DEF Next, Loop

-------------------------------------------------------------------------------
\* In none of the servers is there a moment at which data of an open connection, a peer
\* that left, or a signal would stay unnoticed (epoll/serv.c:35-96, SIG/serv.c:102-147, and
\* the server of TCP and UDP:76-127), whatever arrives between two calls and whichever
\* connections are closed and accepted again.
THEOREM NothingForgottenCorrect == Spec => []NothingForgotten
<1>1. Inv => NothingForgotten
  BY DEF Inv
<1> QED
  BY <1>1, InvInit, InvStep, PTL DEF Spec

\* A connection is closed (epoll/serv.c:50-53 and 85-90, and the server of TCP and UDP:108-118)
\* only when its peer has left and all it sent was read.
THEOREM OnlyLeaversClosedCorrect == Spec => OnlyLeaversClosed
<1>1. Inv /\ [Next]_vars
        => [\A fd \in Open : fd \notin Open' => fd \in Left /\ unread[fd] = 0]_vars
  <2> SUFFICES ASSUME Inv, Next, NEW fd \in Open, fd \notin Open'
               PROVE  fd \in Left /\ unread[fd] = 0
    OBVIOUS
  <2>1. fd \in Fds /\ conn[fd] # "closed" /\ conn'[fd] = "closed"
    BY DEF Open
  <2>2. conn \in [Fds -> {"closed", "up", "fin", "rst", "broken"}]
    BY DEF Inv, NothingForgotten, TypeOK
  <2>3. LtEvent(fd) \/ Ended(fd) \/ Failed(fd)
    <3>1. ~Environment
      BY <2>1, <2>2 DEF Environment, Connect, Arrival, Send, Leave, Datagram, SigHandler, netVars
    <3>2. ASSUME NEW f \in Fds,
                 \/ Accept(f) \/ Ignored(f) \/ Reader(f) \/ Received(f) \/ Again(f)
                 \/ f # fd /\ (LtEvent(f) \/ Ended(f) \/ Failed(f))
          PROVE  FALSE
      BY <2>1, <2>2, <3>2 DEF Accept, Ignored, Reader, Received, Again, LtEvent, Ended, Failed,
                              Close, netVars
    <3>3. ~(EpollWait \/ UdpEvent \/ SignalEvent \/ End)
      BY <2>1 DEF EpollWait, UdpEvent, SignalEvent, End, netVars
    <3> QED
      BY <3>1, <3>2, <3>3 DEF Next, Loop
  <2>4. CASE LtEvent(fd)
    <3>1. unread[fd] = 0 /\ fd \in batch
      BY <2>1, <2>4 DEF LtEvent, Handle
    <3>2. Readable(fd)
      BY <3>1 DEF Inv, BatchIsReadable
    <3> QED
      BY <2>1, <3>1, <3>2, FdsAssumption DEF Readable
  <2>5. CASE Ended(fd) \/ Failed(fd)
    BY <2>1, <2>5 DEF Ended, Failed, Left
  <2> QED
    BY <2>3, <2>4, <2>5
<1> QED
  BY <1>1, InvInit, InvStep, PTL DEF Spec, OnlyLeaversClosed

-------------------------------------------------------------------------------
\* What is in a set, of one element.
LEMMA OneOf ==
  ASSUME NEW x, NEW S
  PROVE  Cardinality({x} \cap S) = IF x \in S THEN 1 ELSE 0
<1>1. CASE x \in S
  <2>1. {x} \cap S = {x}
    BY <1>1
  <2> QED
    BY <1>1, <2>1, FS_Singleton
<1>2. CASE x \notin S
  <2>1. {x} \cap S = {}
    BY <1>2
  <2> QED
    BY <1>2, <2>1, FS_EmptySet
<1> QED
  BY <1>1, <1>2

\* Events of a socket are counted by where it is, before and after a step.
LEMMA EventCount ==
  ASSUME NEW x
  PROVE  /\ Events(x) = (IF x \in ready THEN 1 ELSE 0) + (IF x \in batch THEN 1 ELSE 0)
         /\ Events(x)' = (IF x \in ready' THEN 1 ELSE 0) + (IF x \in batch' THEN 1 ELSE 0)
  BY OneOf DEF Events

\* A step after which x has as many units as before, and as many events: nothing happens to
\* x, or epoll_wait reports its event, which is not dropped, as it has a unit.
Undisturbed(x) ==
  \/ (x \in ready' <=> x \in ready) /\ (x \in batch' <=> x \in batch)
  \/ x \in ready /\ x \notin batch /\ x \notin ready' /\ x \in batch'

LEMMA UndisturbedEvents ==
  ASSUME NEW x, Undisturbed(x)
  PROVE  Events(x)' = Events(x)
  BY EventCount DEF Undisturbed

\* Connections and the loop's other steps leave the sockets of the server alone.
LEMMA OthersLeave ==
  ASSUME Inv, [Next]_vars, NEW x \in {"listenfd", "udpfd"}
  PROVE  \/ x = "listenfd" /\ (Connect \/ \E fd \in Fds : Accept(fd))
         \/ x = "udpfd" /\ (Datagram \/ UdpEvent)
         \/ Undisturbed(x) /\ (x = "listenfd" => backlog' = backlog)
                           /\ (x = "udpfd" => dgrams' = dgrams)
<1> USE FdsAssumption DEF Undisturbed
<1>1. x \notin Fds /\ x # "pipefd"
  OBVIOUS
<1>2. CASE Environment
  BY <1>1, <1>2 DEF Environment, Connect, Arrival, Send, Leave, Datagram, SigHandler, queueVars
<1>3. CASE EpollWait
  <2>1. x \in ready => Readable(x)
    BY DEF Inv, Covered, NothingForgotten, TypeOK, Readable
  <2>2. x \notin ready'
    BY <1>1, <1>3 DEF EpollWait
  <2>3. x \notin batch /\ (x \in batch' <=> x \in ready) /\ UNCHANGED <<backlog, dgrams>>
    BY <1>3, <2>1 DEF EpollWait, queueVars
  <2> QED
    BY <2>2, <2>3
<1>4. CASE UdpEvent \/ SignalEvent
  BY <1>1, <1>4 DEF UdpEvent, SignalEvent, Handle
<1>5. ASSUME NEW fd \in Fds,
             \/ Accept(fd) \/ Ignored(fd) \/ LtEvent(fd)
             \/ Reader(fd) \/ Received(fd) \/ Ended(fd) \/ Failed(fd) \/ Again(fd)
      PROVE  \/ x = "listenfd" /\ Accept(fd)
             \/ Undisturbed(x) /\ UNCHANGED <<backlog, dgrams>>
             \/ Undisturbed(x) /\ x = "udpfd" /\ UNCHANGED dgrams
  BY <1>1, <1>5 DEF Accept, Ignored, LtEvent, Reader, Received, Ended, Failed, Again, Handle,
                    Take, Close, queueVars
<1>6. CASE End \/ UNCHANGED vars
  BY <1>6 DEF End, vars, queueVars
<1> QED
  BY <1>2, <1>3, <1>4, <1>5, <1>6 DEF Next, Loop

\* Each edge of the listening socket (epoll/serv.c:41-46 and 69-74) and of the UDP socket
\* (the server of TCP and UDP:91-101) is answered with one accept or recvfrom, which finds
\* something; what arrived while an event was pending stays behind.
THEOREM OneTakenPerEdgeCorrect == Spec => OneTakenPerEdge
<1>1. Init => Listening!Init /\ Udp!Init
  <2> SUFFICES ASSUME Init PROVE Events("listenfd") = 0 /\ Events("udpfd") = 0
    BY DEF Init, NoConnections, Listening!Init, Udp!Init
  <2> QED
    BY EventCount DEF Init, NoConnections
<1>2. Inv /\ [Next]_vars => [Listening!Next]_<<backlog, Events("listenfd")>>
  <2> SUFFICES ASSUME Inv, [Next]_vars
               PROVE  Listening!Next \/ UNCHANGED <<backlog, Events("listenfd")>>
    OBVIOUS
  <2> DEFINE x == "listenfd"
  <2>1. Events(x)' = (IF x \in ready' THEN 1 ELSE 0) + (IF x \in batch' THEN 1 ELSE 0)
    BY EventCount
  <2>2. CASE Connect
    <3>1. backlog' = backlog + 1 /\ x \in ready' /\ batch' = batch
      BY <2>2 DEF Connect, Arrival
    <3> QED
      BY <2>1, <3>1, EventCount DEF Listening!Next, Listening!Arrive
  <2>3. CASE \E fd \in Fds : Accept(fd)
    <3>1. /\ backlog' = backlog - 1
          /\ x \in batch /\ x \notin batch' /\ ready' = ready
          /\ backlog > 0
      BY <2>3 DEF Accept, Handle, Inv, Covered, NothingForgotten, TypeOK
    <3> QED
      BY <2>1, <3>1, EventCount DEF Listening!Next, Listening!Take
  <2>4. CASE Undisturbed(x) /\ backlog' = backlog
    BY <2>4, UndisturbedEvents
  <2> QED
    BY <2>2, <2>3, <2>4, OthersLeave
<1>3. Inv /\ [Next]_vars => [Udp!Next]_<<dgrams, Events("udpfd")>>
  <2> SUFFICES ASSUME Inv, [Next]_vars
               PROVE  Udp!Next \/ UNCHANGED <<dgrams, Events("udpfd")>>
    OBVIOUS
  <2> DEFINE x == "udpfd"
  <2>1. Events(x)' = (IF x \in ready' THEN 1 ELSE 0) + (IF x \in batch' THEN 1 ELSE 0)
    BY EventCount
  <2>2. CASE Datagram
    <3>1. dgrams' = dgrams + 1 /\ x \in ready' /\ batch' = batch
      BY <2>2 DEF Datagram
    <3> QED
      BY <2>1, <3>1, EventCount DEF Udp!Next, Udp!Arrive
  <2>3. CASE UdpEvent
    <3>1. /\ dgrams' = dgrams - 1
          /\ x \in batch /\ x \notin batch' /\ ready' = ready
          /\ dgrams > 0
      BY <2>3 DEF UdpEvent, Handle, Inv, Covered, NothingForgotten, TypeOK
    <3> QED
      BY <2>1, <3>1, EventCount DEF Udp!Next, Udp!Take
  <2>4. CASE Undisturbed(x) /\ dgrams' = dgrams
    BY <2>4, UndisturbedEvents
  <2> QED
    BY <2>2, <2>3, <2>4, OthersLeave
<1> QED
  BY <1>1, <1>2, <1>3, InvInit, InvStep, PTL
     DEF Spec, OneTakenPerEdge, Listening!Spec, Udp!Spec

-------------------------------------------------------------------------------
(* The server with one-shot connections. *)

\* What epoll has of the connections: only armed ones are on the ready list, those
\* that are armed or reported are open, and none is both.
EpollMatches ==
  /\ ready \cap Fds \subseteq armed
  /\ armed \cup (batch \cap Fds) \subseteq Open
  /\ armed \cap batch = {}

ClosedAreEmpty == \A fd \in Fds \ Open : unread[fd] = 0

Matches == EpollMatches /\ OneWorkerEach /\ NobodyForgotten

OneshotInv == OneshotTypeOK /\ ClosedAreEmpty /\ (~mixed => Matches)

-------------------------------------------------------------------------------
\* The variables keep their types.
LEMMA TypeStep ==
  ASSUME OneshotTypeOK, [OneshotNext]_oneshotVars
  PROVE  OneshotTypeOK'
<1> USE DEF OneshotTypeOK, oneshotVars, peerVars, epollVars, workVars
<1>1. CASE UNCHANGED oneshotVars
  BY <1>1
<1>2. CASE PeerConnects
  BY <1>2 DEF PeerConnects, Arrival
<1>3. ASSUME NEW fd \in Fds, PeerSends(fd) PROVE OneshotTypeOK'
  BY <1>3 DEF PeerSends, Edge
<1>4. ASSUME NEW fd \in Fds, PeerLeaves(fd) PROVE OneshotTypeOK'
  BY <1>4 DEF PeerLeaves, Edge
<1>5. CASE WaitOneshot
  BY <1>5 DEF WaitOneshot, Reported
<1>6. ASSUME NEW fd \in Fds, AcceptOneshot(fd) PROVE OneshotTypeOK'
  BY <1>6 DEF AcceptOneshot
<1>7. ASSUME NEW fd \in Fds, NEW w \in Workers, Dispatch(fd, w) PROVE OneshotTypeOK'
  BY <1>7 DEF Dispatch
<1>8. ASSUME NEW w \in Workers, ReadArgs(w) PROVE OneshotTypeOK'
  <2>1. mixed' \in BOOLEAN
    BY <1>8 DEF ReadArgs
  <2>. QED
    BY <1>8, <2>1 DEF ReadArgs
<1>9. ASSUME NEW w \in Workers, NEW fd \in Fds,
             \/ WorkerReceived(w, fd) \/ WorkerEnded(w, fd)
             \/ WorkerAgain(w, fd) \/ WorkerFailed(w, fd)
      PROVE  OneshotTypeOK'
  BY <1>9 DEF WorkerReceived, WorkerEnded, WorkerAgain, WorkerFailed, Ends, Receives, Open
<1>10. ASSUME NEW w \in Workers, ResetOneshot(w) PROVE OneshotTypeOK'
  BY <1>10 DEF ResetOneshot, Ends, Open
<1>. QED
  BY <1>1, <1>2, <1>3, <1>4, <1>5, <1>6, <1>7, <1>8, <1>9, <1>10 DEF OneshotNext, Main, Worker

\* Nothing is left to read where nothing is open.
LEMMA EmptyStep ==
  ASSUME OneshotTypeOK, ClosedAreEmpty, [OneshotNext]_oneshotVars
  PROVE  ClosedAreEmpty'
<1> USE DEF OneshotTypeOK, ClosedAreEmpty, Open, oneshotVars, peerVars
<1>1. ASSUME NEW fd \in Fds, PeerSends(fd) \/ PeerLeaves(fd) PROVE ClosedAreEmpty'
  BY <1>1 DEF PeerSends, PeerLeaves
<1>2. ASSUME NEW fd \in Fds, AcceptOneshot(fd) PROVE ClosedAreEmpty'
  BY <1>2 DEF AcceptOneshot
<1>3. ASSUME NEW w \in Workers, NEW fd \in Fds,
             \/ WorkerReceived(w, fd) \/ WorkerEnded(w, fd)
             \/ WorkerAgain(w, fd) \/ WorkerFailed(w, fd)
      PROVE  ClosedAreEmpty'
  BY <1>3 DEF WorkerReceived, WorkerEnded, WorkerAgain, WorkerFailed, Receives
<1>4. CASE UNCHANGED <<conn, unread>>
  BY <1>4
<1>. QED
  BY <1>1, <1>2, <1>3, <1>4
     DEF OneshotNext, Main, Worker, PeerConnects, Arrival, WaitOneshot, Dispatch, ReadArgs,
         ResetOneshot

-------------------------------------------------------------------------------
\* An arrival reports the connection if it is armed, and changes nothing else.
LEMMA PeerStep ==
  ASSUME OneshotInv, Matches, ~mixed, NEW fd \in Fds, PeerSends(fd) \/ PeerLeaves(fd)
  PROVE  Matches'
<1>1. /\ Open' = Open
      /\ ready' = ready \cup ({fd} \cap armed)
      /\ \A f \in Fds \ {fd} : HasEvent(f)' = HasEvent(f)
      /\ UNCHANGED <<armed, batch, stage, sock, mixed>>
  BY DEF OneshotInv, OneshotTypeOK, PeerSends, PeerLeaves, Edge, Open, HasEvent, workVars
<1>2. EpollMatches' /\ OneWorkerEach'
  BY <1>1 DEF Matches, EpollMatches, OneWorkerEach, Busy
<1>3. Busy' = Busy
  BY <1>1 DEF Busy
<1>4. ASSUME NEW f \in Open, ~(\E w \in Busy : sock[w] = f), f \notin batch
      PROVE  f \in armed /\ (HasEvent(f)' => f \in ready')
  <2>1. f \in armed /\ (HasEvent(f) => f \in ready)
    BY <1>4 DEF Matches, NobodyForgotten
  <2>. QED
    BY <1>1, <2>1 DEF Open
<1>5. NobodyForgotten'
  BY <1>1, <1>3, <1>4 DEF NobodyForgotten
<1>. QED
  BY <1>2, <1>5 DEF Matches

\* What is reported is disarmed, and what is on the ready list and readable is reported.
LEMMA WaitOneshotStep ==
  ASSUME OneshotInv, Matches, WaitOneshot
  PROVE  Matches'
<1>1. /\ Open' = Open
      /\ \A f \in Fds : HasEvent(f)' = HasEvent(f)
      /\ batch' = Reported /\ ready' = {} /\ armed' = armed \ Reported
      /\ batch = {}
      /\ UNCHANGED <<stage, sock, mixed>>
  BY DEF WaitOneshot, Open, HasEvent, peerVars, workVars
<1>2. Reported \cap Fds \subseteq armed
  BY DEF Matches, EpollMatches, Reported
<1>3. EpollMatches' /\ OneWorkerEach'
  BY <1>1, <1>2 DEF Matches, EpollMatches, OneWorkerEach, Busy, OneshotInv, OneshotTypeOK, Open
<1>4. NobodyForgotten'
  BY <1>1 DEF Matches, NobodyForgotten, Busy, Reported, Open
<1>. QED
  BY <1>3, <1>4 DEF Matches

\* A new connection is armed; its number is no other's.
LEMMA AcceptOneshotStep ==
  ASSUME OneshotInv, Matches, NEW fd \in Fds, AcceptOneshot(fd)
  PROVE  Matches'
<1>1. /\ fd \notin Open /\ Open' = Open \cup {fd}
      /\ ~HasEvent(fd)'
      /\ \A f \in Fds \ {fd} : HasEvent(f)' = HasEvent(f)
      /\ batch' = batch \ {"listenfd"} /\ armed' = armed \cup {fd}
      /\ UNCHANGED <<ready, stage, sock, mixed>>
  BY DEF OneshotInv, OneshotTypeOK, ClosedAreEmpty, AcceptOneshot, Open, HasEvent, workVars
<1>2. EpollMatches' /\ OneWorkerEach'
  BY <1>1 DEF Matches, EpollMatches, OneWorkerEach, Busy
<1>3. NobodyForgotten'
  BY <1>1, FdsAssumption DEF Matches, NobodyForgotten, Busy, Open
<1>. QED
  BY <1>2, <1>3 DEF Matches

\* A reported connection gets a worker, and has none yet.
LEMMA DispatchStep ==
  ASSUME OneshotInv, Matches, NEW fd \in Fds, NEW w \in Workers, Dispatch(fd, w), ~mixed
  PROVE  Matches'
<1>1. /\ Open' = Open
      /\ \A f \in Fds : HasEvent(f)' = HasEvent(f)
      /\ fd \in batch /\ batch' = batch \ {fd}
      /\ w \notin Busy /\ Busy' = Busy \cup {w}
      /\ sock' = [sock EXCEPT ![w] = fd]
      /\ UNCHANGED <<ready, armed, mixed>>
  BY DEF OneshotInv, OneshotTypeOK, Dispatch, Open, HasEvent, Busy, peerVars, epollVars
<1>2. sock'[w] = fd /\ \A v \in Workers \ {w} : sock'[v] = sock[v]
  BY <1>1 DEF OneshotInv, OneshotTypeOK
<1>3. EpollMatches'
  BY <1>1 DEF Matches, EpollMatches
<1>4. OneWorkerEach'
  BY <1>1, <1>2 DEF Matches, EpollMatches, OneWorkerEach, Busy
<1>5. ASSUME NEW f \in Open
      PROVE  \/ f \in armed /\ (HasEvent(f)' => f \in ready)
             \/ f \in batch'
             \/ \E v \in Busy' : sock'[v] = f
  <2>1. CASE f = fd
    BY <1>1, <1>2, <2>1
  <2>2. CASE f # fd /\ \E v \in Busy : sock[v] = f
    BY <1>1, <1>2, <2>2 DEF Busy
  <2>3. CASE f # fd /\ ~ \E v \in Busy : sock[v] = f
    BY <1>1, <2>3 DEF Matches, NobodyForgotten, Open
  <2>. QED
    BY <2>1, <2>2, <2>3
<1>6. NobodyForgotten'
  BY <1>1, <1>5 DEF NobodyForgotten
<1>. QED
  BY <1>3, <1>4, <1>6 DEF Matches

\* A worker that finds the descriptor main gave it keeps it.
LEMMA ReadArgsStep ==
  ASSUME OneshotInv, Matches, NEW w \in Workers, ReadArgs(w), ~mixed'
  PROVE  Matches'
<1>1. /\ Open' = Open
      /\ \A f \in Fds : HasEvent(f)' = HasEvent(f)
      /\ Busy' = Busy
      /\ sock' = sock
      /\ ~mixed
      /\ UNCHANGED <<ready, armed, batch>>
  BY DEF OneshotInv, OneshotTypeOK, ReadArgs, Open, HasEvent, Busy, peerVars, epollVars
<1>2. EpollMatches' /\ OneWorkerEach'
  BY <1>1 DEF Matches, EpollMatches, OneWorkerEach
<1>3. NobodyForgotten'
  BY <1>1 DEF Matches, NobodyForgotten, Open
<1>. QED
  BY <1>2, <1>3 DEF Matches

\* A worker that receives, or finds nothing or an error, keeps its connection.
LEMMA RecvStep ==
  ASSUME OneshotInv, Matches, ~mixed, NEW w \in Workers, NEW fd \in Fds,
         WorkerReceived(w, fd) \/ WorkerAgain(w, fd) \/ WorkerFailed(w, fd)
  PROVE  Matches'
<1>1. /\ Open' = Open
      /\ \A f \in Fds \ {fd} : HasEvent(f)' = HasEvent(f)
      /\ Busy' = Busy /\ w \in Busy /\ sock[w] = fd
      /\ UNCHANGED <<ready, armed, batch, sock, mixed>>
  BY DEF OneshotInv, OneshotTypeOK, WorkerReceived, WorkerAgain, WorkerFailed, Receives, Open,
         HasEvent, Busy, peerVars, epollVars, workVars
<1>2. EpollMatches' /\ OneWorkerEach'
  BY <1>1 DEF Matches, EpollMatches, OneWorkerEach
<1>3. ASSUME NEW f \in Open, ~(\E v \in Busy : sock[v] = f), f \notin batch
      PROVE  f \in armed /\ (HasEvent(f)' => f \in ready)
  <2>1. f # fd /\ f \in armed /\ (HasEvent(f) => f \in ready)
    BY <1>1, <1>3 DEF Matches, NobodyForgotten
  <2>. QED
    BY <1>1, <2>1 DEF Open
<1>4. NobodyForgotten'
  BY <1>1, <1>3 DEF NobodyForgotten
<1>. QED
  BY <1>2, <1>4 DEF Matches

\* A worker closes its connection, which no other worker has.
LEMMA EndedStep ==
  ASSUME OneshotInv, Matches, ~mixed, NEW w \in Workers, NEW fd \in Fds, WorkerEnded(w, fd)
  PROVE  Matches'
<1>1. /\ Open' = Open \ {fd}
      /\ \A f \in Fds \ {fd} : HasEvent(f)' = HasEvent(f)
      /\ w \in Busy /\ Busy' = Busy \ {w} /\ sock[w] = fd
      /\ \A v \in Workers \ {w} : sock'[v] = sock[v]
      /\ armed' = armed \ {fd} /\ ready' = ready \ {fd}
      /\ UNCHANGED <<batch, mixed>>
  BY DEF OneshotInv, OneshotTypeOK, WorkerEnded, Ends, Receives, Open, HasEvent, Busy
<1>2. EpollMatches'
  BY <1>1 DEF Matches, EpollMatches, OneWorkerEach
<1>3. OneWorkerEach'
  BY <1>1 DEF Matches, OneWorkerEach, Busy
<1>4. NobodyForgotten'
  BY <1>1 DEF Matches, NobodyForgotten, Busy, Open
<1>. QED
  BY <1>2, <1>3, <1>4 DEF Matches

\* The worker's connection is armed again, and reported if anything came meanwhile.
LEMMA ResetStep ==
  ASSUME OneshotInv, Matches, ~mixed, NEW w \in Workers, ResetOneshot(w)
  PROVE  Matches'
<1>1. w \in Busy /\ sock[w] \in Open \ (armed \cup batch)
  BY DEF ResetOneshot, Busy, Matches, OneWorkerEach
<1>2. /\ Open' = Open
      /\ \A f \in Fds : HasEvent(f)' = HasEvent(f)
      /\ Busy' = Busy \ {w}
      /\ \A v \in Workers \ {w} : sock'[v] = sock[v]
      /\ armed' = armed \cup {sock[w]}
      /\ ready \subseteq ready'
      /\ ready' \subseteq ready \cup {sock[w]}
      /\ HasEvent(sock[w]) => sock[w] \in ready'
      /\ UNCHANGED <<batch, mixed>>
  BY <1>1 DEF OneshotInv, OneshotTypeOK, ResetOneshot, Ends, Open, HasEvent, Busy, peerVars
<1>3. EpollMatches'
  BY <1>1, <1>2 DEF Matches, EpollMatches
<1>4. OneWorkerEach'
  BY <1>1, <1>2 DEF Matches, OneWorkerEach, Busy
<1>5. NobodyForgotten'
  BY <1>1, <1>2 DEF Matches, NobodyForgotten, Busy, Open
<1>. QED
  BY <1>3, <1>4, <1>5 DEF Matches

-------------------------------------------------------------------------------
\* The inductive invariant.
THEOREM OneshotInvCorrect == OneshotSpec => []OneshotInv
<1>1. OneshotInit => OneshotInv
  <2>. SUFFICES ASSUME OneshotInit PROVE OneshotInv
    OBVIOUS
  <2>0. mixed \in BOOLEAN
    BY DEF OneshotInit, NoConnections
  <2>1. OneshotTypeOK /\ ClosedAreEmpty
    BY <2>0 DEF OneshotInit, NoConnections, OneshotTypeOK, ClosedAreEmpty
  <2>2. Open = {} /\ Busy = {}
    BY DEF OneshotInit, NoConnections, Open, Busy
  <2>. QED
    BY <2>1, <2>2
       DEF OneshotInit, NoConnections, OneshotInv, Matches, EpollMatches, OneWorkerEach,
           NobodyForgotten
<1>2. OneshotInv /\ [OneshotNext]_oneshotVars => OneshotInv'
  <2>. SUFFICES ASSUME OneshotInv, [OneshotNext]_oneshotVars, ~mixed' PROVE Matches'
    BY TypeStep, EmptyStep DEF OneshotInv
  <2>1. ~mixed /\ Matches
    BY DEF OneshotInv, OneshotTypeOK, OneshotNext, Main, Worker, PeerConnects, Arrival,
           PeerSends, PeerLeaves, WaitOneshot, AcceptOneshot, Dispatch, ReadArgs, WorkerReceived,
           WorkerEnded, WorkerAgain, WorkerFailed, ResetOneshot, Ends, oneshotVars, workVars
  <2>2. CASE PeerConnects \/ UNCHANGED oneshotVars
    <3>1. /\ ready' \cap Fds = ready \cap Fds
          /\ UNCHANGED <<conn, unread, armed, batch, workVars>>
      BY <2>2, FdsAssumption DEF PeerConnects, Arrival, oneshotVars, peerVars, epollVars
    <3>2. /\ Open' = Open /\ Busy' = Busy
          /\ \A f \in Fds : HasEvent(f)' = HasEvent(f)
      BY <3>1 DEF Open, Busy, HasEvent, workVars
    <3>. QED
      BY <2>1, <3>1, <3>2 DEF Matches, EpollMatches, OneWorkerEach, NobodyForgotten, Open, workVars
  <2>. QED
    BY <2>1, <2>2, PeerStep, WaitOneshotStep, AcceptOneshotStep, DispatchStep, ReadArgsStep,
       RecvStep, EndedStep, ResetStep DEF OneshotNext, Main, Worker
<1>. QED
  BY <1>1, <1>2, PTL DEF OneshotSpec

\* EPOLLONESHOT gives each connection to one worker at a time, as long as the
\* workers find their arguments.
THEOREM OneWorkerEachCorrect == OneshotSpec => []OneWorkerEach
<1>1. OneshotInv => OneWorkerEach
  BY DEF OneshotInv, Matches, OneWorkerEach
<1>. QED
  BY <1>1, OneshotInvCorrect, PTL

\* And reset_oneshot loses no event between the last recv and the re-arming.
THEOREM NobodyForgottenCorrect == OneshotSpec => []NobodyForgotten
<1>1. OneshotInv => NobodyForgotten
  BY DEF OneshotInv, Matches, NobodyForgotten
<1>. QED
  BY <1>1, OneshotInvCorrect, PTL

\* A worker closes a connection only after its peer has left and all it sent was read,
\* even if the worker has another's arguments.
THEOREM OnlyReadAreClosedCorrect == OneshotSpec => OnlyReadAreClosed
<1>1. ASSUME OneshotTypeOK, [OneshotNext]_oneshotVars, NEW fd \in Open, fd \notin Open'
      PROVE  conn[fd] = "fin" /\ unread[fd] = 0
  <2> USE DEF OneshotTypeOK, Open, oneshotVars, peerVars
  <2>1. PICK w \in Workers, f \in Fds : WorkerEnded(w, f)
    BY <1>1
       DEF OneshotNext, Main, Worker, PeerConnects, Arrival, PeerSends, PeerLeaves, WaitOneshot,
           AcceptOneshot, Dispatch, ReadArgs, WorkerReceived, WorkerAgain, WorkerFailed, ResetOneshot
  <2>2. f = fd
    BY <1>1, <2>1 DEF WorkerEnded
  <2>. QED
    BY <2>1, <2>2 DEF WorkerEnded
<1>2. OneshotInv /\ [OneshotNext]_oneshotVars
        => [\A fd \in Open : fd \notin Open' => conn[fd] = "fin" /\ unread[fd] = 0]_oneshotVars
  BY <1>1 DEF OneshotInv
<1>. QED
  BY <1>2, OneshotInvCorrect, PTL DEF OneshotSpec, OnlyReadAreClosed

===============================================================================
