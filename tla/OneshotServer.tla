----------------------------- MODULE OneshotServer -----------------------------
(***************************************************************************)
(* src/epoll/EPOLLONESHOT/serv.c: the main thread waits for events and     *)
(* starts a worker thread for each connection with data; a worker receives *)
(* until nothing is left, re-arms the connection and ends.  EPOLLONESHOT   *)
(* keeps the connection disarmed meanwhile.                                *)
(*                                                                         *)
(* A worker finds its descriptor in a struct on main's stack, when it      *)
(* first runs: by then main may have filled the struct for another worker, *)
(* or have used its place for something else.  What follows then is in the *)
(* model too; "mixed" remembers that it has happened.  A worker that reads *)
(* a descriptor where nothing is open fails and tries again for good,      *)
(* which is no step.                                                       *)
(***************************************************************************)
EXTENDS EpollSockets

CONSTANT Workers   \* bound: worker threads at a time

VARIABLES armed,     \* connections that epoll reports on
          slot,      \* fds_for_new_worker.sockfd; NULL: anything but a descriptor
          stage,     \* of a worker: "none", "created" until it has read its arguments,
                     \* "recv" in its loop, "again" once recv has found nothing
          sock,      \* the worker's sockfd; until it is read, that which main gave it
          mixed      \* history: a worker has read another descriptor than main gave it

peerVars == <<conn, unread, backlog>>
epollVars == <<armed, ready>>
workVars == <<stage, sock, mixed>>
oneshotVars == <<peerVars, epollVars, batch, slot, workVars>>

OneshotInit ==
  /\ NoConnections
  /\ armed = {}
  /\ slot = NULL
  /\ stage = [w \in Workers |-> "none"]
  /\ sock = [w \in Workers |-> NULL]
  /\ mixed = FALSE

-------------------------------------------------------------------------------
(* Peers.  An arrival is an edge, which is lost on a disarmed connection.  *)

PeerConnects ==
  /\ Arrival
  /\ UNCHANGED <<conn, unread, armed, batch, slot, workVars>>

Edge(fd) == ready' = ready \cup ({fd} \cap armed)

PeerSends(fd) ==
  /\ conn[fd] = "up"
  /\ unread[fd] < MaxUnread
  /\ unread' = [unread EXCEPT ![fd] = @ + 1]
  /\ Edge(fd)
  /\ UNCHANGED <<conn, backlog, armed, batch, slot, workVars>>

\* The peer closes; or it resets, and what it sent is lost.
PeerLeaves(fd) ==
  /\ conn[fd] = "up"
  /\ \/ conn' = [conn EXCEPT ![fd] = "fin"] /\ UNCHANGED unread
     \/ conn' = [conn EXCEPT ![fd] = "rst"] /\ unread' = [unread EXCEPT ![fd] = 0]
  /\ Edge(fd)
  /\ UNCHANGED <<backlog, armed, batch, slot, workVars>>

-------------------------------------------------------------------------------
(* The main thread. *)

HasEvent(fd) == conn[fd] \in {"fin", "rst"} \/ unread[fd] > 0
Reported == {x \in ready : x = "listenfd" \/ (x \in Fds /\ HasEvent(x))}

\* Mutant: connections are added without EPOLLONESHOT.
WaitStayArmed ==
  /\ batch = {}
  /\ Reported # {}
  /\ batch' = Reported
  /\ ready' = {}
  /\ UNCHANGED <<peerVars, armed, slot, workVars>>

WaitOneshot ==
  /\ batch = {}
  /\ Reported # {}
  /\ batch' = Reported
  /\ ready' = {}
  /\ armed' = armed \ Reported
  /\ UNCHANGED <<peerVars, slot, workVars>>

\* One accept for an event on the listening socket; whether its variables have
\* the place of the struct is up to the compiler.
AcceptOneshot(fd) ==
  /\ "listenfd" \in batch
  /\ conn[fd] = "closed"
  /\ batch' = batch \ {"listenfd"}
  /\ backlog' = backlog - 1
  /\ conn' = [conn EXCEPT ![fd] = "up"]
  /\ armed' = armed \cup {fd}
  /\ slot' \in {slot, NULL}
  /\ UNCHANGED <<unread, ready, workVars>>

\* pthread_create for a connection with data.
Dispatch(fd, w) ==
  /\ fd \in batch
  /\ stage[w] = "none"
  /\ batch' = batch \ {fd}
  /\ slot' = fd
  /\ stage' = [stage EXCEPT ![w] = "created"]
  /\ sock' = [sock EXCEPT ![w] = fd]
  /\ UNCHANGED <<peerVars, epollVars, mixed>>

-------------------------------------------------------------------------------
(* A worker. *)

ReadArgs(w) ==
  /\ stage[w] = "created"
  /\ sock' = [sock EXCEPT ![w] = slot]
  /\ mixed' = (mixed \/ slot # sock[w])
  /\ stage' = [stage EXCEPT ![w] = "recv"]
  /\ UNCHANGED <<peerVars, epollVars, batch, slot>>

\* The worker calls recv on connection fd.
Receives(w, fd) == stage[w] = "recv" /\ sock[w] = fd /\ fd \in Open

WorkerReceived(w, fd) ==
  /\ Receives(w, fd)
  /\ unread[fd] > 0
  /\ unread' = [unread EXCEPT ![fd] = @ - 1]
  /\ UNCHANGED <<conn, backlog, epollVars, batch, slot, workVars>>

Ends(w) ==
  /\ stage' = [stage EXCEPT ![w] = "none"]
  /\ sock' = [sock EXCEPT ![w] = NULL]
  /\ UNCHANGED mixed

\* Mutant: the end is taken for EAGAIN.
WorkerEndedReadsLater(w, fd) ==
  /\ Receives(w, fd)
  /\ conn[fd] = "fin" /\ unread[fd] = 0
  /\ stage' = [stage EXCEPT ![w] = "again"]
  /\ UNCHANGED <<peerVars, epollVars, batch, slot, sock, mixed>>

\* recv returns 0: the connection is closed, and leaves epoll.
WorkerEnded(w, fd) ==
  /\ Receives(w, fd)
  /\ conn[fd] = "fin" /\ unread[fd] = 0
  /\ conn' = [conn EXCEPT ![fd] = "closed"]
  /\ armed' = armed \ {fd}
  /\ ready' = ready \ {fd}
  /\ Ends(w)
  /\ UNCHANGED <<unread, backlog, batch, slot>>

\* EAGAIN
WorkerAgain(w, fd) ==
  /\ Receives(w, fd)
  /\ conn[fd] = "up" /\ unread[fd] = 0
  /\ stage' = [stage EXCEPT ![w] = "again"]
  /\ UNCHANGED <<peerVars, epollVars, batch, slot, sock, mixed>>

\* Any other error, which is reported once: the worker goes on.
WorkerFailed(w, fd) ==
  /\ Receives(w, fd)
  /\ conn[fd] = "rst"
  /\ conn' = [conn EXCEPT ![fd] = "fin"]
  /\ UNCHANGED <<unread, backlog, epollVars, batch, slot, workVars>>

\* Mutant: the worker ends and leaves the connection disarmed.
ResetOneshotNot(w) ==
  /\ stage[w] = "again"
  /\ Ends(w)
  /\ UNCHANGED <<peerVars, epollVars, batch, slot>>

\* reset_oneshot, which reports what has arrived in the meantime.  (It fails
\* where nothing is open.)
ResetOneshot(w) ==
  /\ stage[w] = "again"
  /\ armed' = armed \cup ({sock[w]} \cap Open)
  /\ ready' = ready \cup {fd \in {sock[w]} \cap Open : HasEvent(fd)}
  /\ Ends(w)
  /\ UNCHANGED <<peerVars, batch, slot>>

-------------------------------------------------------------------------------
Main ==
  \/ WaitOneshot
  \/ \E fd \in Fds : AcceptOneshot(fd)
  \/ \E fd \in Fds, w \in Workers : Dispatch(fd, w)

Worker(w) ==
  \/ ReadArgs(w)
  \/ \E fd \in Fds : \/ WorkerReceived(w, fd) \/ WorkerEnded(w, fd)
                      \/ WorkerAgain(w, fd) \/ WorkerFailed(w, fd)
  \/ ResetOneshot(w)

OneshotNext ==
  \/ PeerConnects
  \/ \E fd \in Fds : PeerSends(fd) \/ PeerLeaves(fd)
  \/ Main
  \/ \E w \in Workers : Worker(w)

OneshotSpec == OneshotInit /\ [][OneshotNext]_oneshotVars

\* Each thread is scheduled, and its sockets do not block.
FairOneshotSpec ==
  /\ OneshotSpec
  /\ WF_oneshotVars(Main)
  /\ \A w \in Workers : WF_oneshotVars(Worker(w))

-------------------------------------------------------------------------------
OneshotTypeOK ==
  /\ conn \in [Fds -> {"closed", "up", "fin", "rst"}]
  /\ unread \in [Fds -> Nat]
  /\ backlog \in Int
  /\ armed \in SUBSET Fds
  /\ ready \in SUBSET (Fds \cup {"listenfd"})
  /\ batch \in SUBSET (Fds \cup {"listenfd"})
  /\ slot \in Fds \cup {NULL}
  /\ stage \in [Workers -> {"none", "created", "recv", "again"}]
  /\ sock \in [Workers -> Fds \cup {NULL}]
  /\ mixed \in BOOLEAN

Busy == {w \in Workers : stage[w] # "none"}

\* As long as each worker finds the descriptor that main has given it, no two of
\* them have the same connection at a time, nor one that is closed, or whose next
\* event main is about to hand out, whenever data arrives and whatever number a
\* new connection gets.
OneWorkerEach ==
  ~mixed => \A w \in Busy : /\ sock[w] \in Open \ (armed \cup batch)
                            /\ \A v \in Busy : sock[v] = sock[w] => v = w

\* So long, no connection is forgotten: it is armed, and what there is to read will
\* be reported, or it is reported already, or it has a worker.
NobodyForgotten ==
  ~mixed => \A fd \in Open : \/ fd \in armed /\ (HasEvent(fd) => fd \in ready)
                             \/ fd \in batch
                             \/ \E w \in Busy : sock[w] = fd

\* No worker, whatever arguments it found, closes a connection whose peer is there or
\* whose data it has not read.  (What a peer sent before a reset, the kernel has
\* dropped: see PeerLeaves.)
OnlyReadAreClosed ==
  [][\A fd \in Open : fd \notin Open' => conn[fd] = "fin" /\ unread[fd] = 0]_oneshotVars

\* A connection whose peer has left is closed in the end, as long as workers find their
\* arguments, and what a peer that closed it has sent is read before.
WorkersCloseLeavers ==
  /\ OnlyReadAreClosed
  /\ \A fd \in Fds : (conn[fd] \in {"fin", "rst"}) ~> (conn[fd] = "closed" \/ mixed)
===============================================================================
