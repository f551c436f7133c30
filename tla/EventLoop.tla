------------------------------- MODULE EventLoop -------------------------------
(***************************************************************************)
(* The event loop that the servers of src/TIMER that close inactive        *)
(* connections have in common: one thread, an edge-triggered epoll         *)
(* instance over the listening socket, the signal socket pair and the      *)
(* connections, a signal handler that writes the signal to the pair, and   *)
(* alarm() as the clock.  Around it, its environment: peers, the kernel's  *)
(* ready list, signals and the passing of time.  The line numbers in the   *)
(* project's map are those of close_unactive_sock.c; the other two servers *)
(* have the same text.                                                     *)
(*                                                                         *)
(* A server module EXTENDS this one, and adds what its handlers do to its  *)
(* timers.  A connection's received data is counted in units of what one   *)
(* recv can take (64 bytes).                                               *)
(***************************************************************************)
EXTENDS Integers, FiniteSets

CONSTANTS Fds,        \* descriptors a connection can have
          TIMESLOT,   \* seconds between two ticks
          Limit,      \* seconds of silence a server allows
          Backlog,    \* bound: connections waiting to be accepted
          MaxUnread   \* bound: units of data received and not read, per connection

ASSUME FdsAssumption == "listenfd" \notin Fds /\ "pipefd" \notin Fds
ASSUME TimeslotAssumption == TIMESLOT \in Nat \ {0}
ASSUME LimitAssumption == Limit \in Nat \ {0}

VARIABLES open,        \* connections accepted and not closed
          unread,      \* data the kernel holds for a connection
          peer,        \* "up", "fin": the peer closed, "rst": it reset
          backlog,     \* connections waiting in the listening socket
          ready,       \* epoll's ready list: descriptors with an edge to report
          batch,       \* descriptors of events[] still to be handled
          pipe,        \* signals written to the socket pair
          alarm,       \* seconds until SIGALRM, or Off
          timeout,     \* the loop has seen SIGALRM
          stop_server,
          pc,          \* "wait": at epoll_wait, "handle": in the batch, "exit"
          quiet        \* history: seconds since the server heard from a connection

connVars == <<open, unread, peer, quiet>>
sigVars  == <<pipe, alarm, timeout, stop_server>>
loopVars == <<ready, batch, pc>>
eventVars == <<connVars, backlog, sigVars, loopVars>>

Off == -1

EventInit ==
  /\ open = {}
  /\ unread = [fd \in Fds |-> 0]
  /\ peer = [fd \in Fds |-> "up"]
  /\ backlog = 0
  /\ ready = {}
  /\ batch = {}
  /\ pipe = {}
  /\ alarm = TIMESLOT
  /\ timeout = FALSE
  /\ stop_server = FALSE
  /\ pc = "wait"
  /\ quiet = [fd \in Fds |-> 0]

-------------------------------------------------------------------------------
(* The environment.  Each arrival is an edge: it puts the descriptor on the *)
(* ready list, whether or not earlier data was read.                       *)

Connect ==
  /\ pc # "exit"
  /\ backlog < Backlog
  /\ backlog + Cardinality(open) < Cardinality(Fds)
  /\ backlog' = backlog + 1
  /\ ready' = ready \cup {"listenfd"}
  /\ UNCHANGED <<connVars, sigVars, batch, pc>>

Send(fd) ==
  /\ pc # "exit"
  /\ fd \in open /\ peer[fd] = "up"
  /\ unread[fd] < MaxUnread
  /\ unread' = [unread EXCEPT ![fd] = @ + 1]
  /\ ready' = ready \cup {fd}
  /\ UNCHANGED <<open, peer, quiet, backlog, sigVars, batch, pc>>

\* The peer closes; or it resets, and what it sent is lost.
PeerLeaves(fd) ==
  /\ pc # "exit"
  /\ fd \in open /\ peer[fd] = "up"
  /\ \/ peer' = [peer EXCEPT ![fd] = "fin"] /\ UNCHANGED unread
     \/ peer' = [peer EXCEPT ![fd] = "rst"] /\ unread' = [unread EXCEPT ![fd] = 0]
  /\ ready' = ready \cup {fd}
  /\ UNCHANGED <<open, quiet, backlog, sigVars, batch, pc>>

\* sig_handler, run for signal sig.
SigHandler(sig) ==
  /\ pipe' = pipe \cup {sig}
  /\ ready' = ready \cup {"pipefd"}

Terminate ==
  /\ pc # "exit"
  /\ SigHandler("SIGTERM")
  /\ UNCHANGED <<connVars, backlog, alarm, timeout, stop_server, batch, pc>>

AlarmExpires ==
  /\ pc # "exit"
  /\ alarm = 0
  /\ alarm' = Off
  /\ SigHandler("SIGALRM")
  /\ UNCHANGED <<connVars, backlog, timeout, stop_server, batch, pc>>

\* time(NULL) advances by one second.
Second ==
  /\ alarm # 0 \/ pc = "exit"
  /\ alarm' = IF alarm > 0 THEN alarm - 1 ELSE alarm
  /\ quiet' = [fd \in Fds |-> IF fd \in open /\ quiet[fd] < Limit
                              THEN quiet[fd] + 1 ELSE quiet[fd]]
  /\ UNCHANGED <<open, unread, peer, backlog, pipe, timeout, stop_server, loopVars>>

-------------------------------------------------------------------------------
(* The loop.                                                               *)

Readable(x) ==
  CASE x = "listenfd" -> backlog > 0
    [] x = "pipefd"   -> pipe # {}
    [] OTHER          -> unread[x] > 0 \/ peer[x] # "up"

\* epoll_wait returns what is on the ready list and still readable.
EpollWait ==
  /\ pc = "wait"
  /\ batch' = {x \in ready : Readable(x)}
  /\ batch' # {}
  /\ ready' = {}
  /\ pc' = "handle"
  /\ UNCHANGED <<connVars, backlog, sigVars>>

\* One accept() for an event on the listening socket.
AcceptEvent(fd) ==
  /\ pc = "handle"
  /\ "listenfd" \in batch
  /\ fd \in Fds \ open
  /\ batch' = batch \ {"listenfd"}
  /\ backlog' = backlog - 1
  /\ open' = open \cup {fd}
  /\ quiet' = [quiet EXCEPT ![fd] = 0]
  /\ UNCHANGED <<unread, peer, sigVars, ready, pc>>

\* Mutant: one signal is read per event.
SignalEventOne ==
  /\ pc = "handle"
  /\ "pipefd" \in batch
  /\ batch' = batch \ {"pipefd"}
  /\ \E sig \in pipe :
       /\ timeout' = (timeout \/ sig = "SIGALRM")
       /\ stop_server' = (stop_server \/ sig = "SIGTERM")
       /\ pipe' = pipe \ {sig}
  /\ UNCHANGED <<connVars, backlog, alarm, ready, pc>>

\* Mutant: all are read, and only the first is looked at.
SignalEventFirst ==
  /\ pc = "handle"
  /\ "pipefd" \in batch
  /\ batch' = batch \ {"pipefd"}
  /\ \E sig \in pipe :
       /\ timeout' = (timeout \/ sig = "SIGALRM")
       /\ stop_server' = (stop_server \/ sig = "SIGTERM")
  /\ pipe' = {}
  /\ UNCHANGED <<connVars, backlog, alarm, ready, pc>>

\* recv empties the socket pair, and every signal in it is looked at.
SignalEvent ==
  /\ pc = "handle"
  /\ "pipefd" \in batch
  /\ batch' = batch \ {"pipefd"}
  /\ timeout' = (timeout \/ "SIGALRM" \in pipe)
  /\ stop_server' = (stop_server \/ "SIGTERM" \in pipe)
  /\ pipe' = {}
  /\ UNCHANGED <<connVars, backlog, alarm, ready, pc>>

\* One recv() that returns data.
DataEvent(fd) ==
  /\ pc = "handle"
  /\ fd \in batch \cap Fds
  /\ unread[fd] > 0
  /\ batch' = batch \ {fd}
  /\ unread' = [unread EXCEPT ![fd] = @ - 1]
  /\ quiet' = [quiet EXCEPT ![fd] = 0]
  /\ UNCHANGED <<open, peer, backlog, sigVars, ready, pc>>

\* cb_func on each connection of S: it leaves the epoll set and is closed.
Close(S) ==
  /\ open' = open \ S
  /\ ready' = ready \ S
  /\ unread' = [fd \in Fds |-> IF fd \in S THEN 0 ELSE unread[fd]]
  /\ peer' = [fd \in Fds |-> IF fd \in S THEN "up" ELSE peer[fd]]
  /\ quiet' = [fd \in Fds |-> IF fd \in S THEN 0 ELSE quiet[fd]]

\* recv() returns 0, or an error other than EAGAIN.
HangupEvent(fd) ==
  /\ pc = "handle"
  /\ fd \in batch \cap Fds
  /\ unread[fd] = 0
  /\ Close({fd})
  /\ batch' = batch \ {fd}
  /\ UNCHANGED <<backlog, sigVars, pc>>

NextIteration == pc' = IF stop_server THEN "exit" ELSE "wait"

\* The end of an iteration without a timeout.
NoTimeout ==
  /\ pc = "handle"
  /\ batch = {}
  /\ ~timeout
  /\ NextIteration
  /\ UNCHANGED <<connVars, backlog, sigVars, ready, batch>>

\* Mutant: SIGALRM is not asked for again.
TimerHandlerNoAlarm(S) ==
  /\ pc = "handle"
  /\ batch = {}
  /\ timeout
  /\ Close(S)
  /\ timeout' = FALSE
  /\ NextIteration
  /\ UNCHANGED <<backlog, pipe, alarm, stop_server, batch>>

\* Mutant: the tick is made as soon as SIGALRM is seen, within the batch.
TimerHandlerInBatch(S) ==
  /\ pc = "handle"
  /\ timeout
  /\ Close(S)
  /\ alarm' = TIMESLOT
  /\ timeout' = FALSE
  /\ UNCHANGED <<backlog, pipe, stop_server, batch, pc>>

\* The end of an iteration with one: timer_handler, whose tick closes S.
TimerHandler(S) ==
  /\ pc = "handle"
  /\ batch = {}
  /\ timeout
  /\ Close(S)
  /\ alarm' = TIMESLOT
  /\ timeout' = FALSE
  /\ NextIteration
  /\ UNCHANGED <<backlog, pipe, stop_server, batch>>

-------------------------------------------------------------------------------
Events == Fds \cup {"listenfd", "pipefd"}

EventTypeOK ==
  /\ open \in SUBSET Fds
  /\ unread \in [Fds -> Nat]
  /\ peer \in [Fds -> {"up", "fin", "rst"}]
  /\ backlog \in Int
  /\ ready \in SUBSET Events
  /\ batch \in SUBSET Events
  /\ pipe \in SUBSET {"SIGALRM", "SIGTERM"}
  /\ alarm \in {Off} \cup 0 .. TIMESLOT
  /\ timeout \in BOOLEAN
  /\ stop_server \in BOOLEAN
  /\ pc \in {"wait", "handle", "exit"}
  /\ pc = "wait" => batch = {}
  /\ quiet \in [Fds -> 0 .. Limit]

\* The clock of the reaper neither stops nor doubles: at any time SIGALRM is
\* either to come, or in the socket pair, or seen by the loop, and only one of
\* them.  (alarm() is called once before the loop and once per tick.)
AlarmChain ==
  /\ (alarm # Off) \/ ("SIGALRM" \in pipe) \/ timeout
  /\ ~(alarm # Off /\ "SIGALRM" \in pipe)
  /\ ~(alarm # Off /\ timeout)
  /\ ~("SIGALRM" \in pipe /\ timeout)

\* Each event of the batch is still good when its turn comes: it is not for a
\* connection closed earlier in the batch, or for a new one on the same
\* descriptor, and accept and recv find what was announced.  They would block
\* the whole server otherwise: setnonblocking calls fcntl without F_SETFL, so
\* the sockets are blocking ones.
EventsAreGood == \A x \in batch : (x \in Fds => x \in open) /\ Readable(x)

\* An edge of the socket pair is never lost: whatever is in it will be read.
\* (The edges of a connection are: one recv is made however much was sent.)
SignalsAreSeen == pipe # {} => "pipefd" \in ready \cup batch

\* A connection is closed because its peer left, or after Limit seconds without
\* a recv.
Reaper == INSTANCE IdleReaper WITH left <- {fd \in open : peer[fd] # "up"}

ReaperSpec == Reaper!Spec

\* SIGTERM stops the server, whatever else is in the socket pair.
TermStops == ("SIGTERM" \in pipe) ~> (pc = "exit")
===============================================================================
