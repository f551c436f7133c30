------------------------------ MODULE EpollSockets ------------------------------
(***************************************************************************)
(* The sockets of the servers with an epoll loop, and epoll's own state:   *)
(* what the servers of EpollServers and OneshotServer have in common.      *)
(* Received data is counted in units of what one recv can take.            *)
(***************************************************************************)
EXTENDS Integers, FiniteSets

CONSTANTS Fds,        \* descriptors a connection can have
          Backlog,    \* bound: connections waiting to be accepted
          MaxUnread,  \* bound: units of data received and not read, per connection
          NULL

ASSUME FdsAssumption == NULL \notin Fds /\ Fds \cap {"listenfd", "udpfd", "pipefd"} = {}

VARIABLES conn,      \* of a descriptor: "closed", "up", "fin" when the peer closed, "rst"
                     \* when it reset and the error was not reported yet, "broken" when a
                     \* send would now raise SIGPIPE
          unread,    \* data the kernel holds for a connection
          backlog,   \* connections waiting in the listening socket
          ready,     \* epoll's ready list: descriptors with an event to report
          batch      \* descriptors of events[] still to be handled

Open == {fd \in Fds : conn[fd] # "closed"}

NoConnections ==
  /\ conn = [fd \in Fds |-> "closed"]
  /\ unread = [fd \in Fds |-> 0]
  /\ backlog = 0
  /\ ready = {} /\ batch = {}

\* A peer connects.
Arrival ==
  /\ backlog < Backlog
  /\ backlog + Cardinality(Open) < Cardinality(Fds)
  /\ backlog' = backlog + 1
  /\ ready' = ready \cup {"listenfd"}
===============================================================================
