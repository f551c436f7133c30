-------------------------------- MODULE ShmRelay --------------------------------
(***************************************************************************)
(* How the processes of src/IPC/SHM/serv.c pass on what a client writes:   *)
(* its child receives it into the child's segment of the shared memory and *)
(* sends the segment's number to the server; the server sends the number   *)
(* to all other children; each of these sends the segment to its client.   *)
(* Sockets and pipes are edge-triggered, and read once for each event.     *)
(*                                                                         *)
(* The children come and go as in ShmTables (ShmServer shows that they     *)
(* do); signals are in ShmServer.  A recv from a client takes all that it  *)
(* has written.  Sends to the pipe of a child that has ended fail, and     *)
(* sends to a client find room.  A client that writes and leaves before    *)
(* its child calls recv gives no event of its own for having left.         *)
(***************************************************************************)
EXTENDS ShmTables, Sequences, FiniteSets

CONSTANTS MaxNumbers   \* bound: numbers on their way through the pipes when a client writes

VARIABLES childPc,    \* "none", "run", "cleared" between memset and recv, "stop" when
                      \* stop_child is set, "zombie" until the server waits for it
          text,       \* of a segment: the client whose latest text it holds, or NULL
          unread,     \* the kernel holds text of the client
          fin,        \* the client has left
          up, down,   \* pipes: how often a child's number is on its way to the server;
                      \* the numbers on their way to a child
          ready,      \* of a child: epoll's ready list
          events,     \* of a child: events still to be handled
          serverReady, serverBatch,   \* of the server: the children whose pipes these are
          stale,      \* the server has an event of a pipe that it has closed since
          due,        \* history: <<r, a>> when a's latest text was not sent to client r
          twins       \* history: children whose segment was another's at the same time

textVars == <<text, up, down, due>>
epollVars == <<childPc, ready, events>>
clientVars == <<unread, fin>>
serverVars == <<serverReady, serverBatch, stale>>
tables == <<users, user_count, idx, twins>>
relayVars == <<tables, textVars, epollVars, clientVars, serverVars>>

RelayInit ==
  /\ TablesInit
  /\ childPc = [p \in Pids |-> "none"]
  /\ text = [s \in Slots |-> NULL]
  /\ unread = [p \in Pids |-> FALSE]
  /\ fin = [p \in Pids |-> FALSE]
  /\ up = [p \in Pids |-> 0]
  /\ down = [p \in Pids |-> <<>>]
  /\ ready = [p \in Pids |-> {}]
  /\ events = [p \in Pids |-> {}]
  /\ serverReady = {} /\ serverBatch = {}
  /\ stale = FALSE
  /\ due = {}
  /\ twins = {}

Alive(p) == childPc[p] \in {"run", "cleared", "stop"}

-------------------------------------------------------------------------------
(* Clients.                                                                *)

Edge(p, what) == ready' = [ready EXCEPT ![p] = @ \cup {what}]

Write(p) ==
  /\ Alive(p) /\ ~fin[p]
  /\ \A r \in Pids : up[p] + Len(down[r]) < MaxNumbers
  /\ unread' = [unread EXCEPT ![p] = TRUE]
  /\ Edge(p, "conn")
  /\ UNCHANGED <<tables, textVars, childPc, events, fin, serverVars>>

Leave(p) ==
  /\ Alive(p) /\ ~fin[p]
  /\ fin' = [fin EXCEPT ![p] = TRUE]
  /\ Edge(p, "conn")
  /\ UNCHANGED <<tables, textVars, childPc, events, unread, serverVars>>

-------------------------------------------------------------------------------
(* A child.                                                                *)

ChildWait(p) ==
  /\ childPc[p] = "run" /\ events[p] = {}
  /\ events' = [events EXCEPT ![p] = {what \in ready[p] :
                 IF what = "conn" THEN unread[p] \/ fin[p] ELSE down[p] # <<>>}]
  /\ ready' = [ready EXCEPT ![p] = {}]
  /\ events' # events
  /\ UNCHANGED <<tables, textVars, childPc, clientVars, serverVars>>

Handle(p, what) ==
  /\ what \in events[p]
  /\ events' = [events EXCEPT ![p] = @ \ {what}]

\* memset, before recv.
Clear(p) ==
  /\ childPc[p] = "run"
  /\ Handle(p, "conn")
  /\ childPc' = [childPc EXCEPT ![p] = "cleared"]
  /\ text' = [text EXCEPT ![idx[p]] = NULL]
  /\ UNCHANGED <<tables, up, down, due, ready, clientVars, serverVars>>

\* recv has the text, and the number goes to the server.
Received(p) ==
  /\ childPc[p] = "cleared" /\ unread[p]
  /\ childPc' = [childPc EXCEPT ![p] = "run"]
  /\ unread' = [unread EXCEPT ![p] = FALSE]
  /\ text' = [text EXCEPT ![idx[p]] = p]
  /\ due' = due \cup ((Users \ {p}) \X {p})
  /\ up' = [up EXCEPT ![p] = @ + 1]
  /\ serverReady' = serverReady \cup {p}
  /\ UNCHANGED <<tables, down, ready, events, fin, serverBatch, stale>>

\* recv returns 0, or fails after a reset.
Ended(p) ==
  /\ childPc[p] = "cleared" /\ ~unread[p]
  /\ childPc' = [childPc EXCEPT ![p] = "stop"]
  /\ UNCHANGED <<tables, textVars, ready, events, clientVars, serverVars>>

\* What is sent to a client that has left may be answered with a reset.
SendTo(p) == ready' = ready \/ (fin[p] /\ Edge(p, "conn"))

\* A number comes from the server, and its segment goes to the client.
Deliver(p) ==
  LET client == Head(down[p])
  IN /\ childPc[p] \in {"run", "stop"}
     /\ Handle(p, "pipe")
     /\ down' = [down EXCEPT ![p] = Tail(@)]
     /\ due' = due \ {<<p, text[client]>>}
     /\ SendTo(p)
     /\ UNCHANGED <<tables, text, up, childPc, clientVars, serverVars>>

\* exit, which closes the child's end of the pipe.
Exit(p) ==
  /\ childPc[p] = "stop" /\ events[p] = {}
  /\ childPc' = [childPc EXCEPT ![p] = "zombie"]
  /\ serverReady' = serverReady \cup {p}
  /\ UNCHANGED <<tables, textVars, ready, events, clientVars, serverBatch, stale>>

-------------------------------------------------------------------------------
(* The server.                                                             *)

ServerWait ==
  /\ serverBatch = {}
  /\ serverBatch' = {p \in serverReady : up[p] > 0 \/ childPc[p] = "zombie"}
  /\ serverBatch' # {}
  /\ serverReady' = {}
  /\ stale' = FALSE
  /\ UNCHANGED <<tables, textVars, epollVars, clientVars>>

\* A new client: its pipe can have the number of one whose event is still in
\* events[].
Accept(p) ==
  /\ childPc[p] = "none"
  /\ TableFork(p)
  /\ childPc' = [childPc EXCEPT ![p] = "run"]
  /\ LET others == {q \in Users : idx[q] = user_count}
     IN twins' = twins \cup (IF others = {} THEN {} ELSE others \cup {p})
  /\ serverBatch' \in {serverBatch} \cup (IF stale THEN {serverBatch \cup {p}} ELSE {})
  /\ UNCHANGED <<textVars, ready, events, clientVars, serverReady, stale>>

\* waitpid returns p, and its pipe is closed.  What its segment holds is no
\* longer anybody's.
Wait(p) ==
  /\ childPc[p] = "zombie"
  /\ TableReap(p)
  /\ childPc' = [childPc EXCEPT ![p] = "none"]
  /\ text' = [s \in Slots |-> IF text[s] = p THEN NULL ELSE text[s]]
  /\ unread' = [unread EXCEPT ![p] = FALSE]
  /\ fin' = [fin EXCEPT ![p] = FALSE]
  /\ up' = [up EXCEPT ![p] = 0]
  /\ down' = [down EXCEPT ![p] = <<>>]
  /\ ready' = [ready EXCEPT ![p] = {}]
  /\ serverReady' = serverReady \ {p}
  /\ serverBatch' = serverBatch \ {p}
  /\ stale' = (stale \/ p \in serverBatch)
  /\ due' = {d \in due : p # d[1] /\ p # d[2]}
  /\ twins' = twins \ {p}
  /\ UNCHANGED events

\* Mutant: the author's own child is told as well.
OthersAndSelf(p) == {r \in Users : Alive(r)}

\* Mutant: the loop over users[] ends one too early.
OthersButLast(p) == {r \in {users[j] : j \in 0 .. user_count - 2} : r # p /\ Alive(r)}

\* Where a number of child p goes to: the other children that have not ended.
Others(p) == {r \in Users : r # p /\ Alive(r)}

\* One number is received, and passed on.
Relay(p) ==
  /\ p \in serverBatch
  /\ serverBatch' = serverBatch \ {p}
  /\ up[p] > 0
  /\ up' = [up EXCEPT ![p] = @ - 1]
  /\ down' = [r \in Pids |-> IF r \in Others(p) THEN Append(down[r], idx[p]) ELSE down[r]]
  /\ ready' = [r \in Pids |-> IF r \in Others(p) THEN ready[r] \cup {"pipe"} ELSE ready[r]]
  /\ UNCHANGED <<tables, text, due, childPc, events, clientVars, serverReady, stale>>

\* recv returns 0, as the child has ended, or finds nothing.
NoNumber(p) ==
  /\ p \in serverBatch
  /\ serverBatch' = serverBatch \ {p}
  /\ up[p] = 0
  /\ UNCHANGED <<tables, textVars, epollVars, clientVars, serverReady, stale>>

-------------------------------------------------------------------------------
Child(p) ==
  ChildWait(p) \/ Clear(p) \/ Received(p) \/ Ended(p) \/ Deliver(p) \/ Exit(p)

RelayServer == ServerWait \/ \E p \in Pids : Accept(p) \/ Wait(p) \/ Relay(p) \/ NoNumber(p)

RelayNext == RelayServer \/ \E p \in Pids : Write(p) \/ Leave(p) \/ Child(p)

RelaySpec == RelayInit /\ [][RelayNext]_relayVars

-------------------------------------------------------------------------------
RelayTypeOK ==
  /\ childPc \in [Pids -> {"none", "run", "cleared", "stop", "zombie"}]
  /\ text \in [Slots -> Pids \cup {NULL}]
  /\ unread \in [Pids -> BOOLEAN] /\ fin \in [Pids -> BOOLEAN]
  /\ up \in [Pids -> Nat]
  /\ down \in [Pids -> Seq(Slots)]
  /\ ready \in [Pids -> SUBSET {"conn", "pipe"}]
  /\ events \in [Pids -> SUBSET {"conn", "pipe"}]
  /\ serverReady \in SUBSET Pids /\ serverBatch \in SUBSET Pids
  /\ stale \in BOOLEAN
  /\ due \in SUBSET (Pids \X Pids)
  /\ twins \in SUBSET Pids

On(s, seq) == \E i \in DOMAIN seq : seq[i] = s

\* While a segment holds a client's latest text, its number is on its way to every
\* other client that has not got the text: in that client's pipe, or in the author's.
\* (It may wait there behind others, and the text be overwritten meanwhile.)
AnnouncedWhileStored ==
  /\ RelayTypeOK
  /\ \A d \in due : LET r == d[1]
                        a == d[2]
                    IN Alive(r) /\ text[idx[a]] = a => up[a] > 0 \/ On(idx[a], down[r])

\* A child whose segment was never another's is not told of its own text, and only
\* itself writes to its segment.
SegmentsAreOwn ==
  \A p \in Users \ twins :
    /\ ~On(idx[p], down[p])
    /\ text[idx[p]] \in {p, NULL}

\* Every event of a child's pipe finds one number, and is answered with one segment;
\* numbers that came while an event was pending stay behind until the child ends.
DownEdges(p) == Cardinality({"pipe"} \cap ready[p]) + Cardinality({"pipe"} \cap events[p])
Down(p) == INSTANCE EdgeOnce WITH queue <- Len(down[p]), edges <- DownEdges(p)
OneNumberPerEvent == [][\A p \in Pids : [Down(p)!Next]_<<Len(down[p]), DownEdges(p)>>]_relayVars
===============================================================================
