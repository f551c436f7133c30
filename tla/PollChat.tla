------------------------------- MODULE PollChat -------------------------------
(***************************************************************************)
(* src/IO_multi_advanced_app/chatroom/server.c: one thread that polls the  *)
(* listening socket and up to USER_LIMIT clients, and passes every text a  *)
(* client sends on to all others.  fds[] lists what is polled, users[],    *)
(* indexed by descriptor, holds the text a client sent last and a pointer  *)
(* to the text it is still to be sent: a pointer into the users[] entry of *)
(* the client that sent it.                                                *)
(*                                                                         *)
(* "events |= ~POLLIN" and "events |= ~POLLOUT" take nothing away from     *)
(* events: POLLIN and POLLRDHUP are always asked for, and POLLOUT from the *)
(* first text on.  A text is known by the descriptor of its author; the 24 *)
(* bytes of the next users[] entry that send adds to it are left out.      *)
(* Clients read what they are sent, so a connection that is not broken can *)
(* be written to.                                                          *)
(***************************************************************************)
EXTENDS Integers, Sequences, SequencesExt, FiniteSetsExt

CONSTANTS USER_LIMIT, NULL

ASSUME LimitAssumption == USER_LIMIT \in Nat \ {0}

\* Descriptors of clients, of which accept takes the lowest one that is free:
\* there may be one to refuse on top of USER_LIMIT others.
Fds == 1 .. USER_LIMIT + 1
NoText == 0

ASSUME NULLAssumption == NULL \notin Fds

VARIABLES conn,      \* of a descriptor: "closed", "up", "fin" when the client closed,
                     \* "rst" when it reset and the error was not reported yet
          unread,    \* descriptors with a text to receive
          newcomer,  \* fds[0].revents: POLLIN is reported and not yet scanned
          fds,       \* fds[1 .. USER_COUNT]: fd, out (POLLOUT is asked for), and
                     \* revents: what is reported and not yet scanned
          i,         \* the scan of fds[] is at i; over, if past USER_COUNT
          buf, write_buf,  \* of users[fd]
          gone,      \* history: descriptors closed, and nothing received there since
          failed     \* history: a send has failed

netVars == <<conn, unread>>
userVars == <<buf, write_buf, gone>>
vars == <<netVars, newcomer, fds, i, userVars, failed>>

USER_COUNT == Len(fds)

Init ==
  /\ conn = [fd \in Fds |-> "closed"]
  /\ unread = {}
  /\ newcomer = FALSE
  /\ fds = <<>>
  /\ i = 1
  /\ buf = [fd \in Fds |-> NoText]
  /\ write_buf = [fd \in Fds |-> NULL]
  /\ gone = {}
  /\ failed = FALSE

-------------------------------------------------------------------------------
(* Clients. *)

Send(fd) ==
  /\ conn[fd] = "up"
  /\ unread' = unread \cup {fd}
  /\ UNCHANGED <<conn, newcomer, fds, i, userVars, failed>>

Leave(fd) ==
  /\ conn[fd] = "up"
  /\ \E how \in {"fin", "rst"} : conn' = [conn EXCEPT ![fd] = how]
  /\ UNCHANGED <<unread, newcomer, fds, i, userVars, failed>>

-------------------------------------------------------------------------------
(* poll, and where the scan goes. *)

\* What poll reports of an entry that is scanned: the scan looks for POLLERR,
\* POLLRDHUP, POLLIN and POLLOUT in this order, and no further than one of them.
\* (It does not look for POLLNVAL, which is reported where nothing is open.)
Revents(entry) ==
  LET state == conn[entry.fd]
  IN CASE state = "closed" -> "none"
       [] state = "rst" -> "POLLERR"
       [] state = "fin" -> "POLLRDHUP"
       [] state = "up" /\ entry.fd \in unread -> "POLLIN"
       [] state = "up" /\ entry.fd \notin unread -> IF entry.out THEN "POLLOUT" ELSE "none"

\* The scan goes on at the next entry from k on with something reported.
ScanFrom(k) ==
  i' = Min({m \in k .. Len(fds') + 1 : m \in DOMAIN fds' => fds'[m].revents # "none"})

Poll ==
  /\ i > USER_COUNT
  /\ newcomer' \in BOOLEAN
  /\ newcomer' \/ \E k \in DOMAIN fds : Revents(fds[k]) # "none"
  /\ fds' = [k \in DOMAIN fds |-> [fds[k] EXCEPT !.revents = Revents(fds[k])]]
  /\ IF newcomer' THEN i' = 0 ELSE ScanFrom(1)
  /\ UNCHANGED <<netVars, userVars, failed>>

Scanned(event) == i \in DOMAIN fds /\ fds[i].revents = event

\* entries, with fds[i] scanned.
Done(entries) == [entries EXCEPT ![i].revents = "none"]

NextEntry == ScanFrom(i + 1)

-------------------------------------------------------------------------------
(* The branches of the scan. *)

Accept ==
  /\ newcomer
  /\ USER_COUNT < USER_LIMIT
  /\ LET fd == Min({f \in Fds : conn[f] = "closed"})
     IN /\ conn' = [conn EXCEPT ![fd] = "up"]
        /\ fds' = Append(fds, [fd |-> fd, out |-> FALSE, revents |-> "none"])
  /\ newcomer' = FALSE
  /\ NextEntry
  /\ UNCHANGED <<unread, userVars, failed>>

\* "too many users": accepted, and closed at once.
Refuse ==
  /\ newcomer
  /\ USER_COUNT >= USER_LIMIT
  /\ newcomer' = FALSE
  /\ fds' = fds
  /\ NextEntry
  /\ UNCHANGED <<netVars, userVars, failed>>

\* getsockopt takes the error, and leaves a connection that is closed.
Error ==
  /\ Scanned("POLLERR")
  /\ conn' = [conn EXCEPT ![fds[i].fd] = IF @ = "rst" THEN "fin" ELSE @]
  /\ fds' = Done(fds)
  /\ NextEntry
  /\ UNCHANGED <<unread, newcomer, userVars, failed>>

\* close(fd), where nothing may be open any more.
Close(fd) ==
  /\ conn' = [conn EXCEPT ![fd] = "closed"]
  /\ unread' = unread \ {fd}
  /\ gone' = gone \cup {fd}

\* fds[i] gives way to the last entry, which is scanned next; its users[] entry,
\* which stays where it is, is copied over that of the descriptor.
RemoveEntry(texts) ==
  LET fd == fds[i].fd
      last == fds[USER_COUNT]
  IN /\ Close(fd)
     /\ buf' = [texts EXCEPT ![fd] = texts[last.fd]]
     /\ write_buf' = [write_buf EXCEPT ![fd] = write_buf[last.fd]]
     /\ fds' = Front([fds EXCEPT ![i] = last])
     /\ ScanFrom(i)
     /\ UNCHANGED <<newcomer, failed>>

\* Mutant: the entry that takes the place of fds[i] is not scanned.
LeaverSkipsOne ==
  LET fd == fds[i].fd
      last == fds[USER_COUNT]
  IN /\ Scanned("POLLRDHUP")
     /\ Close(fd)
     /\ buf' = [buf EXCEPT ![fd] = buf[last.fd]]
     /\ write_buf' = [write_buf EXCEPT ![fd] = write_buf[last.fd]]
     /\ fds' = Front([fds EXCEPT ![i] = last])
     /\ ScanFrom(Min({i + 1, USER_COUNT}))
     /\ UNCHANGED <<newcomer, failed>>

\* Mutant: the last entry is dropped instead of that of the leaver.
LeaverDropsLast ==
  LET fd == fds[i].fd
      last == fds[USER_COUNT]
  IN /\ Scanned("POLLRDHUP")
     /\ Close(fd)
     /\ buf' = [buf EXCEPT ![fd] = buf[last.fd]]
     /\ write_buf' = [write_buf EXCEPT ![fd] = write_buf[last.fd]]
     /\ fds' = Front(fds)
     /\ ScanFrom(i)
     /\ UNCHANGED <<newcomer, failed>>

Leaver == Scanned("POLLRDHUP") /\ RemoveEntry(buf)

\* Mutant: the sender is not left out.
ReceiveToAll ==
  LET fd == fds[i].fd
  IN /\ Scanned("POLLIN")
     /\ fd \in unread
     /\ unread' = unread \ {fd}
     /\ buf' = [buf EXCEPT ![fd] = fd]
     /\ gone' = gone \ {fd}
     /\ fds' = Done([k \in DOMAIN fds |-> [fds[k] EXCEPT !.out = TRUE]])
     /\ write_buf' = [f \in Fds |-> IF \E k \in DOMAIN fds : fds[k].fd = f THEN fd
                                    ELSE write_buf[f]]
     /\ NextEntry
     /\ UNCHANGED <<conn, newcomer, failed>>

\* A text is received, and is to be sent to all other entries.
Receive ==
  LET fd == fds[i].fd
      others == {k \in DOMAIN fds : fds[k].fd # fd}
  IN /\ Scanned("POLLIN")
     /\ fd \in unread
     /\ unread' = unread \ {fd}
     /\ buf' = [buf EXCEPT ![fd] = fd]
     /\ gone' = gone \ {fd}
     /\ fds' = Done([k \in DOMAIN fds |->
                      IF k \in others THEN [fds[k] EXCEPT !.out = TRUE] ELSE fds[k]])
     /\ write_buf' = [f \in Fds |-> IF \E k \in others : fds[k].fd = f THEN fd ELSE write_buf[f]]
     /\ NextEntry
     /\ UNCHANGED <<conn, newcomer, failed>>

\* recv finds nothing (EAGAIN), or the end: only where a descriptor has two
\* entries, and the other one has read the text.
ReceiveNothing ==
  LET fd == fds[i].fd
  IN /\ Scanned("POLLIN")
     /\ fd \notin unread /\ conn[fd] \in {"up", "fin"}
     /\ buf' = [buf EXCEPT ![fd] = NoText]
     /\ fds' = Done(fds)
     /\ NextEntry
     /\ UNCHANGED <<netVars, newcomer, write_buf, gone, failed>>

\* recv fails otherwise, for the same reason.  buf has been cleared.
ReceiveFails ==
  LET fd == fds[i].fd
  IN /\ Scanned("POLLIN")
     /\ fd \notin unread /\ conn[fd] \in {"rst", "closed"}
     /\ RemoveEntry([buf EXCEPT ![fd] = NoText])

\* There is a text to be sent.
Outgoing == Scanned("POLLOUT") /\ write_buf[fds[i].fd] # NULL

\* Mutant: the text that was sent is not forgotten.
SendTextAgain ==
  /\ Outgoing
  /\ conn[fds[i].fd] \in {"up", "fin"}
  /\ fds' = Done(fds)
  /\ NextEntry
  /\ UNCHANGED <<netVars, newcomer, userVars, failed>>

SendText ==
  /\ Outgoing
  /\ conn[fds[i].fd] \in {"up", "fin"}
  /\ write_buf' = [write_buf EXCEPT ![fds[i].fd] = NULL]
  /\ fds' = Done(fds)
  /\ NextEntry
  /\ UNCHANGED <<netVars, newcomer, buf, gone, failed>>

\* The descriptor is closed, and its entry stays in fds[].
SendFails ==
  /\ Outgoing
  /\ conn[fds[i].fd] \in {"rst", "closed"}
  /\ Close(fds[i].fd)
  /\ failed' = TRUE
  /\ fds' = Done(fds)
  /\ NextEntry
  /\ UNCHANGED <<newcomer, buf, write_buf>>

\* Everything was sent, but POLLOUT is still asked for.
SendNothing ==
  /\ Scanned("POLLOUT")
  /\ write_buf[fds[i].fd] = NULL
  /\ fds' = Done(fds)
  /\ NextEntry
  /\ UNCHANGED <<netVars, newcomer, userVars, failed>>

Loop ==
  \/ Poll
  \/ Accept
  \/ Refuse
  \/ Error
  \/ Leaver
  \/ Receive
  \/ ReceiveNothing
  \/ ReceiveFails
  \/ SendText
  \/ SendFails
  \/ SendNothing

Next == Loop \/ \E fd \in Fds : Send(fd) \/ Leave(fd)

Spec == Init /\ [][Next]_vars

\* The server's thread runs on; clients do what they like.
FairSpec == Spec /\ WF_vars(Loop)

-------------------------------------------------------------------------------
\* No descriptor, entry or pointer is out of range, and fds[] does not overflow.
TypeOK ==
  /\ conn \in [Fds -> {"closed", "up", "fin", "rst"}]
  /\ unread \subseteq Fds
  /\ newcomer \in BOOLEAN
  /\ fds \in Seq([fd : Fds, out : BOOLEAN,
                  revents : {"POLLIN", "POLLRDHUP", "POLLERR", "POLLOUT", "none"}])
  /\ USER_COUNT <= USER_LIMIT
  /\ i \in 0 .. USER_COUNT + 1
  /\ buf \in [Fds -> Fds \cup {NoText}]
  /\ write_buf \in [Fds -> Fds \cup {NULL}]
  /\ gone \subseteq Fds
  /\ failed \in BOOLEAN

Open == {fd \in Fds : conn[fd] # "closed"}

\* Through all removals, fds[] polls every open connection; and exactly these,
\* each once, until a send fails.
EntriesMatch ==
  /\ TypeOK
  /\ \A fd \in Open : \E k \in DOMAIN fds : fds[k].fd = fd
  /\ ~failed => /\ \A k \in DOMAIN fds : fds[k].fd \in Open
                /\ \A k, m \in DOMAIN fds : fds[k].fd = fds[m].fd => k = m

\* A scan handles all that poll has reported, of the entries that change their
\* place in it too.
ReportsAreHandled ==
  i > USER_COUNT => \A k \in DOMAIN fds : fds[k].revents = "none"

\* What an entry is still to be sent is a text of the client that is now behind
\* another descriptor, unless the one that sent it has left (then it is
\* whatever RemoveEntry copied), or a send has failed.
TextsAreOthers ==
  ~failed => \A k \in DOMAIN fds :
    LET from == write_buf[fds[k].fd]
    IN fds[k].out /\ from \notin gone \cup {NULL} =>
         from # fds[k].fd /\ from \in Open /\ buf[from] = from

\* A text for a client is sent, unless the client leaves, or goes on sending
\* texts itself, which are read first.
PendingIsSent ==
  \A fd \in Fds :
    LET Pending == /\ conn[fd] # "closed" /\ write_buf[fd] # NULL
                   /\ \E k \in DOMAIN fds : fds[k].fd = fd /\ fds[k].out
    IN Pending ~> ~Pending \/ fd \in unread

===============================================================================
