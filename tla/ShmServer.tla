------------------------------- MODULE ShmServer -------------------------------
(***************************************************************************)
(* The processes of src/IPC/SHM/serv.c: a server that forks a child for    *)
(* each client, up to USER_LIMIT, and keeps them in users[], whose live    *)
(* part is kept dense, with sub_process[] as the index by pid.  A child    *)
(* uses for good the segment of the shared memory with the number of the   *)
(* slot it was born in.  ShmTables has these tables; this module EXTENDS   *)
(* it, and implements it (TablesSpec).  Children end when their client     *)
(* leaves, or on the SIGTERM that the server sends them when it gets one.  *)
(*                                                                         *)
(* The messages that server and children exchange are not in this module;  *)
(* an event that only relays one is a child's Event.  SIGTERM stands for   *)
(* SIGINT too, which the server treats alike.                              *)
(***************************************************************************)
EXTENDS ShmTables, Sequences, FiniteSets

CONSTANTS MaxTerms,    \* bound: SIGTERMs sent to the server
          PipeSize,    \* bound: bytes in the signal pipe when SIGCHLD comes
          History      \* whether skipped and missed are kept, for the liveness properties

ASSUME HistoryAssumption == History \in BOOLEAN
ASSUME MaxTermsAssumption == MaxTerms \in Nat

VARIABLES sub_process,
          terminate, stop_server,
          pc,           \* of the server: "wait", "handle", "signal", "reap", "exit"
          sig, left,    \* the signal looked at, and how often still
          edge,         \* the signal pipe has an edge to report
          batch,        \* the descriptors reported
          terms,        \* SIGTERMs that can still be sent (bound)
          chldPending,  \* a SIGCHLD for the server is not delivered yet
          sigpipe,      \* bytes in the signal pipe
          child,        \* where each child is
          stop_child,   \* of each child
          skipped,      \* history: a signal was read and not looked at
          missed        \* history: a child did not notice a SIGTERM, or came after it

tableVars == <<users, user_count, sub_process>>
loopVars  == <<terminate, stop_server, pc, sig, left, batch>>
childVars == <<child, stop_child, idx>>
envVars   == <<edge, terms, chldPending, sigpipe>>
history   == <<skipped, missed>>
vars == <<tableVars, loopVars, childVars, envVars, history>>

\* "forked" until the signal pipe is closed, "starting" until SIGTERM has its
\* handler; "enter" when the loop goes round and epoll_wait is still to be called,
\* "wait" in epoll_wait, "leave" when stop_child has ended the loop, and "zombie"
\* until the server waits for it.
Places == {"none", "forked", "starting", "enter", "wait", "leave", "zombie"}
Children == {p \in Pids : child[p] # "none"}

Init ==
  /\ TablesInit
  /\ sub_process = [p \in Pids |-> -1]
  /\ terminate = FALSE /\ stop_server = FALSE
  /\ pc = "wait" /\ sig = NULL /\ left = 0
  /\ edge = FALSE /\ batch = {}
  /\ terms = MaxTerms
  /\ chldPending = FALSE
  /\ sigpipe = <<>>
  /\ child = [p \in Pids |-> "none"]
  /\ stop_child = [p \in Pids |-> FALSE]
  /\ skipped = FALSE /\ missed = FALSE

-------------------------------------------------------------------------------
(* Signals, and the signal handler of the server.                          *)

\* sig_handler, run for signal s.
SigHandler(s) ==
  /\ sigpipe' = Append(sigpipe, s)
  /\ edge' = TRUE

Terminate ==
  /\ pc # "exit"
  /\ terms > 0
  /\ terms' = terms - 1
  /\ SigHandler("SIGTERM")
  /\ UNCHANGED <<tableVars, loopVars, childVars, chldPending, history>>

\* SIGCHLD is delivered, once for all the children that ended since the last time.
ChldDelivered ==
  /\ pc # "exit"
  /\ chldPending
  /\ Len(sigpipe) < PipeSize
  /\ chldPending' = FALSE
  /\ SigHandler("SIGCHLD")
  /\ UNCHANGED <<tableVars, loopVars, childVars, terms, history>>

-------------------------------------------------------------------------------
(* A child.  (Those left when the server exits are not followed.)          *)

ChildGoes(p, from, to) ==
  /\ pc # "exit"
  /\ child[p] = from
  /\ child' = [child EXCEPT ![p] = to]
  /\ UNCHANGED <<tableVars, loopVars, stop_child, idx, envVars, history>>

\* close(sig_pipefd[1]), then addsig(SIGTERM, ...), then epoll_wait, unless
\* SIGTERM came before the loop looked at stop_child.
ChildStarts(p) ==
  \/ ChildGoes(p, "forked", "starting")
  \/ ChildGoes(p, "starting", "enter")
  \/ ChildGoes(p, "enter", "wait")
  \/ stop_child[p] /\ ChildGoes(p, "enter", "leave")

\* epoll_wait returns with data of the client or a number from the server, and
\* the loop goes round; or the client has left, or recv fails.
ChildEvent(p) == ChildGoes(p, "wait", IF stop_child[p] THEN "leave" ELSE "enter")
ChildHangup(p) == ChildGoes(p, "wait", "leave")

ChildExits(p) ==
  /\ pc # "exit"
  /\ \/ child[p] = "leave"
     \/ child[p] = "starting"     \* assert in addfd: accept had failed
  /\ child' = [child EXCEPT ![p] = "zombie"]
  /\ chldPending' = TRUE
  /\ UNCHANGED <<tableVars, loopVars, stop_child, idx, edge, terms, sigpipe, history>>

-------------------------------------------------------------------------------
(* The server.                                                             *)

\* A client may be waiting at any time.  The kernel reports the signal pipe if it
\* had an edge and still has bytes.
EpollWait ==
  /\ pc = "wait"
  /\ batch' \in {B \in SUBSET {"listenfd", "sigpipe"} :
                  "sigpipe" \in B <=> edge /\ sigpipe # <<>>}
  /\ batch' # {}
  /\ edge' = FALSE
  /\ pc' = "handle"
  /\ UNCHANGED <<tableVars, terminate, stop_server, sig, left, childVars, terms,
                 chldPending, sigpipe, history>>

AcceptEvent ==
  /\ pc = "handle"
  /\ "listenfd" \in batch
  /\ batch' = batch \ {"listenfd"}
  /\ UNCHANGED <<terminate, stop_server, pc, sig, left, envVars, skipped>>

\* "too many users", or fork fails.
Refuse ==
  /\ AcceptEvent
  /\ UNCHANGED <<tableVars, childVars, missed>>

Fork(p) ==
  /\ AcceptEvent
  /\ user_count < USER_LIMIT
  /\ child[p] = "none"
  /\ users' = [users EXCEPT ![user_count] = p]
  /\ sub_process' = [sub_process EXCEPT ![p] = user_count]
  /\ user_count' = user_count + 1
  /\ child' = [child EXCEPT ![p] = "forked"]
  /\ stop_child' = [stop_child EXCEPT ![p] = FALSE]
  /\ idx' = [idx EXCEPT ![p] = user_count]
  /\ missed' = (missed \/ (History /\ (terminate \/ stop_server)))

\* All the bytes are read, and the first one is looked at that many times.
SignalEvent ==
  /\ pc = "handle"
  /\ "sigpipe" \in batch
  /\ batch' = batch \ {"sigpipe"}
  /\ sig' = Head(sigpipe)
  /\ left' = Len(sigpipe)
  /\ sigpipe' = <<>>
  /\ pc' = "signal"
  /\ skipped' = (skipped \/ (History /\ \E i \in DOMAIN sigpipe : sigpipe[i] # Head(sigpipe)))
  /\ UNCHANGED <<tableVars, terminate, stop_server, childVars, edge, terms,
                 chldPending, missed>>

NextSignal ==
  /\ left' = left - 1
  /\ sig' = IF left = 1 THEN NULL ELSE sig
  /\ pc' = IF left = 1 THEN "handle" ELSE "signal"
  /\ UNCHANGED <<batch, terms, chldPending>>

\* SIGCHLD: the loop of waitpid begins.
CaseChld ==
  /\ pc = "signal" /\ sig = "SIGCHLD"
  /\ pc' = "reap"
  /\ UNCHANGED <<tableVars, terminate, stop_server, sig, left, batch, childVars, envVars, history>>

\* Mutant: the moved user is still found at its old slot.
ReapKeepsIndex(p) ==
  LET del_user == sub_process[p]
  IN /\ pc = "reap"
     /\ child[p] = "zombie"
     /\ child' = [child EXCEPT ![p] = "none"]
     /\ stop_child' = [stop_child EXCEPT ![p] = FALSE]
     /\ idx' = [idx EXCEPT ![p] = 0]
     /\ user_count' = user_count - 1
     /\ users' = [users EXCEPT ![del_user] = users[user_count - 1], ![user_count - 1] = NULL]
     /\ sub_process' = [sub_process EXCEPT ![p] = -1]
     /\ UNCHANGED <<loopVars, envVars, history>>

\* Mutant: waitpid is called once for each byte.
ReapOne(p) ==
  LET del_user == sub_process[p]
      last == users[user_count - 1]
  IN /\ pc = "reap"
     /\ child[p] = "zombie"
     /\ child' = [child EXCEPT ![p] = "none"]
     /\ stop_child' = [stop_child EXCEPT ![p] = FALSE]
     /\ idx' = [idx EXCEPT ![p] = 0]
     /\ user_count' = user_count - 1
     /\ users' = [users EXCEPT ![del_user] = last, ![user_count - 1] = NULL]
     /\ sub_process' = [sub_process EXCEPT ![p] = -1, ![last] = del_user]
     /\ stop_server' = (stop_server \/ (terminate /\ user_count = 1))
     /\ NextSignal
     /\ UNCHANGED <<terminate, edge, sigpipe, history>>

\* waitpid returns p: its slot is filled with the last user.
Reap(p) ==
  LET del_user == sub_process[p]
      last == users[user_count - 1]
  IN /\ pc = "reap"
     /\ child[p] = "zombie"
     /\ child' = [child EXCEPT ![p] = "none"]
     /\ stop_child' = [stop_child EXCEPT ![p] = FALSE]
     /\ idx' = [idx EXCEPT ![p] = 0]
     /\ IF del_user < 0 \/ del_user > USER_LIMIT
        THEN /\ sub_process' = [sub_process EXCEPT ![p] = -1]
             /\ UNCHANGED <<users, user_count>>
        ELSE /\ user_count' = user_count - 1
             /\ users' = [users EXCEPT ![del_user] = last, ![user_count - 1] = NULL]
             /\ sub_process' = [sub_process EXCEPT ![p] = -1, ![last] = del_user]
     /\ UNCHANGED <<loopVars, envVars, history>>

ReapedAll ==
  /\ pc = "reap"
  /\ \A p \in Pids : child[p] # "zombie"
  /\ stop_server' = (stop_server \/ (terminate /\ user_count = 0))
  /\ NextSignal
  /\ UNCHANGED <<tableVars, terminate, childVars, edge, sigpipe, history>>

\* SIGTERM, with no child to stop.
CaseTermAlone ==
  /\ pc = "signal" /\ sig = "SIGTERM"
  /\ user_count = 0
  /\ stop_server' = TRUE
  /\ NextSignal
  /\ UNCHANGED <<tableVars, terminate, childVars, edge, sigpipe, history>>

\* kill(pid, SIGTERM) for each of users[].  A child that has yet to close the
\* signal pipe has the server's handler, and sends the signal back (once: it then
\* closes the pipe before it can be told again, a bound of the model).  One that
\* has no handler of its own yet does not notice; one that is on its way to
\* epoll_wait notices at its next event.
SentBack == {p \in Users : child[p] = "forked"}
Deaf     == {p \in Users : child[p] \in {"forked", "starting", "enter"}}

\* Mutant: the first user is not told.
CaseTermFromOne ==
  /\ pc = "signal" /\ sig = "SIGTERM"
  /\ user_count > 0
  /\ child' = [p \in Pids |->
                 IF (\E i \in 1 .. user_count - 1 : users[i] = p) /\ child[p] = "wait"
                 THEN "leave" ELSE child[p]]
  /\ terminate' = TRUE
  /\ NextSignal
  /\ UNCHANGED <<tableVars, stop_server, stop_child, idx, edge, sigpipe, history>>

CaseTerm ==
  /\ pc = "signal" /\ sig = "SIGTERM"
  /\ user_count > 0
  /\ stop_child' = [p \in Pids |-> stop_child[p] \/ (p \in Users /\ child[p] = "enter")]
  /\ child' = [p \in Pids |-> CASE p \in Users /\ child[p] = "wait" -> "leave"
                               [] p \in SentBack -> "starting"
                               [] OTHER -> child[p]]
  /\ sigpipe' = sigpipe \o [i \in 1 .. Cardinality(SentBack) |-> "SIGTERM"]
  /\ edge' = (edge \/ SentBack # {})
  /\ terminate' = TRUE
  /\ missed' = (missed \/ (History /\ Deaf # {}))
  /\ NextSignal
  /\ UNCHANGED <<tableVars, stop_server, idx, skipped>>

NextIteration ==
  /\ pc = "handle"
  /\ batch = {}
  /\ pc' = IF stop_server THEN "exit" ELSE "wait"
  /\ UNCHANGED <<tableVars, terminate, stop_server, sig, left, batch, childVars, envVars, history>>

-------------------------------------------------------------------------------
Server ==
  \/ EpollWait
  \/ Refuse
  \/ \E p \in Pids : Fork(p)
  \/ SignalEvent
  \/ CaseChld
  \/ \E p \in Pids : Reap(p)
  \/ ReapedAll
  \/ CaseTermAlone
  \/ CaseTerm
  \/ NextIteration

\* What a child does by itself.
ChildRuns(p) == ChildStarts(p) \/ ChildExits(p)

Next ==
  \/ Terminate
  \/ ChldDelivered
  \/ \E p \in Pids : ChildRuns(p) \/ ChildEvent(p) \/ ChildHangup(p)
  \/ Server

Spec == Init /\ [][Next]_vars

\* The server and the children run, and signals are delivered.
FairSpec ==
  /\ Spec
  /\ WF_vars(Server)
  /\ \A p \in Pids : WF_vars(ChildRuns(p))
  /\ WF_vars(ChldDelivered)

-------------------------------------------------------------------------------
TypeOK ==
  /\ users \in [Slots -> Pids \cup {NULL}]
  /\ user_count \in 0 .. USER_LIMIT
  /\ sub_process \in [Pids -> Slots \cup {-1}]
  /\ terminate \in BOOLEAN /\ stop_server \in BOOLEAN
  /\ pc \in {"wait", "handle", "signal", "reap", "exit"}
  /\ sig \in {"SIGCHLD", "SIGTERM", NULL}
  /\ left \in Nat
  /\ pc \in {"signal", "reap"} <=> left > 0
  /\ edge \in BOOLEAN
  /\ batch \in SUBSET {"listenfd", "sigpipe"}
  /\ terms \in Int
  /\ chldPending \in BOOLEAN
  /\ sigpipe \in Seq({"SIGCHLD", "SIGTERM"})
  /\ child \in [Pids -> Places]
  /\ stop_child \in [Pids -> BOOLEAN]
  /\ idx \in [Pids -> Slots]
  /\ skipped \in BOOLEAN /\ missed \in BOOLEAN

\* The first user_count slots of users[] are the children that were not waited
\* for, each once, and sub_process finds the slot of each, however often the last
\* user was moved to the slot of one that ended.  So the server never closes the
\* pipe of a child that is alive, and never kills a pid that is not its child.
\* The segment of a child is never below its slot.
SlotsMatch ==
  /\ \A i \in 0 .. user_count - 1 : users[i] \in Children /\ sub_process[users[i]] = i
  /\ \A p \in Children : /\ sub_process[p] \in 0 .. user_count - 1
                         /\ users[sub_process[p]] = p
                         /\ sub_process[p] <= idx[p]

\* The server decides to stop only when it has waited for all of its children.
StopsAfterLast ==
  [][stop_server' /\ ~stop_server => Children' = {}]_vars

\* A child that has ended is waited for, unless the byte of its SIGCHLD was read
\* and not looked at, or the server ends.
ZombiesAreReaped ==
  \A p \in Pids : (child[p] = "zombie") ~> (child[p] # "zombie" \/ skipped \/ pc = "exit")

\* SIGTERM stops the server, unless its byte or the SIGCHLD of a child was not
\* looked at, a child did not notice its own SIGTERM, or a client was accepted
\* after the children were told.
TermStops ==
  (\E i \in DOMAIN sigpipe : sigpipe[i] = "SIGTERM") ~> (pc = "exit" \/ skipped \/ missed)
===============================================================================
