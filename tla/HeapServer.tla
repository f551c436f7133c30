------------------------------ MODULE HeapServer ------------------------------
(***************************************************************************)
(* src/TIMER/close_unactive_sock_use_heap.c: the event loop with timers in *)
(* a time_heap.  The heap is used through what TimeHeapProofs proves of it *)
(* (HeapImplementsQueue): a tick runs the armed timers that are due and    *)
(* removes every timer that is due.  Expiry times are kept relative to the *)
(* present: a timer has "remaining" seconds to go, and stays at 0.         *)
(***************************************************************************)
EXTENDS ServerTimers, Functions

VARIABLES heap,       \* timers in the heap
          remaining,  \* seconds until a timer's expire
          cb          \* timer->cb_func is not NULL

timerVars == <<heap, remaining, cb, user, timerOf>>
vars == <<eventVars, timerVars>>

Init ==
  /\ EventInit
  /\ heap = {}
  /\ remaining = [t \in Addrs |-> 0]
  /\ cb = [t \in Addrs |-> FALSE]
  /\ NoTimers

\* Bound: there is an address for the timer of each connection to be accepted
\* and of each recv to be made.
Room == Cardinality(Addrs \ heap) > FoldFunction(+, backlog, unread)

-------------------------------------------------------------------------------
\* A timer for fd at a free address t, which users[fd].timer then points to.
NewTimer(t, fd, callback, userData) ==
  /\ t \in Addrs \ heap
  /\ heap' = heap \cup {t}
  /\ remaining' = [remaining EXCEPT ![t] = Limit]
  /\ user' = [user EXCEPT ![t] = userData]
  /\ timerOf' = [timerOf EXCEPT ![fd] = t]

Accept(fd, t) ==
  /\ AcceptEvent(fd)
  /\ NewTimer(t, fd, TRUE, fd)
  /\ cb' = [cb EXCEPT ![t] = TRUE]

\* Mutant: the old timer keeps its callback.
DataKeepsOld(fd, t) ==
  /\ DataEvent(fd)
  /\ NewTimer(t, fd, cb[timerOf[fd]], user[timerOf[fd]])
  /\ cb' = [cb EXCEPT ![t] = cb[timerOf[fd]]]

\* Data: the timer is replaced by a new one with the same callback and user, and
\* loses its callback.
Data(fd, t) ==
  /\ DataEvent(fd)
  /\ NewTimer(t, fd, cb[timerOf[fd]], user[timerOf[fd]])
  /\ cb' = [cb EXCEPT ![t] = cb[timerOf[fd]], ![timerOf[fd]] = FALSE]

\* Mutant: the timer of a closed connection is forgotten.
HangupKeepsTimer(fd) ==
  /\ HangupEvent(fd)
  /\ UNCHANGED timerVars

Hangup(fd) ==
  /\ HangupEvent(fd)
  /\ cb' = [cb EXCEPT ![timerOf[fd]] = FALSE]
  /\ UNCHANGED <<heap, remaining, user, timerOf>>

\* Mutant: the tick stops at a timer without a callback.
DueUnlessStale == {t \in heap : remaining[t] = 0 /\ \A u \in heap : remaining[u] = 0 => cb[u]}

Due == {t \in heap : remaining[t] = 0}

Tick ==
  /\ TimerHandler({user[t] : t \in {u \in Due : cb[u]}})
  /\ heap' = heap \ Due
  /\ cb' = [t \in Addrs |-> cb[t] /\ t \notin Due]
  /\ user' = [t \in Addrs |-> IF t \in Due THEN NULL ELSE user[t]]
  /\ UNCHANGED <<remaining, timerOf>>

Elapse ==
  /\ Second
  /\ remaining' = [t \in Addrs |-> IF remaining[t] > 0 THEN remaining[t] - 1 ELSE 0]
  /\ UNCHANGED <<heap, cb, user, timerOf>>

Environment ==
  \/ Room /\ Connect
  \/ Room /\ \E fd \in Fds : Send(fd)
  \/ \E fd \in Fds : PeerLeaves(fd)
  \/ Terminate

Loop ==
  \/ EpollWait /\ UNCHANGED timerVars
  \/ \E fd \in Fds, t \in Addrs : Accept(fd, t)
  \/ SignalEvent /\ UNCHANGED timerVars
  \/ \E fd \in Fds, t \in Addrs : Data(fd, t)
  \/ \E fd \in Fds : Hangup(fd)
  \/ NoTimeout /\ UNCHANGED timerVars
  \/ Tick

Next ==
  \/ Environment /\ UNCHANGED timerVars
  \/ AlarmExpires /\ UNCHANGED timerVars
  \/ Elapse
  \/ Loop

Spec == Init /\ [][Next]_vars

-------------------------------------------------------------------------------
TypeOK ==
  /\ EventTypeOK
  /\ heap \in SUBSET Addrs
  /\ remaining \in [Addrs -> 0 .. Limit]
  /\ cb \in [Addrs -> BOOLEAN]
  /\ user \in [Addrs -> Fds \cup {NULL}]
  /\ timerOf \in [Fds -> Addrs \cup {NULL}]

\* An open connection has exactly one armed timer, which users[fd].timer points
\* to, and an armed timer belongs to an open connection.  So cb_func never runs
\* on a descriptor that is closed, or that another connection now has, and
\* del_timer never writes to a deleted timer.
OneTimerEach ==
  /\ \A fd \in open : timerOf[fd] \in heap /\ cb[timerOf[fd]] /\ user[timerOf[fd]] = fd
  /\ \A t \in heap : cb[t] => user[t] \in open /\ timerOf[user[t]] = t

\* A tick leaves no connection that was silent for Limit seconds, whatever stale
\* timers the heap holds.
TickLeavesNone == [][timeout /\ ~timeout' => \A fd \in open' : quiet'[fd] < Limit]_vars
===============================================================================
