-------------------------- MODULE TimerServersProofs --------------------------
(***************************************************************************)
(* Proofs about the servers of src/TIMER that close inactive connections.  *)
(* First what holds in every server built on EventLoop, whatever its       *)
(* timers do: EventInv is inductive, and as long as a tick only closes     *)
(* connections that were silent for Limit seconds, every step is a step of *)
(* the reaper.  Then HeapServer, for any set of descriptors and of timer   *)
(* addresses, any TIMESLOT and any Limit.  Then WheelServer, for any       *)
(* descriptors, addresses, TIMESLOT and COUNT, and any size of the         *)
(* allocator's cache; at last, that with a cache for a timer of each       *)
(* descriptor no handler uses a deleted timer or another connection's.     *)
(***************************************************************************)
EXTENDS HeapServer, WheelServer, FiniteSetTheorems, TLAPS

(* The event loop. *)

\* What the steps do to the variables of the event loop, whatever the timers are,
\* apart from ticks.
CommonNext ==
  \/ Connect
  \/ Terminate
  \/ AlarmExpires
  \/ Second
  \/ EpollWait
  \/ SignalEvent
  \/ NoTimeout
  \/ \E fd \in Fds : Send(fd) \/ PeerLeaves(fd) \/ AcceptEvent(fd) \/ DataEvent(fd) \/ HangupEvent(fd)

\* A handler ends the program.
Aborts ==
  /\ pc = "handle"
  /\ pc' = "exit"
  /\ UNCHANGED <<connVars, backlog, sigVars, ready, batch>>

\* The loop, with ticks that have any connections closed.
EventNext == CommonNext \/ Aborts \/ \E S \in SUBSET Fds : TimerHandler(S)

\* The loop, with ticks that only have silent connections closed.
ReapingNext == CommonNext \/ Aborts \/ \E S \in SUBSET Reaper!Idle : TimerHandler(S)

\* A descriptor that is not in use is not in the epoll set either, and has no
\* peer that could have left.
ClosedAreClean == ready \cap Fds \subseteq open /\ \A fd \in Fds \ open : peer[fd] = "up"

-------------------------------------------------------------------------------
\* Closing the connections of S keeps the types of what it changes.
LEMMA CloseType ==
  ASSUME EventTypeOK, NEW S \in SUBSET Fds, Close(S)
  PROVE  /\ open' \in SUBSET Fds
         /\ unread' \in [Fds -> Nat]
         /\ peer' \in [Fds -> {"up", "fin", "rst"}]
         /\ ready' \in SUBSET Events
         /\ quiet' \in [Fds -> 0 .. Limit]
  BY LimitAssumption DEF EventTypeOK, Close

\* The event loop's variables stay well typed.
LEMMA EventType ==
  ASSUME EventTypeOK, [EventNext]_eventVars
  PROVE  EventTypeOK'
<1> USE DEF EventTypeOK, Events, Off, connVars, sigVars, loopVars
<1>1. CASE Connect
  BY <1>1 DEF Connect
<1>2. CASE Terminate
  BY <1>2 DEF Terminate, SigHandler
<1>3. CASE AlarmExpires
  BY <1>3 DEF AlarmExpires, SigHandler
<1>4. CASE Second
  BY <1>4, LimitAssumption, TimeslotAssumption DEF Second
<1>5. CASE EpollWait
  BY <1>5 DEF EpollWait
<1>6. CASE SignalEvent
  BY <1>6 DEF SignalEvent
<1>7. CASE NoTimeout
  BY <1>7 DEF NoTimeout, NextIteration
<1>8. ASSUME NEW fd \in Fds, Send(fd) PROVE EventTypeOK'
  BY <1>8 DEF Send
<1>9. ASSUME NEW fd \in Fds, PeerLeaves(fd) PROVE EventTypeOK'
  BY <1>9 DEF PeerLeaves
<1>10. ASSUME NEW fd \in Fds, AcceptEvent(fd) PROVE EventTypeOK'
  BY <1>10, LimitAssumption DEF AcceptEvent
<1>11. ASSUME NEW fd \in Fds, DataEvent(fd) PROVE EventTypeOK'
  BY <1>11, LimitAssumption DEF DataEvent
<1>12. ASSUME NEW fd \in Fds, HangupEvent(fd) PROVE EventTypeOK'
  BY <1>12, CloseType DEF HangupEvent
<1>13. ASSUME NEW S \in SUBSET Fds, TimerHandler(S) PROVE EventTypeOK'
  <2>1. S \in SUBSET Fds /\ Close(S)
    BY <1>13 DEF TimerHandler
  <2>2. open' \in SUBSET Fds /\ ready' \in SUBSET Events
    BY <2>1, CloseType
  <2>3. /\ unread' \in [Fds -> Nat]
        /\ peer' \in [Fds -> {"up", "fin", "rst"}]
        /\ quiet' \in [Fds -> 0 .. Limit]
    BY <2>1, CloseType
  <2>4. /\ alarm' = TIMESLOT /\ timeout' = FALSE /\ pc' \in {"wait", "exit"}
        /\ batch = {} /\ batch' = batch
        /\ UNCHANGED <<backlog, pipe, stop_server>>
    BY <1>13 DEF TimerHandler, NextIteration
  <2>5. alarm' \in {Off} \cup 0 .. TIMESLOT
    BY <2>4, TimeslotAssumption
  <2>6. timeout' \in BOOLEAN /\ stop_server' \in BOOLEAN
    BY <2>4
  <2> QED
    BY <2>2, <2>3, <2>4, <2>5, <2>6
<1>14. CASE UNCHANGED eventVars
  BY <1>14 DEF eventVars
<1>15. CASE Aborts
  BY <1>15 DEF Aborts
<1> QED
  BY <1>1, <1>2, <1>3, <1>4, <1>5, <1>6, <1>7, <1>8, <1>9, <1>10, <1>11, <1>12, <1>13, <1>14,
     <1>15
     DEF EventNext, CommonNext

\* The inductive invariant of the event loop.
EventInv == EventTypeOK /\ EventsAreGood /\ AlarmChain /\ SignalsAreSeen /\ ClosedAreClean

\* SIGALRM is always in exactly one place, and the signals of the socket pair
\* are announced or about to be read.
LEMMA SignalStep ==
  ASSUME EventInv, [EventNext]_eventVars
  PROVE  AlarmChain' /\ SignalsAreSeen'
<1> USE DEF EventInv, EventTypeOK, AlarmChain, SignalsAreSeen, Off, connVars, sigVars, loopVars
<1>1. CASE Connect
  BY <1>1 DEF Connect
<1>2. CASE Terminate
  BY <1>2 DEF Terminate, SigHandler
<1>3. CASE AlarmExpires
  BY <1>3 DEF AlarmExpires, SigHandler
<1>4. CASE Second
  BY <1>4 DEF Second
<1>5. CASE EpollWait
  BY <1>5 DEF EpollWait, Readable, EventsAreGood
<1>6. CASE SignalEvent
  BY <1>6 DEF SignalEvent
<1>7. CASE NoTimeout
  BY <1>7 DEF NoTimeout
<1>8. ASSUME NEW fd \in Fds, Send(fd) \/ PeerLeaves(fd) \/ AcceptEvent(fd) \/ DataEvent(fd)
      PROVE  AlarmChain' /\ SignalsAreSeen'
  BY <1>8, FdsAssumption DEF Send, PeerLeaves, AcceptEvent, DataEvent
<1>9. ASSUME NEW fd \in Fds, HangupEvent(fd)
      PROVE  AlarmChain' /\ SignalsAreSeen'
  BY <1>9, FdsAssumption DEF HangupEvent, Close
<1>10. ASSUME NEW S \in SUBSET Fds, TimerHandler(S)
       PROVE  AlarmChain' /\ SignalsAreSeen'
  BY <1>10, FdsAssumption, TimeslotAssumption DEF TimerHandler, Close
<1>11. CASE UNCHANGED eventVars
  BY <1>11 DEF eventVars
<1>12. CASE Aborts
  BY <1>12 DEF Aborts
<1> QED
  BY <1>1, <1>2, <1>3, <1>4, <1>5, <1>6, <1>7, <1>8, <1>9, <1>10, <1>11, <1>12
     DEF EventNext, CommonNext

\* Nothing takes away what a pending event announces, except its own handler.
LEMMA EventsStep ==
  ASSUME EventInv, [EventNext]_eventVars
  PROVE  EventsAreGood' /\ ClosedAreClean'
<1> USE DEF EventInv, EventTypeOK, EventsAreGood, ClosedAreClean, Readable, Events,
            connVars, sigVars, loopVars
<1>1. CASE Connect
  BY <1>1, FdsAssumption DEF Connect
<1>2. CASE Terminate
  BY <1>2, FdsAssumption DEF Terminate, SigHandler
<1>3. CASE AlarmExpires
  BY <1>3, FdsAssumption DEF AlarmExpires, SigHandler
<1>4. CASE Second
  BY <1>4 DEF Second
<1>5. CASE EpollWait
  BY <1>5 DEF EpollWait
<1>6. CASE SignalEvent
  BY <1>6 DEF SignalEvent
<1>7. CASE NoTimeout
  BY <1>7 DEF NoTimeout
<1>8. ASSUME NEW fd \in Fds, Send(fd)
      PROVE  EventsAreGood' /\ ClosedAreClean'
  BY <1>8, FdsAssumption DEF Send
<1>9. ASSUME NEW fd \in Fds, PeerLeaves(fd)
      PROVE  EventsAreGood' /\ ClosedAreClean'
  BY <1>9, FdsAssumption DEF PeerLeaves
<1>10. ASSUME NEW fd \in Fds, AcceptEvent(fd)
       PROVE  EventsAreGood' /\ ClosedAreClean'
  BY <1>10, FdsAssumption DEF AcceptEvent
<1>11. ASSUME NEW fd \in Fds, DataEvent(fd)
       PROVE  EventsAreGood' /\ ClosedAreClean'
  BY <1>11, FdsAssumption DEF DataEvent
<1>12. ASSUME NEW fd \in Fds, HangupEvent(fd)
       PROVE  EventsAreGood' /\ ClosedAreClean'
  BY <1>12, FdsAssumption DEF HangupEvent, Close
<1>13. ASSUME NEW S \in SUBSET Fds, TimerHandler(S)
       PROVE  EventsAreGood' /\ ClosedAreClean'
  BY <1>13, FdsAssumption DEF TimerHandler, Close
<1>14. CASE UNCHANGED eventVars
  BY <1>14 DEF eventVars
<1>15. CASE Aborts
  BY <1>15 DEF Aborts
<1> QED
  BY <1>1, <1>2, <1>3, <1>4, <1>5, <1>6, <1>7, <1>8, <1>9, <1>10, <1>11, <1>12, <1>13, <1>14,
     <1>15
     DEF EventNext, CommonNext

-------------------------------------------------------------------------------
\* The event loop starts with its invariant.
LEMMA EventInvInit == EventInit => EventInv
<1> SUFFICES ASSUME EventInit PROVE EventInv
  OBVIOUS
<1> USE DEF EventInit
<1>1. EventTypeOK
  <2>1. alarm \in {Off} \cup 0 .. TIMESLOT
    BY TimeslotAssumption
  <2>2. timeout \in BOOLEAN /\ stop_server \in BOOLEAN
    OBVIOUS
  <2> QED
    BY <2>1, <2>2, LimitAssumption DEF EventTypeOK
<1>2. EventsAreGood /\ SignalsAreSeen /\ ClosedAreClean
  BY DEF EventsAreGood, SignalsAreSeen, ClosedAreClean
<1>3. AlarmChain
  BY TimeslotAssumption DEF AlarmChain, Off
<1> QED
  BY <1>1, <1>2, <1>3 DEF EventInv

\* Every handler of the loop, and every event around it, keeps the invariant.
LEMMA EventInvStep ==
  ASSUME EventInv, [EventNext]_eventVars
  PROVE  EventInv'
  BY EventType, SignalStep, EventsStep DEF EventInv

\* What closes only silent connections is a step of the loop.
LEMMA ReapingIsEventNext == EventInv /\ [ReapingNext]_eventVars => [EventNext]_eventVars
  BY DEF ReapingNext, EventNext, Reaper!Idle, EventInv, EventTypeOK

\* The loop starts as the reaper does.
LEMMA ReaperInit == EventInit => Reaper!Init
  BY DEF EventInit, Reaper!Init

\* Every step is a step of the reaper, or leaves it unchanged.
LEMMA ReaperStep ==
  ASSUME EventInv, [ReapingNext]_eventVars
  PROVE  [Reaper!Next]_(Reaper!vars)
<1> USE DEF EventInv, EventTypeOK, Reaper!vars
<1>1. ASSUME NEW fd \in Fds, AcceptEvent(fd)
      PROVE  Reaper!Accept(fd)
  BY <1>1 DEF AcceptEvent, Reaper!Accept, ClosedAreClean
<1>2. ASSUME NEW fd \in Fds, DataEvent(fd)
      PROVE  Reaper!Hear(fd)
  BY <1>2 DEF DataEvent, Reaper!Hear, EventsAreGood
<1>3. ASSUME NEW fd \in Fds, PeerLeaves(fd)
      PROVE  Reaper!PeerLeaves(fd)
  BY <1>3 DEF PeerLeaves, Reaper!PeerLeaves
<1>4. ASSUME NEW fd \in Fds, HangupEvent(fd)
      PROVE  Reaper!Hangup(fd)
  <2>1. fd \in open /\ peer[fd] # "up"
    BY <1>4, FdsAssumption DEF HangupEvent, EventsAreGood, Readable
  <2> QED
    BY <1>4, <2>1 DEF HangupEvent, Close, Reaper!Hangup
<1>5. ASSUME NEW S \in SUBSET Reaper!Idle, TimerHandler(S)
      PROVE  Reaper!Sweep(S)
  BY <1>5 DEF TimerHandler, Close, Reaper!Sweep, Reaper!Idle
<1>6. CASE Second
  BY <1>6 DEF Second, Reaper!Elapse, Reaper!Next
<1>7. CASE \/ Aborts \/ Connect \/ Terminate \/ AlarmExpires \/ EpollWait \/ SignalEvent \/ NoTimeout
           \/ \E fd \in Fds : Send(fd)
           \/ UNCHANGED eventVars
  BY <1>7 DEF Aborts, Connect, Terminate, AlarmExpires, EpollWait, SignalEvent, NoTimeout, Send,
              connVars, eventVars
<1> QED
  BY <1>1, <1>2, <1>3, <1>4, <1>5, <1>6, <1>7 DEF ReapingNext, CommonNext, Reaper!Next

-------------------------------------------------------------------------------
(* The server with the time heap. *)

\* The connections that cb_func is called for by a tick.
Reaped == {user[t] : t \in {u \in Due : cb[u]}}

\* The remaining time of a connection's timer is what is left of Limit.
RemainingMatches == \A fd \in open : quiet[fd] + remaining[timerOf[fd]] = Limit

Inv == TypeOK /\ OneTimerEach /\ RemainingMatches

\* A tick closes exactly the connections that have been silent for Limit seconds.
LEMMA ReapedAreIdle ==
  ASSUME Inv
  PROVE  Reaped = Reaper!Idle
<1> USE DEF Inv, TypeOK, EventTypeOK, OneTimerEach, RemainingMatches, Reaper!Idle, Reaped, Due
<1>1. ASSUME NEW fd \in Reaped
      PROVE  fd \in Reaper!Idle
  <2>1. PICK t \in heap : remaining[t] = 0 /\ cb[t] /\ user[t] = fd
    BY <1>1
  <2>2. fd \in open /\ timerOf[fd] = t
    BY <2>1
  <2> QED
    BY <2>1, <2>2, LimitAssumption
<1>2. ASSUME NEW fd \in Reaper!Idle
      PROVE  fd \in Reaped
  <2>1. fd \in open /\ quiet[fd] = Limit
    BY <1>2
  <2>2. timerOf[fd] \in Due /\ cb[timerOf[fd]] /\ user[timerOf[fd]] = fd
    BY <2>1, LimitAssumption
  <2> QED
    BY <2>2
<1> QED
  BY <1>1, <1>2

\* A step of the server is one of the event loop that all servers have in common.
LEMMA NextIsReapingNext == Inv /\ [Next]_vars => [ReapingNext]_eventVars
  BY ReapedAreIdle
     DEF Next, Environment, Loop, Accept, Data, Hangup, Tick, Elapse, Reaped,
         ReapingNext, CommonNext, vars

-------------------------------------------------------------------------------
\* The timers stay well typed.
LEMMA TimerType ==
  ASSUME Inv, EventInv, [Next]_vars, EventTypeOK'
  PROVE  TypeOK'
<1> USE DEF TypeOK, Inv
<1>1. ASSUME NEW fd \in Fds, NEW t \in Addrs, Accept(fd, t) PROVE TypeOK'
  BY <1>1, LimitAssumption DEF Accept, NewTimer
<1>2. ASSUME NEW fd \in Fds, NEW t \in Addrs, Data(fd, t) PROVE TypeOK'
  <2>1. timerOf[fd] \in Addrs
    BY <1>2 DEF Data, DataEvent, EventInv, EventsAreGood, OneTimerEach
  <2> QED
    BY <1>2, <2>1, LimitAssumption DEF Data, NewTimer
<1>3. ASSUME NEW fd \in Fds, Hangup(fd) PROVE TypeOK'
  BY <1>3 DEF Hangup
<1>4. CASE Tick
  BY <1>4 DEF Tick
<1>5. CASE Elapse
  BY <1>5, LimitAssumption DEF Elapse
<1>6. CASE UNCHANGED timerVars
  BY <1>6 DEF timerVars
<1> QED
  BY <1>1, <1>2, <1>3, <1>4, <1>5, <1>6 DEF Next, Loop, vars

\* Each handler keeps the timers of the connections right.
LEMMA TimersStep ==
  ASSUME Inv, EventInv, [Next]_vars
  PROVE  OneTimerEach' /\ RemainingMatches'
<1> USE DEF TypeOK, EventTypeOK, Inv, OneTimerEach, RemainingMatches
<1>1. ASSUME NEW fd \in Fds, NEW t \in Addrs, Accept(fd, t)
      PROVE  OneTimerEach' /\ RemainingMatches'
  BY <1>1, LimitAssumption DEF Accept, AcceptEvent, NewTimer
<1>2. ASSUME NEW fd \in Fds, NEW t \in Addrs, Data(fd, t)
      PROVE  OneTimerEach' /\ RemainingMatches'
  <2>1. fd \in open /\ timerOf[fd] \in heap /\ cb[timerOf[fd]] /\ user[timerOf[fd]] = fd
    BY <1>2 DEF Data, DataEvent, EventInv, EventsAreGood
  <2> QED
    BY <1>2, <2>1, LimitAssumption DEF Data, DataEvent, NewTimer
<1>3. ASSUME NEW fd \in Fds, Hangup(fd)
      PROVE  OneTimerEach' /\ RemainingMatches'
  <2>1. fd \in open /\ timerOf[fd] \in heap /\ cb[timerOf[fd]] /\ user[timerOf[fd]] = fd
    BY <1>3 DEF Hangup, HangupEvent, EventInv, EventsAreGood
  <2> QED
    BY <1>3, <2>1 DEF Hangup, HangupEvent, Close
<1>4. CASE Tick
  BY <1>4 DEF Tick, TimerHandler, Close, Due
<1>5. CASE Elapse
  BY <1>5, LimitAssumption DEF Elapse, Second
<1>6. CASE UNCHANGED <<timerVars, open, quiet>>
  BY <1>6 DEF timerVars
<1>7. CASE (Environment \/ AlarmExpires \/ EpollWait \/ SignalEvent \/ NoTimeout)
           /\ UNCHANGED timerVars
  BY <1>6, <1>7
     DEF Environment, Connect, Send, PeerLeaves, Terminate, AlarmExpires, EpollWait,
         SignalEvent, NoTimeout, connVars
<1> QED
  BY <1>1, <1>2, <1>3, <1>4, <1>5, <1>6, <1>7 DEF Next, Loop, vars, eventVars, connVars

\* The inductive invariant of the server.
THEOREM InvCorrect == Spec => [](Inv /\ EventInv)
<1>1. Init => Inv /\ EventInv
  <2> SUFFICES ASSUME Init PROVE Inv /\ EventInv
    OBVIOUS
  <2>1. EventInv
    BY EventInvInit DEF Init
  <2>2. TypeOK
    BY <2>1, LimitAssumption DEF Init, NoTimers, TypeOK, EventInv
  <2>3. OneTimerEach /\ RemainingMatches
    BY DEF Init, EventInit, OneTimerEach, RemainingMatches
  <2> QED
    BY <2>1, <2>2, <2>3 DEF Inv
<1>2. Inv /\ EventInv /\ [Next]_vars => Inv' /\ EventInv'
  <2> SUFFICES ASSUME Inv, EventInv, [Next]_vars
               PROVE  Inv' /\ EventInv'
    OBVIOUS
  <2>1. [EventNext]_eventVars
    BY NextIsReapingNext, ReapingIsEventNext
  <2>2. EventInv'
    BY <2>1, EventInvStep
  <2>3. Inv'
    BY <2>2, TimerType, TimersStep DEF Inv, EventInv
  <2> QED
    BY <2>2, <2>3
<1> QED
  BY <1>1, <1>2, PTL DEF Spec

\* Each open connection has one armed timer, which users[fd].timer points to, and
\* cb_func only ever runs on an open descriptor.
THEOREM OneTimerEachCorrect == Spec => []OneTimerEach
<1>1. Inv => OneTimerEach
  BY DEF Inv
<1> QED
  BY <1>1, InvCorrect, PTL

\* No handler meets an event that is no longer good, so none of them blocks.
THEOREM EventsAreGoodCorrect == Spec => []EventsAreGood
<1>1. EventInv => EventsAreGood
  BY DEF EventInv
<1> QED
  BY <1>1, InvCorrect, PTL

\* SIGALRM is always in exactly one place.
THEOREM AlarmChainCorrect == Spec => []AlarmChain
<1>1. EventInv => AlarmChain
  BY DEF EventInv
<1> QED
  BY <1>1, InvCorrect, PTL

\* Whatever a signal handler has written to the socket pair, epoll_wait reports or
\* has reported.
THEOREM SignalsAreSeenCorrect == Spec => []SignalsAreSeen
<1>1. EventInv => SignalsAreSeen
  BY DEF EventInv
<1> QED
  BY <1>1, InvCorrect, PTL

\* The variables of the server keep their types.
THEOREM TypeCorrect == Spec => []TypeOK
<1>1. Inv => TypeOK
  BY DEF Inv
<1> QED
  BY <1>1, InvCorrect, PTL

-------------------------------------------------------------------------------
\* The server keeps the reaper's promise.
THEOREM ServerImplementsReaper == Spec => ReaperSpec
<1>1. Init => Reaper!Init
  BY ReaperInit DEF Init
<1>2. Inv /\ EventInv /\ [Next]_vars => [Reaper!Next]_(Reaper!vars)
  BY NextIsReapingNext, ReaperStep
<1> QED
  BY <1>1, <1>2, InvCorrect, PTL DEF Spec, ReaperSpec, Reaper!Spec

\* A tick leaves no connection that was silent for Limit seconds.
THEOREM TickLeavesNoneCorrect == Spec => TickLeavesNone
<1>1. Inv /\ EventInv /\ [Next]_vars
        => [timeout /\ ~timeout' => \A fd \in open' : quiet'[fd] < Limit]_vars
  <2> SUFFICES ASSUME Inv, EventInv, [Next]_vars, timeout, ~timeout', NEW fd \in open'
               PROVE  quiet'[fd] < Limit
    OBVIOUS
  <2>1. Tick
    BY DEF Next, Environment, Loop, Connect, Send, PeerLeaves, Terminate, AlarmExpires,
           Elapse, Second, EpollWait, Accept, AcceptEvent, SignalEvent, Data, DataEvent,
           Hangup, HangupEvent, NoTimeout, vars, eventVars, sigVars, Inv, TypeOK, EventTypeOK
  <2>2. Close(Reaper!Idle)
    BY <2>1, ReapedAreIdle DEF Tick, TimerHandler, Reaped
  <2> QED
    BY <2>2, LimitAssumption DEF Close, Reaper!Idle, Inv, TypeOK, EventTypeOK
<1> QED
  BY <1>1, InvCorrect, PTL DEF Spec, TickLeavesNone

-------------------------------------------------------------------------------
(* The server with the time wheel. *)

\* Ticks since timer t was made.
Counted(t) == COUNT - count[t]

\* As long as no handler deleted another connection's timer, a timer counts the
\* silence of its connection: after the first tick, each tick comes TIMESLOT seconds
\* after the one before.
QuietMatches ==
  ~crossed => \A t \in live : Counted(t) > 0 =>
    quiet[user[t]] + (IF alarm = Off THEN 0 ELSE alarm) >= Counted(t) * TIMESLOT

WheelInv == WheelTypeOK /\ IsFiniteSet(live) /\ OneWheelTimerEach /\ QuietMatches

\* The connections that cb_func is called for by a tick.
WheelReaped == {user[t] : t \in Expired}

-------------------------------------------------------------------------------
\* Facts about products with TIMESLOT, for the provers.
LEMMA Times ==
  ASSUME NEW k \in 0 .. COUNT
  PROVE  /\ k * TIMESLOT \in Nat
         /\ k * TIMESLOT <= Limit
         /\ (k + 1) * TIMESLOT = k * TIMESLOT + TIMESLOT
         /\ k = COUNT => k * TIMESLOT = Limit
         /\ k = 1 => k * TIMESLOT = TIMESLOT
<1> DEFINE d == COUNT - k
<1>1. d \in Nat /\ COUNT = k + d
  BY COUNTAssumption
<1>2. TIMESLOT \in Nat
  BY TimeslotAssumption
<1>3. k * TIMESLOT \in Nat /\ d * TIMESLOT \in Nat
  BY <1>1, <1>2
<1>4. (k + d) * TIMESLOT = k * TIMESLOT + d * TIMESLOT
  BY <1>1, <1>2
<1>5. Limit = k * TIMESLOT + d * TIMESLOT
  BY <1>1, <1>4, COUNTAssumption
<1>6. (k + 1) * TIMESLOT = k * TIMESLOT + TIMESLOT
  BY <1>2
<1> QED
  BY <1>2, <1>3, <1>5, <1>6, COUNTAssumption

\* The cache stays a sequence of addresses, and keeps all that fits.
LEMMA FreedType ==
  ASSUME NEW q \in Seq(Addrs), cache \in Seq(Addrs)
  PROVE  /\ Freed(q) \in Seq(Addrs)
         /\ Len(Freed(q)) <= Len(q) + Len(cache)
         /\ Len(q) + Len(cache) <= CacheMax => Freed(q) = q \o cache
<1>1. CASE Len(q) + Len(cache) <= CacheMax
  BY <1>1, CacheMaxAssumption DEF Freed
<1>2. CASE ~(Len(q) + Len(cache) <= CacheMax)
  <2> DEFINE n == CacheMax - Len(cache)
  <2>1. n \in Int /\ n < Len(q)
    BY <1>2, CacheMaxAssumption
  <2>2. SubSeq(q, 1, n) \in Seq(Addrs) /\ Len(SubSeq(q, 1, n)) <= Len(q)
    BY <2>1
  <2>3. Freed(q) = SubSeq(q, 1, n) \o cache
    BY <1>2 DEF Freed
  <2> QED
    BY <1>2, <2>2, <2>3
<1> QED
  BY <1>1, <1>2

\* A tick only closes connections that were silent for Limit seconds.
LEMMA WheelReapedAreIdle ==
  ASSUME WheelInv, AlarmChain, timeout, ~crossed
  PROVE  WheelReaped \subseteq Reaper!Idle
<1> SUFFICES ASSUME NEW t \in live, count[t] = 0
             PROVE  user[t] \in Reaper!Idle
  BY DEF WheelReaped, Expired
<1> USE DEF WheelInv, WheelTypeOK, EventTypeOK
<1>1. user[t] \in open
  BY DEF OneWheelTimerEach
<1>2. Counted(t) = COUNT /\ COUNT > 0
  BY COUNTAssumption DEF Counted
<1>3. COUNT * TIMESLOT = Limit
  BY COUNTAssumption
<1>4. quiet[user[t]] >= Limit
  BY <1>1, <1>2, <1>3 DEF QuietMatches, AlarmChain
<1> QED
  BY <1>1, <1>4, LimitAssumption DEF Reaper!Idle

\* A step of the server is one of the event loop that all servers have in common.
LEMMA WheelNextIsEventNext ==
  ASSUME WheelInv, [WheelNext]_wheelServerVars
  PROVE  [EventNext]_eventVars
<1>1. CASE \E fd \in Fds : UseDeleted(fd)
  BY <1>1 DEF UseDeleted, EventNext, Aborts
<1>2. CASE WheelTick
  <2>1. WheelReaped \in SUBSET Fds
    BY DEF WheelReaped, Expired, WheelInv, WheelTypeOK
  <2> QED
    BY <1>2, <2>1 DEF WheelTick, WheelReaped, EventNext
<1>3. CASE \/ \E fd \in Fds, t \in Addrs : WheelAccept(fd, t) \/ WheelData(fd, t)
           \/ \E fd \in Fds : WheelHangup(fd)
  BY <1>3 DEF WheelAccept, WheelData, WheelHangup, EventNext, CommonNext
<1>4. CASE WheelEnvironment
  BY <1>4 DEF WheelEnvironment, WheelPeers, EventNext, CommonNext
<1>5. CASE EpollWait \/ SignalEvent \/ NoTimeout \/ UNCHANGED wheelServerVars
  BY <1>5 DEF EventNext, CommonNext, wheelServerVars
<1> QED
  BY <1>1, <1>2, <1>3, <1>4, <1>5 DEF WheelNext, WheelLoop

\* It is one of a loop that closes only silent connections, as long as no handler
\* deleted another connection's timer.
LEMMA WheelNextIsReapingNext ==
  ASSUME WheelInv, EventInv, ~crossed, [WheelNext]_wheelServerVars
  PROVE  [ReapingNext]_eventVars
<1>1. CASE WheelTick
  <2>1. WheelReaped \in SUBSET Reaper!Idle
    BY <1>1, WheelReapedAreIdle DEF WheelTick, TimerHandler, EventInv
  <2> QED
    BY <1>1, <2>1 DEF WheelTick, WheelReaped, ReapingNext
<1>2. CASE ~WheelTick
  <2>1. CASE \E fd \in Fds : UseDeleted(fd)
    BY <2>1 DEF UseDeleted, ReapingNext, Aborts
  <2>2. CASE \/ \E fd \in Fds, t \in Addrs : WheelAccept(fd, t) \/ WheelData(fd, t)
             \/ \E fd \in Fds : WheelHangup(fd)
    BY <2>2 DEF WheelAccept, WheelData, WheelHangup, ReapingNext, CommonNext
  <2>3. CASE WheelEnvironment
    BY <2>3 DEF WheelEnvironment, WheelPeers, ReapingNext, CommonNext
  <2>4. CASE EpollWait \/ SignalEvent \/ NoTimeout \/ UNCHANGED wheelServerVars
    BY <2>4 DEF ReapingNext, CommonNext, wheelServerVars
  <2> QED
    BY <1>2, <2>1, <2>2, <2>3, <2>4 DEF WheelNext, WheelLoop
<1> QED
  BY <1>1, <1>2

-------------------------------------------------------------------------------
\* The cache after a tick.
LEMMA FreedByTick ==
  ASSUME WheelInv, WheelTick
  PROVE  /\ IsFiniteSet(Expired) /\ Cardinality(Expired) \in Nat
         /\ cache' \in Seq(Addrs)
         /\ Len(cache') <= Len(cache) + Cardinality(Expired)
<1> USE DEF WheelInv
<1>1. IsFiniteSet(Expired) /\ Cardinality(Expired) \in Nat
  BY FS_Subset, FS_CardinalityType DEF Expired
<1>2. PICK q \in SetToSeqs(Expired) : cache' = Freed(q)
  BY DEF WheelTick
<1>3. q \in [1 .. Cardinality(Expired) -> Addrs]
  BY <1>2 DEF SetToSeqs, Expired, WheelTypeOK
<1>4. q \in Seq(Addrs) /\ Len(q) = Cardinality(Expired)
  BY <1>1, <1>3
<1>5. cache \in Seq(Addrs) /\ Len(cache) \in Nat
  BY DEF WheelTypeOK
<1>6. Freed(q) \in Seq(Addrs) /\ Len(Freed(q)) <= Len(q) + Len(cache)
  BY <1>4, <1>5, FreedType
<1> QED
  BY <1>1, <1>2, <1>4, <1>5, <1>6

\* The cache after one timer was freed.
LEMMA FreedOne ==
  ASSUME WheelInv, NEW t \in Addrs
  PROVE  /\ Freed(<<t>>) \in Seq(Addrs)
         /\ Len(Freed(<<t>>)) <= Len(cache) + 1
<1>1. <<t>> \in Seq(Addrs) /\ Len(<<t>>) = 1
  OBVIOUS
<1>2. cache \in Seq(Addrs) /\ Len(cache) \in Nat
  BY DEF WheelInv, WheelTypeOK
<1> DEFINE q == <<t>>
<1>3. Freed(q) \in Seq(Addrs) /\ Len(Freed(q)) <= Len(q) + Len(cache)
  BY <1>1, <1>2, FreedType
<1> QED
  BY <1>1, <1>2, <1>3

\* The variables of the wheel stay well typed, and its timers finitely many.
LEMMA WheelType ==
  ASSUME WheelInv, [WheelNext]_wheelServerVars, EventTypeOK'
  PROVE  WheelTypeOK' /\ IsFiniteSet(live)'
<1> USE DEF WheelInv
<1>1. ASSUME NEW fd \in Fds, NEW t \in Addrs, WheelAccept(fd, t)
      PROVE  WheelTypeOK' /\ IsFiniteSet(live)'
  <2>1. cache' \in Seq(Addrs)
    BY <1>1 DEF WheelAccept, NewWheelTimer, WheelTypeOK
  <2>2. IsFiniteSet(live')
    BY <1>1, FS_AddElement DEF WheelAccept, NewWheelTimer
  <2> QED
    BY <1>1, <2>1, <2>2, COUNTAssumption DEF WheelTypeOK, WheelAccept, NewWheelTimer
<1>2. ASSUME NEW fd \in Fds, NEW t \in Addrs, WheelData(fd, t)
      PROVE  WheelTypeOK' /\ IsFiniteSet(live)'
  <2> DEFINE old == timerOf[fd]
             c == Freed(<<old>>)
  <2>1. old \in live /\ old \in Addrs /\ user[old] \in Fds
    BY <1>2 DEF WheelData, WheelTypeOK
  <2>2. NewWheelTimer(t, user[old], c, live \ {old})
    BY <1>2 DEF WheelData
  <2>3. c \in Seq(Addrs)
    BY <2>1, FreedOne
  <2> HIDE DEF c
  <2>4. cache' \in Seq(Addrs)
    BY <2>2, <2>3 DEF NewWheelTimer
  <2>5. IsFiniteSet(live')
    BY <2>2, FS_AddElement, FS_RemoveElement DEF NewWheelTimer
  <2>6. live' \in SUBSET Addrs /\ count' \in [Addrs -> 0 .. COUNT]
        /\ user' \in [Addrs -> Fds \cup {NULL}] /\ \A u \in live' : user'[u] \in Fds
    BY <2>1, <2>2, COUNTAssumption DEF NewWheelTimer, WheelTypeOK
  <2>7. crossed' \in BOOLEAN /\ wild' \in BOOLEAN /\ timerOf' = timerOf
    BY <1>2 DEF WheelData, Crosses, WheelTypeOK
  <2> QED
    BY <2>4, <2>5, <2>6, <2>7 DEF WheelTypeOK
<1>3. ASSUME NEW fd \in Fds, WheelHangup(fd)
      PROVE  WheelTypeOK' /\ IsFiniteSet(live)'
  <2>1. timerOf[fd] \in Addrs /\ live' = live \ {timerOf[fd]}
        /\ UNCHANGED <<count, user, timerOf, wild>>
    BY <1>3 DEF WheelHangup, WheelTypeOK
  <2>2. cache' \in Seq(Addrs)
    BY <1>3, <2>1, FreedOne DEF WheelHangup
  <2>3. crossed' \in BOOLEAN
    BY <1>3 DEF WheelHangup, Crosses
  <2>4. IsFiniteSet(live')
    BY <2>1, FS_RemoveElement
  <2> QED
    BY <2>1, <2>2, <2>3, <2>4 DEF WheelTypeOK
<1>4. CASE WheelTick
  <2>1. /\ live' = live \ Expired
        /\ count' = [t \in Addrs |-> IF t \in live \ Expired THEN count[t] - 1 ELSE count[t]]
        /\ UNCHANGED <<user, timerOf, wild, crossed>>
    BY <1>4 DEF WheelTick
  <2>2. cache' \in Seq(Addrs)
    BY <1>4, FreedByTick
  <2>3. count' \in [Addrs -> 0 .. COUNT]
    BY <2>1, COUNTAssumption DEF WheelTypeOK, Expired
  <2>4. live' \in SUBSET Addrs /\ IsFiniteSet(live') /\ \A t \in live' : user'[t] \in Fds
    BY <2>1, FS_Subset DEF WheelTypeOK
  <2>5. wild' \in BOOLEAN /\ crossed' \in BOOLEAN
    BY <2>1 DEF WheelTypeOK
  <2>6. user' \in [Addrs -> Fds \cup {NULL}] /\ timerOf' \in [Fds -> Addrs \cup {NULL}]
    BY <2>1 DEF WheelTypeOK
  <2>7. EventTypeOK'
    OBVIOUS
  <2> QED
    BY <2>2, <2>3, <2>4, <2>5, <2>6, <2>7, Zenon DEF WheelTypeOK
<1>5. ASSUME NEW fd \in Fds, UseDeleted(fd)
      PROVE  WheelTypeOK' /\ IsFiniteSet(live)'
  BY <1>5 DEF UseDeleted, WheelTypeOK
<1>6. CASE UNCHANGED wheelVars
  BY <1>6 DEF WheelTypeOK, wheelVars
<1> QED
  BY <1>1, <1>2, <1>3, <1>4, <1>5, <1>6 DEF WheelNext, WheelLoop, wheelServerVars

\* Steps that leave the timers, the connections and their silence as they are.
LEMMA QuietSteps ==
  ASSUME WheelInv, EventInv, UNCHANGED <<live, count, user, crossed>>,
         \/ UNCHANGED <<open, quiet, alarm>>
         \/ AlarmExpires
         \/ Second
  PROVE  OneWheelTimerEach' /\ QuietMatches'
<1> USE DEF WheelInv, WheelTypeOK, EventTypeOK
<1>1. OneWheelTimerEach'
  BY DEF OneWheelTimerEach, AlarmExpires, Second, connVars
<1>2. ASSUME ~crossed, NEW t \in live, Counted(t) > 0
      PROVE  quiet'[user[t]] + (IF alarm' = Off THEN 0 ELSE alarm') >= Counted(t) * TIMESLOT
  <2> PICK fd \in Fds : fd = user[t]
    OBVIOUS
  <2>1. fd \in open /\ Counted(t) \in 0 .. COUNT
    BY <1>2, COUNTAssumption DEF Counted, OneWheelTimerEach
  <2>2. Counted(t) * TIMESLOT \in Nat /\ Counted(t) * TIMESLOT <= Limit
    BY <2>1, Times
  <2>3. quiet[fd] + (IF alarm = Off THEN 0 ELSE alarm) >= Counted(t) * TIMESLOT
    BY <1>2 DEF QuietMatches
  <2>4. CASE UNCHANGED <<open, quiet, alarm>>
    BY <2>3, <2>4
  <2>5. CASE AlarmExpires
    BY <2>2, <2>3, <2>5 DEF AlarmExpires, Off, connVars
  <2>6. CASE Second
    <3>1. quiet'[fd] = IF quiet[fd] < Limit THEN quiet[fd] + 1 ELSE quiet[fd]
      BY <2>1, <2>6 DEF Second
    <3>2. alarm' = IF alarm > 0 THEN alarm - 1 ELSE alarm
      BY <2>6 DEF Second
    <3> QED
      BY <2>1, <2>2, <2>3, <3>1, <3>2, LimitAssumption, TimeslotAssumption DEF Off
  <2>7. quiet'[fd] + (IF alarm' = Off THEN 0 ELSE alarm') >= Counted(t) * TIMESLOT
    BY <2>4, <2>5, <2>6
  <2> QED
    BY <2>7
<1>3. live' = live /\ user' = user /\ crossed' = crossed
      /\ \A t \in live : Counted(t)' = Counted(t)
  BY DEF Counted
<1> QED
  BY <1>1, <1>2, <1>3 DEF QuietMatches

-------------------------------------------------------------------------------
\* One lemma per handler.  A new connection gets a timer of its own.
LEMMA AcceptStep ==
  ASSUME WheelInv, EventInv, NEW fd \in Fds, NEW t \in Addrs, WheelAccept(fd, t)
  PROVE  OneWheelTimerEach' /\ QuietMatches'
<1> SUFFICES ASSUME ~crossed
             PROVE  OneWheelTimerEach' /\ QuietMatches'
  BY DEF WheelAccept, OneWheelTimerEach, QuietMatches
<1> USE DEF WheelInv
<1>1. fd \notin open /\ open' = open \cup {fd} /\ quiet' = [quiet EXCEPT ![fd] = 0]
      /\ alarm' = alarm /\ crossed' = crossed
  BY DEF WheelAccept, AcceptEvent, sigVars
<1>2. t \notin live /\ live' = live \cup {t} /\ count' = [count EXCEPT ![t] = COUNT]
      /\ user' = [user EXCEPT ![t] = fd]
  BY DEF WheelAccept, NewWheelTimer
<1>3. \A u \in live : user'[u] = user[u] /\ user[u] # fd /\ user[u] \in open
  BY <1>1, <1>2 DEF OneWheelTimerEach, WheelTypeOK
<1>4. user'[t] = fd /\ Counted(t)' = 0
  BY <1>2, COUNTAssumption DEF Counted, WheelTypeOK
<1>5. OneWheelTimerEach'
  BY <1>1, <1>2, <1>3, <1>4 DEF OneWheelTimerEach
<1>6. \A u \in live : Counted(u)' = Counted(u) /\ quiet'[user'[u]] = quiet[user[u]]
  BY <1>1, <1>2, <1>3 DEF Counted, WheelTypeOK, EventTypeOK
<1> QED
  BY <1>1, <1>2, <1>4, <1>5, <1>6 DEF QuietMatches

\* Data from a connection replaces its timer by one that counts from now.
LEMMA DataStep ==
  ASSUME WheelInv, EventInv, NEW fd \in Fds, NEW t \in Addrs, WheelData(fd, t)
  PROVE  OneWheelTimerEach' /\ QuietMatches'
<1> SUFFICES ASSUME ~crossed'
             PROVE  OneWheelTimerEach' /\ QuietMatches'
  BY DEF OneWheelTimerEach, QuietMatches
<1> USE DEF WheelInv
<1> DEFINE old == timerOf[fd]
<1>1. fd \in open /\ open' = open /\ quiet' = [quiet EXCEPT ![fd] = 0] /\ alarm' = alarm
  BY DEF WheelData, DataEvent, sigVars, EventInv, EventsAreGood
<1>2. ~crossed /\ old \in live /\ user[old] = fd
  BY DEF WheelData, Crosses, WheelTypeOK
<1>3. t \notin live \ {old} /\ live' = (live \ {old}) \cup {t}
      /\ count' = [count EXCEPT ![t] = COUNT] /\ user' = [user EXCEPT ![t] = fd]
  BY <1>2 DEF WheelData, NewWheelTimer
<1> HIDE DEF old
<1>4. \A u \in live \ {old} : user'[u] = user[u] /\ user[u] # fd /\ user[u] \in open
  BY <1>1, <1>2, <1>3 DEF OneWheelTimerEach, WheelTypeOK
<1>5. user'[t] = fd /\ Counted(t)' = 0
  BY <1>3, COUNTAssumption DEF Counted, WheelTypeOK
<1>6. OneWheelTimerEach'
  <2>1. \A g \in open : \E u \in live' : user'[u] = g
    BY <1>2, <1>3, <1>4, <1>5 DEF OneWheelTimerEach
  <2>2. \A u \in live' : user'[u] \in open
    BY <1>1, <1>3, <1>4, <1>5
  <2>3. \A s, u \in live' : user'[s] = user'[u] => s = u
    BY <1>2, <1>3, <1>4, <1>5 DEF OneWheelTimerEach
  <2> QED
    BY <1>1, <2>1, <2>2, <2>3 DEF OneWheelTimerEach
<1>7. \A u \in live \ {old} : Counted(u)' = Counted(u) /\ quiet'[user'[u]] = quiet[user[u]]
  BY <1>1, <1>3, <1>4 DEF Counted, WheelTypeOK, EventTypeOK
<1> QED
  BY <1>1, <1>2, <1>3, <1>5, <1>6, <1>7 DEF QuietMatches

\* A hangup deletes the connection's timer with the connection.
LEMMA HangupStep ==
  ASSUME WheelInv, EventInv, NEW fd \in Fds, WheelHangup(fd)
  PROVE  OneWheelTimerEach' /\ QuietMatches'
<1> SUFFICES ASSUME ~crossed'
             PROVE  OneWheelTimerEach' /\ QuietMatches'
  BY DEF OneWheelTimerEach, QuietMatches
<1> USE DEF WheelInv
<1>1. /\ open' = open \ {fd} /\ alarm' = alarm
      /\ \A g \in open' : quiet'[g] = quiet[g]
  BY DEF WheelHangup, HangupEvent, Close, sigVars, WheelTypeOK, EventTypeOK
<1>2. live' = live \ {timerOf[fd]} /\ UNCHANGED <<count, user>>
  BY DEF WheelHangup
<1>3. ~crossed /\ timerOf[fd] \in live /\ user[timerOf[fd]] = fd
  BY DEF WheelHangup, Crosses, WheelTypeOK
<1>4. \A u \in live' : u \in live /\ user[u] # fd /\ user[u] \in open'
  BY <1>1, <1>2, <1>3 DEF OneWheelTimerEach
<1>5. OneWheelTimerEach'
  BY <1>1, <1>2, <1>3, <1>4 DEF OneWheelTimerEach
<1>6. \A u \in live' : Counted(u)' = Counted(u) /\ quiet'[user'[u]] = quiet[user[u]]
  BY <1>1, <1>2, <1>4 DEF Counted
<1> QED
  BY <1>1, <1>2, <1>3, <1>4, <1>5, <1>6 DEF QuietMatches

\* A tick deletes the timers of the connections it closes, and counts the others on.
LEMMA TickStep ==
  ASSUME WheelInv, EventInv, WheelTick
  PROVE  OneWheelTimerEach' /\ QuietMatches'
<1> SUFFICES ASSUME ~crossed
             PROVE  OneWheelTimerEach' /\ QuietMatches'
  BY DEF WheelTick, OneWheelTimerEach, QuietMatches
<1> USE DEF WheelInv
<1>1. alarm = Off /\ alarm' = TIMESLOT
  BY DEF WheelTick, TimerHandler, EventInv, AlarmChain
<1>2. open' = open \ WheelReaped /\ \A g \in open' : g \in open /\ quiet'[g] = quiet[g]
  BY DEF WheelTick, TimerHandler, Close, WheelReaped, WheelTypeOK, EventTypeOK
<1>3. /\ live' = live \ Expired
      /\ count' = [t \in Addrs |-> IF t \in live \ Expired THEN count[t] - 1 ELSE count[t]]
      /\ UNCHANGED <<user, crossed>>
  BY DEF WheelTick
<1>4. \A t \in live \ Expired : user[t] \in open /\ user[t] \notin WheelReaped
  BY DEF OneWheelTimerEach, WheelReaped, Expired
<1>5. \A g \in open' : \E t \in live \ Expired : user[t] = g
  BY <1>2 DEF OneWheelTimerEach, WheelReaped
<1>6. OneWheelTimerEach'
  BY <1>2, <1>3, <1>4, <1>5 DEF OneWheelTimerEach
<1>7. QuietMatches'
  <2> SUFFICES ASSUME NEW t \in live \ Expired
               PROVE  quiet'[user[t]] + TIMESLOT >= Counted(t)' * TIMESLOT
    BY <1>1, <1>3, TimeslotAssumption DEF QuietMatches, Off
  <2> DEFINE g == user[t]
  <2>1. g \in open /\ g \in open' /\ t \in Addrs
    BY <1>2, <1>4 DEF WheelTypeOK
  <2>2. Counted(t)' = Counted(t) + 1 /\ Counted(t) \in 0 .. COUNT
    BY <1>3, <2>1, COUNTAssumption DEF Counted, WheelTypeOK
  <2>3. quiet'[g] = quiet[g] /\ quiet[g] \in Nat
    BY <1>2, <2>1, LimitAssumption DEF WheelTypeOK, EventTypeOK
  <2>4. (Counted(t) + 1) * TIMESLOT = Counted(t) * TIMESLOT + TIMESLOT
        /\ Counted(t) * TIMESLOT \in Nat
    BY <2>2, Times
  <2>5. CASE Counted(t) = 0
    BY <2>2, <2>3, <2>5, TimeslotAssumption
  <2>6. CASE Counted(t) > 0
    <3>1. quiet[g] >= Counted(t) * TIMESLOT
      BY <1>1, <2>3, <2>6 DEF QuietMatches
    <3> QED
      BY <2>2, <2>3, <2>4, <3>1, TimeslotAssumption
  <2> QED
    BY <2>2, <2>5, <2>6
<1> QED
  BY <1>6, <1>7

-------------------------------------------------------------------------------
\* Each step keeps the invariant.
LEMMA WheelTimersStep ==
  ASSUME WheelInv, EventInv, [WheelNext]_wheelServerVars
  PROVE  WheelInv' /\ EventInv'
<1>1. EventInv' /\ EventTypeOK'
  BY WheelNextIsEventNext, EventInvStep DEF EventInv
<1>2. WheelTypeOK' /\ IsFiniteSet(live)'
  BY <1>1, WheelType
<1>3. OneWheelTimerEach' /\ QuietMatches'
  <2>1. CASE \/ \E fd \in Fds, t \in Addrs : WheelAccept(fd, t) \/ WheelData(fd, t)
             \/ \E fd \in Fds : WheelHangup(fd)
             \/ WheelTick
    BY <2>1, AcceptStep, DataStep, HangupStep, TickStep
  <2>2. CASE \E fd \in Fds : UseDeleted(fd)
    BY <2>2, QuietSteps DEF UseDeleted, connVars, sigVars
  <2>3. CASE UNCHANGED <<live, count, user, crossed>>
             /\ (UNCHANGED <<open, quiet, alarm>> \/ AlarmExpires \/ Second)
    BY <2>3, QuietSteps
  <2>4. CASE (WheelEnvironment /\ UNCHANGED wheelVars) \/ UNCHANGED wheelServerVars
    BY <2>3, <2>4
       DEF WheelEnvironment, WheelPeers, Connect, Send, PeerLeaves, Terminate, connVars,
           sigVars, wheelServerVars, eventVars, wheelVars
  <2>5. CASE (EpollWait \/ SignalEvent \/ NoTimeout) /\ UNCHANGED wheelVars
    BY <2>3, <2>5 DEF EpollWait, SignalEvent, NoTimeout, connVars, sigVars, wheelVars
  <2> QED
    BY <2>1, <2>2, <2>4, <2>5 DEF WheelNext, WheelLoop
<1> QED
  BY <1>1, <1>2, <1>3 DEF WheelInv

\* The inductive invariant of the server.
THEOREM WheelInvCorrect == WheelSpec => [](WheelInv /\ EventInv)
<1>1. WheelInit => WheelInv /\ EventInv
  <2> SUFFICES ASSUME WheelInit PROVE WheelInv /\ EventInv
    OBVIOUS
  <2>1. EventInv
    BY EventInvInit DEF WheelInit
  <2>2. wild = FALSE /\ crossed = FALSE /\ cache = <<>>
    BY DEF WheelInit
  <2>7. wild \in BOOLEAN /\ crossed \in BOOLEAN
    BY <2>2
  <2>8. cache \in Seq(Addrs)
    BY <2>2
  <2>3. count \in [Addrs -> 0 .. COUNT]
    BY COUNTAssumption DEF WheelInit
  <2>4. WheelTypeOK
    BY <2>1, <2>7, <2>8, <2>3 DEF WheelInit, NoTimers, WheelTypeOK, EventInv
  <2>5. OneWheelTimerEach /\ QuietMatches
    BY DEF WheelInit, EventInit, OneWheelTimerEach, QuietMatches
  <2>6. IsFiniteSet(live)
    BY FS_EmptySet DEF WheelInit
  <2> QED
    BY <2>1, <2>4, <2>5, <2>6 DEF WheelInv
<1>2. (WheelInv /\ EventInv) /\ [WheelNext]_wheelServerVars => (WheelInv /\ EventInv)'
  BY WheelTimersStep
<1> QED
  BY <1>1, <1>2, PTL DEF WheelSpec

\* Whatever addresses the allocator gives, and whether or not users[fd].timer leads to
\* a deleted timer or to another connection's: until a handler deletes a timer through
\* it that is another's, each open connection has exactly one timer in the wheel, and
\* cb_func only ever runs on an open descriptor.
THEOREM OneWheelTimerEachCorrect == WheelSpec => []OneWheelTimerEach
<1>1. WheelInv => OneWheelTimerEach
  BY DEF WheelInv
<1> QED
  BY <1>1, WheelInvCorrect, PTL

\* The variables of the server keep their types.
THEOREM WheelTypeCorrect == WheelSpec => []WheelTypeOK
<1>1. WheelInv => WheelTypeOK
  BY DEF WheelInv
<1> QED
  BY <1>1, WheelInvCorrect, PTL

\* The same of the event loop, also after a timer was mixed up: no handler meets an
\* event that is no longer good, SIGALRM is always in exactly one place, and no signal
\* in the socket pair goes unreported.
THEOREM WheelEventsCorrect == WheelSpec => [](EventsAreGood /\ AlarmChain /\ SignalsAreSeen)
<1>1. EventInv => EventsAreGood /\ AlarmChain /\ SignalsAreSeen
  BY DEF EventInv
<1> QED
  BY <1>1, WheelInvCorrect, PTL

\* Until a handler deletes another connection's timer, the server closes a connection
\* only after its peer left or after COUNT * TIMESLOT seconds without a recv.
THEOREM WheelServerImplementsReaper == WheelSpec => WheelReaperSpec
<1>1. WheelInit => Reaper!Init
  BY ReaperInit DEF WheelInit
<1>2. WheelInv /\ EventInv /\ [WheelNext]_wheelServerVars
        => [Reaper!Next \/ crossed]_(Reaper!vars)
  BY WheelNextIsReapingNext, ReaperStep
<1> QED
  BY <1>1, <1>2, WheelInvCorrect, PTL DEF WheelSpec, WheelReaperSpec

-------------------------------------------------------------------------------
(* The server with the time wheel, and a cache that holds all the timers. *)

\* The timers of all the connections there can be fit in the cache.
CacheIsLarge == IsFiniteSet(Fds) /\ CacheMax >= Cardinality(Fds)

\* Freed timers make room for those of new connections, users[fd].timer leads to the
\* connection's timer, and no handler used another.
CacheInv ==
  /\ Cardinality(open) + Len(cache) <= Cardinality(Fds)
  /\ \A fd \in open : timerOf[fd] \in live /\ user[timerOf[fd]] = fd
  /\ ~wild
  /\ ~crossed

\* There are finitely many connections, and not more than descriptors.
LEMMA OpenFinite ==
  ASSUME CacheIsLarge, EventTypeOK
  PROVE  /\ IsFiniteSet(open) /\ Cardinality(open) \in Nat /\ Cardinality(Fds) \in Nat
         /\ Cardinality(open) <= Cardinality(Fds)
  BY FS_Subset, FS_CardinalityType DEF CacheIsLarge, EventTypeOK

\* A new connection takes its timer from the cache, if there is one in it.
LEMMA AcceptKeepsCache ==
  ASSUME WheelInv, CacheInv, CacheIsLarge, EventTypeOK', NEW fd \in Fds, NEW t \in Addrs,
         WheelAccept(fd, t)
  PROVE  CacheInv'
<1>1. fd \notin open /\ open' = open \cup {fd}
  BY DEF WheelAccept, AcceptEvent
<1>2. /\ t \notin live /\ live' = live \cup {t} /\ user' = [user EXCEPT ![t] = fd]
      /\ timerOf' = [timerOf EXCEPT ![fd] = t]
      /\ cache' = IF cache = <<>> THEN cache ELSE Tail(cache)
      /\ UNCHANGED <<wild, crossed>>
  BY DEF WheelAccept, NewWheelTimer
<1>3. cache \in Seq(Addrs)
  BY DEF WheelInv, WheelTypeOK
<1>4. Cardinality(open') = Cardinality(open) + 1 /\ Cardinality(open) \in Nat
      /\ Cardinality(open') <= Cardinality(Fds) /\ Cardinality(Fds) \in Nat
  <2>1. IsFiniteSet(open) /\ Cardinality(open) \in Nat /\ Cardinality(Fds) \in Nat
    BY OpenFinite DEF WheelInv, WheelTypeOK
  <2>2. Cardinality(open') <= Cardinality(Fds)
    BY FS_Subset DEF CacheIsLarge, EventTypeOK
  <2> QED
    BY <1>1, <2>1, <2>2, FS_AddElement
<1>5. Cardinality(open') + Len(cache') <= Cardinality(Fds)
  <2>1. CASE cache = <<>>
    BY <1>2, <1>4, <2>1
  <2>2. CASE cache # <<>>
    <3>1. Len(cache') = Len(cache) - 1 /\ Len(cache) \in Nat
      BY <1>2, <1>3, <2>2
    <3> QED
      BY <1>4, <3>1 DEF CacheInv
  <2> QED
    BY <2>1, <2>2
<1>6. \A g \in open' : timerOf'[g] \in live' /\ user'[timerOf'[g]] = g
  <2>1. timerOf'[fd] = t /\ user'[t] = fd
    BY <1>2 DEF WheelInv, WheelTypeOK
  <2>2. \A g \in open : timerOf'[g] = timerOf[g] /\ timerOf[g] \in live /\ timerOf[g] # t
    BY <1>1, <1>2 DEF CacheInv, WheelInv, WheelTypeOK, EventTypeOK
  <2>3. \A g \in open : user'[timerOf[g]] = g
    BY <1>2, <2>2 DEF CacheInv, WheelInv, WheelTypeOK
  <2> QED
    BY <1>1, <1>2, <2>1, <2>2, <2>3
<1> QED
  BY <1>2, <1>5, <1>6 DEF CacheInv

\* On data the new timer gets the address of the old.
LEMMA DataKeepsCache ==
  ASSUME WheelInv, CacheInv, CacheIsLarge, EventInv, NEW fd \in Fds, NEW t \in Addrs,
         WheelData(fd, t)
  PROVE  CacheInv'
<1> DEFINE old == timerOf[fd]
<1>1. fd \in open /\ open' = open /\ old \in live /\ user[old] = fd
  BY DEF WheelData, DataEvent, EventInv, EventsAreGood, CacheInv
<1>2. Cardinality(open) \in Nat /\ Cardinality(open) # 0 /\ Cardinality(Fds) \in Nat
  BY <1>1, OpenFinite, FS_EmptySet DEF WheelInv, WheelTypeOK
<1>3. cache \in Seq(Addrs) /\ old \in Addrs
  BY <1>1 DEF WheelInv, WheelTypeOK
<1>4. Len(cache) + 1 <= CacheMax
  BY <1>2, <1>3, CacheMaxAssumption DEF CacheInv, CacheIsLarge
<1>5. Freed(<<old>>) = <<old>> \o cache
  BY <1>3, <1>4 DEF Freed
<1>6. Freed(<<old>>) # <<>> /\ Head(Freed(<<old>>)) = old /\ Tail(Freed(<<old>>)) = cache
  BY <1>3, <1>5
<1>7. NewWheelTimer(t, fd, Freed(<<old>>), live \ {old})
  BY <1>1 DEF WheelData
<1>8. t = old /\ cache' = cache
  BY <1>6, <1>7 DEF NewWheelTimer
<1>9. live' = live /\ user' = [user EXCEPT ![t] = fd]
  BY <1>1, <1>7, <1>8 DEF NewWheelTimer
<1>10. user' = user
  BY <1>1, <1>8, <1>9 DEF WheelInv, WheelTypeOK
<1>11. ~wild' /\ ~crossed' /\ timerOf' = timerOf
  BY <1>1 DEF WheelData, Crosses, CacheInv
<1> QED
  BY <1>1, <1>8, <1>9, <1>10, <1>11 DEF CacheInv

\* A hangup deletes the connection's own timer.
LEMMA HangupKeepsCache ==
  ASSUME WheelInv, CacheInv, CacheIsLarge, EventInv, NEW fd \in Fds, WheelHangup(fd)
  PROVE  CacheInv'
<1>1. fd \in open /\ open' = open \ {fd}
  BY DEF WheelHangup, HangupEvent, Close, EventInv, EventsAreGood
<1>2. timerOf[fd] \in live /\ user[timerOf[fd]] = fd /\ timerOf[fd] \in Addrs
  BY <1>1 DEF CacheInv, WheelInv, WheelTypeOK
<1>3. /\ live' = live \ {timerOf[fd]} /\ cache' = Freed(<<timerOf[fd]>>)
      /\ UNCHANGED <<user, timerOf>>
  BY DEF WheelHangup
<1>4. ~wild' /\ ~crossed'
  BY <1>2 DEF WheelHangup, Crosses, CacheInv
<1>5. Cardinality(open') + Len(cache') <= Cardinality(Fds)
  <2>1. Cardinality(open') = Cardinality(open) - 1 /\ Cardinality(open) \in Nat
        /\ Cardinality(Fds) \in Nat
    BY <1>1, OpenFinite, FS_RemoveElement DEF WheelInv, WheelTypeOK
  <2>2. cache' \in Seq(Addrs) /\ Len(cache') <= Len(cache) + 1 /\ cache \in Seq(Addrs)
    BY <1>2, <1>3, FreedOne DEF WheelInv, WheelTypeOK
  <2> QED
    BY <2>1, <2>2 DEF CacheInv
<1>6. \A g \in open' : timerOf[g] \in live' /\ user[timerOf[g]] = g
  BY <1>1, <1>2, <1>3 DEF CacheInv
<1> QED
  BY <1>3, <1>4, <1>5, <1>6 DEF CacheInv

\* As many timers are deleted by a tick as connections are closed.
LEMMA ReapedCount ==
  ASSUME WheelInv, CacheInv, CacheIsLarge, WheelReaped \subseteq open
  PROVE  Cardinality(open \ WheelReaped) = Cardinality(open) - Cardinality(Expired)
<1> DEFINE f == [fd \in WheelReaped |-> timerOf[fd]]
<1>1. IsFiniteSet(open) /\ IsFiniteSet(WheelReaped)
  BY OpenFinite, FS_Subset DEF WheelInv, WheelTypeOK
<1>2. f \in Bijection(WheelReaped, Expired)
  <2>1. \A t \in Expired : user[t] \in WheelReaped /\ timerOf[user[t]] = t
    BY DEF WheelInv, OneWheelTimerEach, CacheInv, WheelReaped, Expired
  <2>2. \A fd \in WheelReaped : timerOf[fd] \in Expired /\ user[timerOf[fd]] = fd
    BY <2>1 DEF WheelReaped
  <2> QED
    BY <2>1, <2>2 DEF Bijection, Injection, Surjection, IsInjective
<1>3. Cardinality(Expired) = Cardinality(WheelReaped)
  BY <1>1, <1>2, FS_Bijection DEF ExistsBijection
<1>4. open \cap WheelReaped = WheelReaped
  OBVIOUS
<1>5. Cardinality(open \ WheelReaped) = Cardinality(open) - Cardinality(open \cap WheelReaped)
  BY <1>1, FS_Difference
<1> QED
  BY <1>3, <1>4, <1>5

\* A tick deletes the timers of the connections it closes, and no others.
LEMMA TickKeepsCache ==
  ASSUME WheelInv, CacheInv, CacheIsLarge, EventInv, WheelTick
  PROVE  CacheInv'
<1>1. WheelReaped \subseteq open
  BY DEF WheelReaped, Expired, WheelInv, OneWheelTimerEach, CacheInv
<1>2. open' = open \ WheelReaped
  BY DEF WheelTick, TimerHandler, Close, WheelReaped
<1>3. live' = live \ Expired /\ UNCHANGED <<user, timerOf, wild, crossed>>
  BY DEF WheelTick
<1>4. Cardinality(open') + Len(cache') <= Cardinality(Fds)
  <2>1. Cardinality(open') = Cardinality(open) - Cardinality(Expired)
    BY <1>1, <1>2, ReapedCount
  <2>2. /\ Cardinality(Expired) \in Nat
        /\ cache' \in Seq(Addrs) /\ Len(cache') <= Len(cache) + Cardinality(Expired)
    BY FreedByTick
  <2>3. Cardinality(open) \in Nat /\ Cardinality(Fds) \in Nat /\ cache \in Seq(Addrs)
    BY OpenFinite DEF WheelInv, WheelTypeOK
  <2>4. Len(cache) \in Nat /\ Len(cache') \in Nat
    BY <2>2, <2>3
  <2> QED
    BY <2>1, <2>2, <2>3, <2>4 DEF CacheInv
<1>5. \A g \in open' : timerOf[g] \in live \ Expired /\ user[timerOf[g]] = g
  BY <1>2 DEF CacheInv, WheelReaped
<1> QED
  BY <1>3, <1>4, <1>5 DEF CacheInv

\* With a cache for all the timers, no handler uses a timer that was deleted, or
\* deletes one that is another connection's: what the theorems above except.
THEOREM LargeCacheIsSafe == CacheIsLarge /\ WheelSpec => [](~wild /\ ~crossed)
<1> SUFFICES ASSUME CacheIsLarge
             PROVE  WheelSpec => [](~wild /\ ~crossed)
  OBVIOUS
<1>1. WheelInit => CacheInv
  BY FS_EmptySet, FS_CardinalityType DEF WheelInit, EventInit, CacheInv, CacheIsLarge
<1>2. ASSUME WheelInv, EventInv, CacheInv, [WheelNext]_wheelServerVars
      PROVE  CacheInv'
  <2>1. EventTypeOK'
    BY <1>2, WheelTimersStep DEF EventInv
  <2>2. ASSUME NEW fd \in Fds, UseDeleted(fd) PROVE FALSE
    BY <1>2, <2>2 DEF UseDeleted, EventInv, EventsAreGood, CacheInv
  <2>3. CASE UNCHANGED <<wheelVars, open>>
    BY <1>2, <2>3 DEF CacheInv, wheelVars
  <2>4. CASE (WheelEnvironment /\ UNCHANGED wheelVars) \/ UNCHANGED wheelServerVars
    BY <2>3, <2>4
       DEF WheelEnvironment, WheelPeers, Connect, Send, PeerLeaves, Terminate, AlarmExpires,
           Second, connVars, wheelServerVars, eventVars
  <2>5. CASE (EpollWait \/ SignalEvent \/ NoTimeout) /\ UNCHANGED wheelVars
    BY <2>3, <2>5 DEF EpollWait, SignalEvent, NoTimeout, connVars
  <2> QED
    BY <1>2, <2>1, <2>2, <2>4, <2>5, AcceptKeepsCache, DataKeepsCache, HangupKeepsCache,
       TickKeepsCache DEF WheelNext, WheelLoop
<1>3. CacheInv => ~wild /\ ~crossed
  BY DEF CacheInv
<1> QED
  BY <1>1, <1>2, <1>3, WheelInvCorrect, PTL DEF WheelSpec
===============================================================================
