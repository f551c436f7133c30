------------------------------ MODULE WheelServer ------------------------------
(***************************************************************************)
(* src/TIMER/close_unactive_sock_use_tw.c: the event loop with timers in a *)
(* time_wheel.  The wheel is used through what TimerListsProofs proves of  *)
(* it (WheelImplementsCountdown): a timer counts ticks down, and the tick  *)
(* that finds it at 0 calls and deletes it.                                *)
(*                                                                         *)
(* On data the program deletes the timer of the connection and makes a new *)
(* one, and leaves users[fd].timer as it was.  So it matters which address *)
(* the new timer gets, and the allocator is part of the model: freed       *)
(* timers go on a last-in-first-out cache of limited size (in glibc the    *)
(* tcache, 7 chunks of a size), and beyond that elsewhere; new takes from  *)
(* the cache first, and else any free address.  The pointer may then lead  *)
(* to a deleted timer, with whose use the model ends ("wild"), or to that  *)
(* of another connection, which is deleted in its place: "crossed"         *)
(* remembers that this has happened, and the model goes on.                *)
(***************************************************************************)
EXTENDS ServerTimers, SequencesExt

CONSTANTS COUNT,      \* ticks that make the timeout
          CacheMax,   \* freed timers that the allocator keeps in its cache
          PeersGoOn   \* bound: whether peers do anything once a timer was crossed

ASSUME COUNTAssumption == COUNT \in Nat \ {0} /\ Limit = COUNT * TIMESLOT
ASSUME CacheMaxAssumption == CacheMax \in Nat
ASSUME PeersGoOnAssumption == PeersGoOn \in BOOLEAN

VARIABLES live,      \* timers allocated and not deleted: those in the wheel
          count,     \* ticks a timer still has to wait
          cache,     \* freed timers in the allocator's cache, latest first
          wild,      \* a deleted timer has been used: anything may happen
          crossed    \* history: a handler has deleted the timer of another connection

wheelVars == <<live, count, user, timerOf, cache, wild, crossed>>
wheelServerVars == <<eventVars, wheelVars>>

WheelInit ==
  /\ EventInit
  /\ live = {}
  /\ count = [t \in Addrs |-> 0]
  /\ NoTimers
  /\ cache = <<>>
  /\ wild = FALSE
  /\ crossed = FALSE

\* Bound: there is an address for the timer of each connection to be accepted.
WheelRoom == backlog < Cardinality(Addrs \ live)

-------------------------------------------------------------------------------
\* The cache once the timers of q are deleted, the first of q last.
Freed(q) ==
  IF Len(q) + Len(cache) <= CacheMax THEN q \o cache
  ELSE SubSeq(q, 1, CacheMax - Len(cache)) \o cache

\* A timer at t is taken from cache c, with the timers of rest allocated, and put
\* in the wheel for fd.
NewWheelTimer(t, fd, c, rest) ==
  /\ t \in Addrs \ rest
  /\ c # <<>> => t = Head(c)
  /\ cache' = IF c = <<>> THEN c ELSE Tail(c)
  /\ live' = rest \cup {t}
  /\ count' = [count EXCEPT ![t] = COUNT]
  /\ user' = [user EXCEPT ![t] = fd]

WheelAccept(fd, t) ==
  /\ AcceptEvent(fd)
  /\ NewWheelTimer(t, fd, cache, live)
  /\ timerOf' = [timerOf EXCEPT ![fd] = t]
  /\ UNCHANGED <<wild, crossed>>

Crosses(fd) == crossed' = (crossed \/ user[timerOf[fd]] # fd)

\* Mutant: the old timer stays.
WheelDataKeepsOld(fd, t) ==
  LET old == timerOf[fd]
  IN /\ DataEvent(fd)
     /\ old \in live
     /\ NewWheelTimer(t, user[old], cache, live)
     /\ Crosses(fd)
     /\ UNCHANGED <<timerOf, wild>>

\* WheelData: the timer is deleted, and a new one made for the same user.
WheelData(fd, t) ==
  LET old == timerOf[fd]
  IN /\ DataEvent(fd)
     /\ old \in live
     /\ NewWheelTimer(t, user[old], Freed(<<old>>), live \ {old})
     /\ Crosses(fd)
     /\ UNCHANGED <<timerOf, wild>>

\* Mutant: the timer of a closed connection is forgotten.
WheelHangupKeepsTimer(fd) ==
  /\ HangupEvent(fd)
  /\ UNCHANGED wheelVars

WheelHangup(fd) ==
  /\ HangupEvent(fd)
  /\ timerOf[fd] \in live
  /\ live' = live \ {timerOf[fd]}
  /\ cache' = Freed(<<timerOf[fd]>>)
  /\ Crosses(fd)
  /\ UNCHANGED <<count, user, timerOf, wild>>

\* The handler of a connection's event uses a timer that was deleted.
UseDeleted(fd) ==
  /\ pc = "handle"
  /\ fd \in batch \cap Fds
  /\ timerOf[fd] \notin live
  /\ wild' = TRUE
  /\ pc' = "exit"
  /\ UNCHANGED <<connVars, backlog, sigVars, ready, batch>>
  /\ UNCHANGED <<live, count, user, timerOf, cache, crossed>>

Expired == {t \in live : count[t] = 0}

WheelTick ==
  /\ TimerHandler({user[t] : t \in Expired})
  /\ live' = live \ Expired
  /\ count' = [t \in Addrs |-> IF t \in live \ Expired THEN count[t] - 1 ELSE count[t]]
  /\ \E q \in SetToSeqs(Expired) : cache' = Freed(q)
  /\ UNCHANGED <<user, timerOf, wild, crossed>>

WheelPeers ==
  /\ crossed => PeersGoOn
  /\ \/ WheelRoom /\ Connect
     \/ \E fd \in Fds : Send(fd) \/ PeerLeaves(fd)

WheelEnvironment ==
  \/ WheelPeers
  \/ Terminate
  \/ AlarmExpires
  \/ Second

WheelLoop ==
  \/ EpollWait /\ UNCHANGED wheelVars
  \/ \E fd \in Fds, t \in Addrs : WheelAccept(fd, t)
  \/ SignalEvent /\ UNCHANGED wheelVars
  \/ \E fd \in Fds, t \in Addrs : WheelData(fd, t)
  \/ \E fd \in Fds : WheelHangup(fd)
  \/ \E fd \in Fds : UseDeleted(fd)
  \/ NoTimeout /\ UNCHANGED wheelVars
  \/ WheelTick

WheelNext ==
  \/ WheelEnvironment /\ UNCHANGED wheelVars
  \/ WheelLoop

WheelSpec == WheelInit /\ [][WheelNext]_wheelServerVars

\* The loop never waits except in epoll_wait, time passes, and alarm() is kept.
FairSpec ==
  /\ WheelSpec
  /\ WF_wheelServerVars(WheelLoop)
  /\ WF_wheelServerVars(Second /\ UNCHANGED wheelVars)
  /\ WF_wheelServerVars(AlarmExpires /\ UNCHANGED wheelVars)

-------------------------------------------------------------------------------
WheelTypeOK ==
  /\ EventTypeOK
  /\ live \in SUBSET Addrs
  /\ count \in [Addrs -> 0 .. COUNT]
  /\ user \in [Addrs -> Fds \cup {NULL}] /\ \A t \in live : user[t] \in Fds
  /\ timerOf \in [Fds -> Addrs \cup {NULL}]
  /\ cache \in Seq(Addrs)
  /\ wild \in BOOLEAN
  /\ crossed \in BOOLEAN

\* An open connection has exactly one timer in the wheel, and a timer in the wheel
\* an open connection, as long as no handler deletes the timer of another connection:
\* also when users[fd].timer leads to no timer, or to another's, and is not used.
OneWheelTimerEach ==
  ~crossed => /\ \A fd \in open : \E t \in live : user[t] = fd
              /\ \A t \in live : user[t] \in open
              /\ \A s, t \in live : user[s] = user[t] => s = t

\* So long, a connection is closed because its peer left, or after COUNT ticks
\* without a recv.
WheelReaperSpec == Reaper!Init /\ [][Reaper!Next \/ crossed]_(Reaper!vars)

\* So long, a connection that stays silent is closed, unless the server is stopped
\* (or ends with the use of a deleted timer).
SilentIsClosed ==
  \A fd \in Fds : (fd \in open) ~> (fd \notin open \/ quiet[fd] = 0 \/ pc = "exit" \/ crossed)
===============================================================================
