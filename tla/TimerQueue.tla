------------------------------ MODULE TimerQueue ------------------------------
(***************************************************************************)
(* What a timer container of src/TIMER promises to the server that uses   *)
(* it, whatever structure is behind it: a set of pending timers, each with *)
(* an expiry time, and a tick that runs the callbacks of the timers whose  *)
(* time has come, earliest first, and leaves none of them behind.          *)
(*                                                                         *)
(* A timer that was deleted lazily (its callback set to NULL) stays        *)
(* pending, and is dropped without a call when its time comes.             *)
(***************************************************************************)
EXTENDS Integers

CONSTANTS Timers,   \* the timer objects
          Times     \* the values of time(NULL)

VARIABLES due,      \* expiry time of each pending timer: its domain is what is pending
          armed,    \* pending timers whose callback is still set
          ticking,  \* a tick is under way
          now,      \* the time it read
          called    \* the timers whose callback it has called

vars == <<due, armed, ticking, now, called>>

pending == DOMAIN due

Init ==
  /\ due = [t \in {} |-> 0]
  /\ armed = {}
  /\ ticking = FALSE
  /\ now = 0
  /\ called = {}

\* A new timer, armed, that expires at e.
Add(t, e) ==
  /\ ~ticking
  /\ t \notin pending
  /\ due' = [u \in pending \cup {t} |-> IF u = t THEN e ELSE due[u]]
  /\ armed' = armed \cup {t}
  /\ UNCHANGED <<ticking, now, called>>

\* The callback of a pending timer is taken away.
Disarm(t) ==
  /\ ~ticking
  /\ t \in pending
  /\ armed' = armed \ {t}
  /\ UNCHANGED <<due, ticking, now, called>>

BeginTick(c) ==
  /\ ~ticking
  /\ ticking' = TRUE
  /\ now' = c
  /\ UNCHANGED <<due, armed, called>>

\* The earliest pending timer is due: it is called if armed, and dropped.
Drop(t) ==
  /\ ticking
  /\ t \in pending
  /\ due[t] <= now
  /\ \A u \in pending : due[t] <= due[u]
  /\ called' = called \cup ({t} \cap armed)
  /\ due' = [u \in pending \ {t} |-> due[u]]
  /\ armed' = armed \ {t}
  /\ UNCHANGED <<ticking, now>>

\* A tick ends only when no pending timer is due.
EndTick ==
  /\ ticking
  /\ \A t \in pending : due[t] > now
  /\ ticking' = FALSE
  /\ now' = 0
  /\ called' = {}
  /\ UNCHANGED <<due, armed>>

Next ==
  \/ \E t \in Timers, e \in Times : Add(t, e)
  \/ \E t \in Timers : Disarm(t)
  \/ \E c \in Times : BeginTick(c)
  \/ \E t \in Timers : Drop(t)
  \/ EndTick

Spec == Init /\ [][Next]_vars
===============================================================================
