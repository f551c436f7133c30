------------------------------- MODULE Countdown -------------------------------
(***************************************************************************)
(* What the time wheel of src/TIMER/tw_timer.h promises: every timer       *)
(* counts down the ticks it was set for, and the tick that finds it at     *)
(* zero calls and drops it.  (A timer set for n ticks is called by the     *)
(* (n+1)-th tick: it may be added just before a tick, and never runs       *)
(* before n whole intervals have passed.)                                  *)
(***************************************************************************)
EXTENDS Integers

CONSTANTS Timers,   \* the timer objects
          Delays    \* numbers of ticks a timer can be set for

VARIABLE count      \* ticks still to go, for each pending timer

Init == count = [t \in {} |-> 0]

Add(t, n) ==
  /\ t \notin DOMAIN count
  /\ count' = [u \in DOMAIN count \cup {t} |-> IF u = t THEN n ELSE count[u]]

Del(t) ==
  /\ t \in DOMAIN count
  /\ count' = [u \in DOMAIN count \ {t} |-> count[u]]

Tick == count' = [u \in {t \in DOMAIN count : count[t] > 0} |-> count[u] - 1]

Next ==
  \/ \E t \in Timers, n \in Delays : Add(t, n)
  \/ \E t \in Timers : Del(t)
  \/ Tick

Spec == Init /\ [][Next]_count
===============================================================================
