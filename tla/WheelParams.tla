------------------------------ MODULE WheelParams ------------------------------
(***************************************************************************)
(* The parameters of class time_wheel of src/TIMER/tw_timer.h.  (In the    *)
(* program N is 60 and SI is 1.)                                           *)
(***************************************************************************)
EXTENDS Integers, TimerAddresses

CONSTANTS Timeouts,   \* timeouts add_timer is called with
          N,          \* number of slots
          SI          \* seconds between two ticks

ASSUME NAssumption == N \in Nat \ {0}
ASSUME SIAssumption == SI \in Nat \ {0}
ASSUME TimeoutsAssumption == Timeouts \subseteq Int

\* The ticks that make a timeout.
Ticks(timeout) == IF timeout < SI THEN 1 ELSE timeout \div SI
===============================================================================
