---------------------------- MODULE MCSortTimerLst ----------------------------
(***************************************************************************)
(* Instance of SortTimerLst for TLC: three timers, so that one can be      *)
(* moved from between two others and past the last, and three times, so    *)
(* that timers are before, with and after each other.  How a timer is lost *)
(* is shown with the one delay that the server uses.                       *)
(***************************************************************************)
EXTENDS SortTimerLst, TLC

CONSTANTS t1, t2, t3

MCTimers == {t1, t2, t3}
MCDelays == {0, 1, 2}
ServerDelays == {1}
Symmetry == Permutations(MCTimers)
===============================================================================
