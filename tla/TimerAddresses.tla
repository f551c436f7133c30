---------------------------- MODULE TimerAddresses ----------------------------
(***************************************************************************)
(* The timers of src/TIMER/tw_timer.h and lst_timer.h are known by their   *)
(* addresses.                                                              *)
(***************************************************************************)

CONSTANT Timers   \* addresses a timer can have
===============================================================================
