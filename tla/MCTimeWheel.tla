------------------------------ MODULE MCTimeWheel ------------------------------
(***************************************************************************)
(* Instance of TimeWheel for TLC.  Four timers in three slots give lists   *)
(* of four, with deletions at the head, in the middle and at the end, by      *)
(* del_timer and by tick; timeouts of up to two turns give walks that skip *)
(* some timers and delete others.                                          *)
(***************************************************************************)
EXTENDS TimeWheel

CONSTANTS t1, t2, t3, t4

MCTimers == {t1, t2, t3, t4}
MCTimeouts == {0, 2, 3, 4, 7}
===============================================================================
