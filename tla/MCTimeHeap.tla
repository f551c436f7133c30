------------------------------ MODULE MCTimeHeap ------------------------------
(***************************************************************************)
(* Instance of TimeHeap for TLC.  Four timers from a capacity of 1 reach   *)
(* two resizes (1, 2, 4) and a heap three levels deep, in which            *)
(* percolate_down chooses between two children.                            *)
(***************************************************************************)
EXTENDS TimeHeap

CONSTANTS t1, t2, t3, t4

MCTimers == {t1, t2, t3, t4}
MCTimes == 0 .. 2
===============================================================================
