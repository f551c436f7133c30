----------------------------- MODULE MCHeapServer -----------------------------
(***************************************************************************)
(* Instance of HeapServer for TLC: the constants of the program            *)
(* (TIMESLOT 1, timers of 3 * TIMESLOT), two descriptors, so that one is   *)
(* closed and reused while the other is active, and four timer addresses,  *)
(* so that lazily deleted timers are still in the heap when their          *)
(* connection has a new one.                                               *)
(***************************************************************************)
EXTENDS HeapServer, TLC

CONSTANTS f1, f2, a1, a2, a3, a4

MCFds == {f1, f2}
MCAddrs == {a1, a2, a3, a4}

Symmetry == Permutations(MCFds) \cup Permutations(MCAddrs)
===============================================================================
