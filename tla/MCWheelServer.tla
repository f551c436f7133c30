---------------------------- MODULE MCWheelServer ----------------------------
(***************************************************************************)
(* Instance of WheelServer for TLC: two connections, two addresses and no  *)
(* room in the allocator's cache, so that users[fd].timer can lead to a    *)
(* timer that is deleted, or to that of the other connection, and be used  *)
(* then.  A timer runs at the second tick after it was made.  Once a timer *)
(* was crossed the peers fall silent, which leaves signals and time.       *)
(***************************************************************************)
EXTENDS WheelServer

CONSTANTS f1, f2, a1, a2

MCFds == {f1, f2}
MCAddrs == {a1, a2}
===============================================================================
