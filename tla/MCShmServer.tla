----------------------------- MODULE MCShmServer -----------------------------
(***************************************************************************)
(* Instance of ShmServer for TLC: two pids and room for two users, so that *)
(* the last user is moved to the slot of the first, its old slot is given  *)
(* to a new child while it lives, and a pid is used again.                 *)
(***************************************************************************)
EXTENDS ShmServer

CONSTANTS p1, p2

MCPids == {p1, p2}
===============================================================================
