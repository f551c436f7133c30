------------------------------ MODULE MCPollChat ------------------------------
(***************************************************************************)
(* Instance of PollChat for TLC: a room for two, so that there is an entry *)
(* to move when a client leaves, a descriptor to use again, and newcomers  *)
(* to refuse.  Clients come, send and go without a bound.                  *)
(***************************************************************************)
EXTENDS PollChat
===============================================================================
