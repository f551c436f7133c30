----------------------------- MODULE MCEpollServers -----------------------------
(***************************************************************************)
(* Instance of EpollServers for TLC: two connections, so that one can be   *)
(* starved by the other and a descriptor can be used again while the other *)
(* one is handled.                                                         *)
(***************************************************************************)
EXTENDS EpollServers

CONSTANTS f1, f2

MCFds == {f1, f2}
===============================================================================
