---------------------------- MODULE MCOneshotServer ----------------------------
(***************************************************************************)
(* Instance of OneshotServer for TLC: two connections, so that the struct  *)
(* on main's stack can be filled for one while the worker of the other has *)
(* not read it, and three workers, so that main never waits for one while  *)
(* each connection has its own.                                            *)
(***************************************************************************)
EXTENDS OneshotServer

CONSTANTS f1, f2, w1, w2, w3

MCFds == {f1, f2}
MCWorkers == {w1, w2, w3}
===============================================================================
