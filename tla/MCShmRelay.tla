------------------------------- MODULE MCShmRelay -------------------------------
(***************************************************************************)
(* Instance of ShmRelay for TLC: with two children and two slots, one that *)
(* was moved to the slot of a child that left can already get a twin.      *)
(***************************************************************************)
EXTENDS ShmRelay, TLC

CONSTANTS p1, p2

MCPids == {p1, p2}
Symmetry == Permutations(MCPids)
===============================================================================
