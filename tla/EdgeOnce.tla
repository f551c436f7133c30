-------------------------------- MODULE EdgeOnce --------------------------------
(***************************************************************************)
(* What an edge-triggered descriptor promises to a handler that takes one  *)
(* unit (a connection, a datagram, a number) for each event: every event   *)
(* finds a unit, and what arrived without an event of its own, because one *)
(* was pending, is left behind and never made up for.                      *)
(***************************************************************************)
EXTENDS Naturals

VARIABLES queue,     \* units that arrived and were not taken
          edges      \* events reported, or about to be

Init == queue = 0 /\ edges = 0

\* A unit that arrives when an event is about to be reported adds none.
Arrive ==
  /\ queue' = queue + 1
  /\ edges' = edges + 1 \/ (edges > 0 /\ edges' = edges)

Take ==
  /\ edges > 0 /\ queue > 0
  /\ queue' = queue - 1
  /\ edges' = edges - 1

\* The descriptor is closed, and its number used for another.
Reset == queue' = 0 /\ edges' = 0

Next == Arrive \/ Take \/ Reset

Spec == Init /\ [][Next]_<<queue, edges>>
===============================================================================
