------------------------------ MODULE LinkedLists ------------------------------
(***************************************************************************)
(* What the lists of src/TIMER/tw_timer.h and lst_timer.h are made of:     *)
(* timers that are linked by their fields next and prev, and allocated and *)
(* deleted.                                                                *)
(***************************************************************************)
EXTENDS TimerAddresses

CONSTANT NULL

ASSUME NULLAssumption == NULL \notin Timers

VARIABLES next, prev,   \* fields of the timers
          live          \* timers allocated and not deleted

\* The members of T reached from p by following n, up to a pointer out of T: the
\* smallest set that has p and the successor of each of its members.
Chain(p, n, T) ==
  {t \in T : \A S \in SUBSET T :
     /\ p \in T => p \in S
     /\ \A u \in S : n[u] \in T => n[u] \in S
     => t \in S}

\* The timers reached from p by following next.
From(p) == Chain(p, next, Timers)
===============================================================================
