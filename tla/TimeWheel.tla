------------------------------- MODULE TimeWheel -------------------------------
(***************************************************************************)
(* class time_wheel of src/TIMER/tw_timer.h with its data structure: each  *)
(* slot is a doubly linked list without a sentinel, and tick walks the     *)
(* list of the current slot, one timer per step, deleting as it goes.      *)
(*                                                                         *)
(* The fields of a deleted timer are set to NULL or 0, and no step may     *)
(* read them (WellLinked).                                                 *)
(***************************************************************************)
EXTENDS WheelParams, LinkedLists

VARIABLES slots,      \* heads of the lists
          time_slot, rotation,   \* further fields of the timers
          cur_slot,
          ticking,    \* tick is in its loop
          tmp         \* the timer the loop is at

vars == <<slots, next, prev, time_slot, rotation, live, cur_slot, ticking, tmp>>

Init ==
  /\ slots = [s \in 0 .. N - 1 |-> NULL]
  /\ next = [t \in Timers |-> NULL]
  /\ prev = [t \in Timers |-> NULL]
  /\ time_slot = [t \in Timers |-> 0]
  /\ rotation = [t \in Timers |-> 0]
  /\ live = {}
  /\ cur_slot = 0
  /\ ticking = FALSE
  /\ tmp = NULL

\* Mutant: the turns are counted from slot 0.
RotationFromZero(ticks) == (cur_slot + ticks) \div N

\* The whole turns of a number of ticks.
Rotation(ticks) == ticks \div N

\* The new timer goes to the front of its slot.
AddTimer(t, timeout) ==
  LET ticks == Ticks(timeout)
      ts == (cur_slot + (ticks % N)) % N
      first == slots[ts]
  IN /\ ~ticking
     /\ t \notin live
     /\ timeout >= 0
     /\ live' = live \cup {t}
     /\ rotation' = [rotation EXCEPT ![t] = Rotation(ticks)]
     /\ time_slot' = [time_slot EXCEPT ![t] = ts]
     /\ next' = [next EXCEPT ![t] = first]
     /\ prev' = IF first = NULL THEN prev ELSE [prev EXCEPT ![first] = t]
     /\ slots' = [slots EXCEPT ![ts] = t]
     /\ UNCHANGED <<cur_slot, ticking, tmp>>

\* Mutant: the successor's prev is not set.
UnlinkOneWay(t, s) ==
  /\ IF slots[s] = t
     THEN slots' = [slots EXCEPT ![s] = next[t]] /\ next' = [next EXCEPT ![t] = NULL]
     ELSE next' = [next EXCEPT ![prev[t]] = next[t], ![t] = NULL] /\ UNCHANGED slots
  /\ prev' = [prev EXCEPT ![t] = NULL]

\* t is taken out of the list of slot s, and deleted.
Unlink(t, s) ==
  /\ IF slots[s] = t
     THEN /\ slots' = [slots EXCEPT ![s] = next[t]]
          /\ prev' = [u \in Timers |-> IF u \in {t, next[t]} THEN NULL ELSE prev[u]]
          /\ next' = [next EXCEPT ![t] = NULL]
     ELSE /\ next' = [next EXCEPT ![prev[t]] = next[t], ![t] = NULL]
          /\ prev' = [u \in Timers |-> IF u = t THEN NULL
                                       ELSE IF u = next[t] THEN prev[t] ELSE prev[u]]
          /\ UNCHANGED slots

Delete(t) ==
  /\ live' = live \ {t}
  /\ time_slot' = [time_slot EXCEPT ![t] = 0]
  /\ rotation' = [rotation EXCEPT ![t] = 0]

DelTimer(t) ==
  /\ ~ticking
  /\ t \in live
  /\ Unlink(t, time_slot[t])
  /\ Delete(t)
  /\ UNCHANGED <<cur_slot, ticking, tmp>>

TickStart ==
  /\ ~ticking
  /\ ticking' = TRUE
  /\ tmp' = slots[cur_slot]
  /\ UNCHANGED <<slots, next, prev, time_slot, rotation, live, cur_slot>>

TickTurn ==
  /\ ticking /\ tmp # NULL
  /\ rotation[tmp] > 0
  /\ rotation' = [rotation EXCEPT ![tmp] = @ - 1]
  /\ tmp' = next[tmp]
  /\ UNCHANGED <<slots, next, prev, time_slot, live, cur_slot, ticking>>

\* Mutant: the walk goes on from the head of the list.
TickFireFromHead ==
  /\ ticking /\ tmp # NULL
  /\ rotation[tmp] = 0
  /\ Unlink(tmp, cur_slot)
  /\ Delete(tmp)
  /\ tmp' = slots'[cur_slot]
  /\ UNCHANGED <<cur_slot, ticking>>

\* Mutant: the walk stays at the deleted timer.
TickFireStays ==
  /\ ticking /\ tmp # NULL
  /\ rotation[tmp] = 0
  /\ IF tmp \in live THEN Unlink(tmp, cur_slot) ELSE UNCHANGED <<slots, next, prev>>
  /\ Delete(tmp)
  /\ UNCHANGED <<cur_slot, ticking, tmp>>

\* The callback runs, and the timer is deleted.
TickFire ==
  /\ ticking /\ tmp # NULL
  /\ rotation[tmp] = 0
  /\ Unlink(tmp, cur_slot)
  /\ Delete(tmp)
  /\ tmp' = next[tmp]
  /\ UNCHANGED <<cur_slot, ticking>>

TickEnd ==
  /\ ticking /\ tmp = NULL
  /\ ticking' = FALSE
  /\ cur_slot' = (cur_slot + 1) % N
  /\ UNCHANGED <<slots, next, prev, time_slot, rotation, live, tmp>>

Loop == TickTurn \/ TickFire \/ TickEnd

Next ==
  \/ \E t \in Timers, timeout \in Timeouts : AddTimer(t, timeout)
  \/ \E t \in Timers : DelTimer(t)
  \/ TickStart
  \/ TickTurn
  \/ TickFire
  \/ TickEnd

Spec == Init /\ [][Next]_vars
FairSpec == Spec /\ WF_vars(Loop)

-------------------------------------------------------------------------------
TypeOK ==
  /\ slots \in [0 .. N - 1 -> Timers \cup {NULL}]
  /\ next \in [Timers -> Timers \cup {NULL}]
  /\ prev \in [Timers -> Timers \cup {NULL}]
  /\ time_slot \in [Timers -> 0 .. N - 1]
  /\ rotation \in [Timers -> Nat]
  /\ live \in SUBSET Timers
  /\ cur_slot \in 0 .. N - 1
  /\ ticking \in BOOLEAN
  /\ tmp \in Timers \cup {NULL}

\* The lists hold each timer that is not deleted in its own slot, can be
\* followed in both directions, and lead to no deleted timer; so does the walk
\* of tick, whatever it deletes.
WellLinked ==
  /\ TypeOK
  /\ \A s \in 0 .. N - 1 :
       /\ From(slots[s]) = {t \in live : time_slot[t] = s}
       /\ slots[s] # NULL => prev[slots[s]] = NULL
  /\ \A t \in live :
       /\ next[t] # NULL => prev[next[t]] = t
       /\ prev[t] # NULL => next[prev[t]] = t
  /\ tmp # NULL => tmp \in From(slots[cur_slot])

\* The lists implement the sets of WheelSlots.  The walk of a tick takes effect
\* at its first step: what it has still to visit is read as already visited.
Rest == IF ticking THEN From(tmp) ELSE {}
Kept == {t \in live : t \in Rest => rotation[t] > 0}

Sets == INSTANCE WheelSlots WITH
          current <- IF ticking THEN (cur_slot + 1) % N ELSE cur_slot,
          slotOf  <- [t \in Kept |-> time_slot[t]],
          turns   <- [t \in Kept |-> IF t \in Rest THEN rotation[t] - 1 ELSE rotation[t]]

SlotsSpec == Sets!WheelSpec

\* The ticks a timer still waits for, as its slot and rotation have it: a turn more when
\* the tick that walks has passed it, and that tick itself is over.
TicksToGo(t, passed) ==
  LET turns == rotation[t] + (IF passed THEN 1 ELSE 0)
  IN ((time_slot[t] - cur_slot + N) % N) + turns * N - (IF ticking THEN 1 ELSE 0)

Counts == INSTANCE Countdown WITH
            Delays <- {Ticks(timeout) : timeout \in {x \in Timeouts : x >= 0}},
            count  <- LET rest == Rest
                          passed == {t \in live \ rest : ticking /\ time_slot[t] = cur_slot}
                          kept == live \ {t \in rest : rotation[t] = 0}
                      IN [t \in kept |-> TicksToGo(t, t \in passed)]

\* A timer is called by the tick that its timeout asks for, neither a slot nor a turn
\* early or late, wherever the wheel stood when it was added.
CountdownSpec == Counts!Spec

\* tick comes to the end of the list.
TickReturns == ticking ~> ~ticking
===============================================================================
