------------------------------ MODULE WheelSlots ------------------------------
(***************************************************************************)
(* The arithmetic of class time_wheel of src/TIMER/tw_timer.h: in which    *)
(* slot a timer is put, and for how many turns of the wheel it stays.  A   *)
(* slot is the set of its timers, and a tick is one step; TimeWheel has    *)
(* the lists and the loop, and implements this module.                     *)
(***************************************************************************)
EXTENDS WheelParams

VARIABLES current,    \* the slot the next tick looks at
          slotOf,     \* the slot of each timer: its domain is the timers in the wheel
          turns       \* turns a timer still has to wait

wheelVars == <<current, slotOf, turns>>

inWheel == DOMAIN slotOf

WheelInit ==
  /\ current = 0
  /\ slotOf = [t \in {} |-> 0]
  /\ turns = [t \in {} |-> 0]

SlotAfter(ticks) == (current + (ticks % N)) % N

Put(t, timeout) ==
  /\ t \notin inWheel
  /\ timeout >= 0
  /\ slotOf' = [u \in inWheel \cup {t} |-> IF u = t THEN SlotAfter(Ticks(timeout)) ELSE slotOf[u]]
  /\ turns' = [u \in inWheel \cup {t} |-> IF u = t THEN Ticks(timeout) \div N ELSE turns[u]]
  /\ UNCHANGED current

Take(t) ==
  /\ t \in inWheel
  /\ slotOf' = [u \in inWheel \ {t} |-> slotOf[u]]
  /\ turns' = [u \in inWheel \ {t} |-> turns[u]]
  /\ UNCHANGED current

\* The timers of the slot wait one turn less, or are called and dropped.
Expired == {t \in inWheel : slotOf[t] = current /\ turns[t] = 0}

Tick ==
  /\ slotOf' = [t \in inWheel \ Expired |-> slotOf[t]]
  /\ turns' = [t \in inWheel \ Expired |->
                IF slotOf[t] = current THEN turns[t] - 1 ELSE turns[t]]
  /\ current' = (current + 1) % N

WheelNext ==
  \/ \E t \in Timers, timeout \in Timeouts : Put(t, timeout)
  \/ \E t \in Timers : Take(t)
  \/ Tick

WheelSpec == WheelInit /\ [][WheelNext]_wheelVars

-------------------------------------------------------------------------------
WheelTypeOK ==
  /\ current \in 0 .. N - 1
  /\ inWheel \subseteq Timers
  /\ slotOf \in [inWheel -> 0 .. N - 1]
  /\ turns \in [inWheel -> Nat]

\* Slots from the current one to the timer's.
Distance(t) == IF slotOf[t] >= current THEN slotOf[t] - current
                                           ELSE slotOf[t] - current + N

Remaining(t) == Distance(t) + turns[t] * N

\* A slot and a number of turns together are a count of ticks: a timer runs after
\* the ticks its timeout asks for, neither a turn early nor a turn late.
Count == INSTANCE Countdown WITH
           Delays <- {Ticks(timeout) : timeout \in {x \in Timeouts : x >= 0}},
           count  <- [t \in inWheel |-> Remaining(t)]

CountSpec == Count!Spec
===============================================================================
