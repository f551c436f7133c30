------------------------------- MODULE TimeHeap -------------------------------
(***************************************************************************)
(* class time_heap of src/TIMER/heap_timer.h: a binary min-heap of timers  *)
(* ordered by expire, in an array that doubles when it is full.            *)
(*                                                                         *)
(* The sifting loops of add_timer and pop_timer are modelled one iteration *)
(* per step, with the hole they move, so that the invariant of each loop   *)
(* can be stated.  Deletion is lazy: del_timer only clears the callback.   *)
(* Entries of the array at and after cur_size keep the pointers they held, *)
(* which may point to deleted timers; "live" is what has not been deleted. *)
(* A deleted timer's fields, and the locals of a call that has returned,   *)
(* have no meaning any more and are set to 0, FALSE, NULL or {}.           *)
(***************************************************************************)
EXTENDS Integers

CONSTANTS Timers,    \* addresses a timer object can have
          Times,     \* values time(NULL) and expire can take
          InitCap,   \* capacity given to the constructor
          NULL       \* the null pointer

ASSUME TimesAssumption == Times \subseteq Nat
ASSUME InitCapAssumption == InitCap \in Nat \ {0}
ASSUME NULLAssumption == NULL \notin Timers

VARIABLES array,     \* heap_timer** array, with indices from 0
          cur_size,
          capacity,
          expire,    \* timer->expire
          cb,        \* timer->cb_func is not NULL
          live,      \* timers allocated and not yet deleted
          pc,        \* idle, or the loop being executed
          hole,      \* the index a sifting loop is about to fill
          moving,    \* the timer it will put there (timer, temp)
          cur,       \* the time the tick under way read
          called     \* timers whose callback it has called

vars == <<array, cur_size, capacity, expire, cb, live, pc, hole, moving, cur, called>>
heapVars == <<array, cur_size, capacity>>
loopVars == <<pc, hole, moving>>

Parent(i) == (i - 1) \div 2
Left(i)   == 2 * i + 1
Key(i)    == expire[array[i]]

Init ==
  /\ capacity = InitCap
  /\ cur_size = 0
  /\ array = [i \in 0 .. InitCap - 1 |-> NULL]
  /\ expire = [t \in Timers |-> 0]
  /\ cb = [t \in Timers |-> FALSE]
  /\ live = {}
  /\ pc = "idle"
  /\ hole = 0
  /\ moving = NULL
  /\ cur = 0
  /\ called = {}

-------------------------------------------------------------------------------
\* The array after resize(), when add_timer finds it full.
Resized ==
  IF cur_size < capacity THEN array
  ELSE [i \in 0 .. 2 * capacity - 1 |-> IF i < cur_size THEN array[i] ELSE NULL]

\* new heap_timer(delay), its cb_func set, and add_timer up to its loop.
AddTimer(t, e) ==
  /\ pc = "idle"
  /\ t \notin live
  /\ live' = live \cup {t}
  /\ expire' = [expire EXCEPT ![t] = e]
  /\ cb' = [cb EXCEPT ![t] = TRUE]
  /\ array' = Resized
  /\ capacity' = IF cur_size < capacity THEN capacity ELSE 2 * capacity
  /\ hole' = cur_size
  /\ cur_size' = cur_size + 1
  /\ moving' = t
  /\ pc' = "up"
  /\ UNCHANGED <<cur, called>>

\* Mutant: the loop of add_timer stops one index early.
MustRiseNotToRoot == hole > 1 /\ Key(Parent(hole)) > expire[moving]

MustRise == hole > 0 /\ Key(Parent(hole)) > expire[moving]

SiftUp ==
  /\ pc = "up"
  /\ MustRise
  /\ array' = [array EXCEPT ![hole] = array[Parent(hole)]]
  /\ hole' = Parent(hole)
  /\ UNCHANGED <<cur_size, capacity, expire, cb, live, pc, moving, cur, called>>

SiftUpDone ==
  /\ pc = "up"
  /\ ~MustRise
  /\ array' = [array EXCEPT ![hole] = moving]
  /\ pc' = "idle"
  /\ hole' = 0
  /\ moving' = NULL
  /\ UNCHANGED <<cur_size, capacity, expire, cb, live, cur, called>>

\* del_timer, on a timer of the heap.
DelTimer(t) ==
  /\ pc = "idle"
  /\ t \in live
  /\ cb' = [cb EXCEPT ![t] = FALSE]
  /\ UNCHANGED <<heapVars, expire, live, loopVars, cur, called>>

-------------------------------------------------------------------------------
Tick(now) ==
  /\ pc = "idle"
  /\ pc' = "tick"
  /\ cur' = now
  /\ UNCHANGED <<heapVars, expire, cb, live, hole, moving, called>>

\* Mutant: a timer that expires now is not due.
TopIsDueStrict == cur_size > 0 /\ array[0] # NULL /\ Key(0) < cur

TopIsDue == cur_size > 0 /\ array[0] # NULL /\ Key(0) <= cur

\* Mutant: the last entry is read before cur_size is decremented.
TickFireStaleLast ==
  /\ pc = "tick"
  /\ cur_size > 0 /\ array[0] # NULL /\ Key(0) <= cur
  /\ called' = IF cb[array[0]] THEN called \cup {array[0]} ELSE called
  /\ live' = live \ {array[0]}
  /\ expire' = [expire EXCEPT ![array[0]] = 0]
  /\ cb' = [cb EXCEPT ![array[0]] = FALSE]
  /\ moving' = IF cur_size < capacity THEN array[cur_size] ELSE NULL
  /\ array' = [array EXCEPT ![0] = moving']
  /\ cur_size' = cur_size - 1
  /\ hole' = 0
  /\ pc' = "down"
  /\ UNCHANGED <<capacity, cur>>

\* The body of tick's loop up to percolate_down: the callback of the first
\* timer if there is one, then pop_timer, which deletes the timer and moves the
\* last entry of the array to its front.
TickFire ==
  /\ pc = "tick"
  /\ TopIsDue
  /\ called' = IF cb[array[0]] THEN called \cup {array[0]} ELSE called
  /\ live' = live \ {array[0]}
  /\ expire' = [expire EXCEPT ![array[0]] = 0]
  /\ cb' = [cb EXCEPT ![array[0]] = FALSE]
  /\ array' = [array EXCEPT ![0] = array[cur_size - 1]]
  /\ cur_size' = cur_size - 1
  /\ hole' = 0
  /\ moving' = array[cur_size - 1]
  /\ pc' = "down"
  /\ UNCHANGED <<capacity, cur>>

\* The child percolate_down compares with: the earlier one.
MinChild ==
  IF Left(hole) + 1 < cur_size /\ Key(Left(hole) + 1) < Key(Left(hole))
  THEN Left(hole) + 1
  ELSE Left(hole)

MustSink == Left(hole) <= cur_size - 1 /\ Key(MinChild) < expire[moving]

\* Mutant: hole is not advanced.
SiftDownStuck ==
  /\ pc = "down"
  /\ MustSink
  /\ array' = [array EXCEPT ![hole] = array[MinChild]]
  /\ UNCHANGED <<cur_size, capacity, expire, cb, live, pc, hole, moving, cur, called>>

SiftDown ==
  /\ pc = "down"
  /\ MustSink
  /\ array' = [array EXCEPT ![hole] = array[MinChild]]
  /\ hole' = MinChild
  /\ UNCHANGED <<cur_size, capacity, expire, cb, live, pc, moving, cur, called>>

SiftDownDone ==
  /\ pc = "down"
  /\ ~MustSink
  /\ array' = [array EXCEPT ![hole] = moving]
  /\ pc' = "tick"
  /\ hole' = 0
  /\ moving' = NULL
  /\ UNCHANGED <<cur_size, capacity, expire, cb, live, cur, called>>

TickEnd ==
  /\ pc = "tick"
  /\ ~TopIsDue
  /\ pc' = "idle"
  /\ cur' = 0
  /\ called' = {}
  /\ UNCHANGED <<heapVars, expire, cb, live, hole, moving>>

-------------------------------------------------------------------------------
\* The steps a call takes once it has started.
Internal == SiftUp \/ SiftUpDone \/ TickFire \/ SiftDown \/ SiftDownDone \/ TickEnd

Next ==
  \/ \E t \in Timers, e \in Times : AddTimer(t, e)
  \/ SiftUp
  \/ SiftUpDone
  \/ \E t \in Timers : DelTimer(t)
  \/ \E now \in Times : Tick(now)
  \/ TickFire
  \/ SiftDown
  \/ SiftDownDone
  \/ TickEnd

Spec == Init /\ [][Next]_vars

\* A call that has started runs: the code has no wait inside a call.
FairSpec == Spec /\ WF_vars(Internal)

-------------------------------------------------------------------------------
Sifting == pc \in {"up", "down"}
Slots   == 0 .. cur_size - 1
Filled  == IF Sifting THEN Slots \ {hole} ELSE Slots

TypeOK ==
  /\ capacity \in Nat \ {0}
  /\ cur_size \in 0 .. capacity
  /\ array \in [0 .. capacity - 1 -> Timers \cup {NULL}]
  /\ expire \in [Timers -> Nat]
  /\ cb \in [Timers -> BOOLEAN]
  /\ live \in SUBSET Timers
  /\ pc \in {"idle", "up", "tick", "down"}
  /\ hole \in 0 .. capacity - 1
  /\ moving \in Timers \cup {NULL}
  /\ cur \in Nat
  /\ called \in SUBSET Timers

\* No deleted timer is reachable and none is lost: the occupied part of the
\* array, with the timer a loop carries, holds each live timer exactly once.
\* This is what makes the unchecked array[i]->expire of every loop, and the
\* later del_timer of a timer the server still points to, safe.
OnlyLive == \A i \in Filled : array[i] \in live
NoneTwice == \A i, j \in Filled : array[i] = array[j] => i = j
CarriedApart == (Sifting /\ cur_size > 0) =>
                  (moving \in live /\ \A i \in Filled : array[i] # moving)
NoneLost == \A t \in live :
  \/ \E i \in Filled : array[i] = t
  \/ Sifting /\ cur_size > 0 /\ t = moving

HoldsExactlyLive == OnlyLive /\ NoneTwice /\ CarriedApart /\ NoneLost

\* Every timer expires no earlier than its parent, except around the hole of a
\* loop: there the children are no earlier than the parent of the hole, the
\* timer carried up is no later than the children, and the timer carried down
\* is no earlier than the parent.  (The loop invariants of add_timer and
\* percolate_down; between calls this is the heap property.)
HoleInHeap == Sifting => hole \in Slots \/ (pc = "down" /\ hole = 0 /\ cur_size = 0)
OrderElsewhere == \A i \in Slots \ {0} :
                    (Sifting /\ hole \in {i, Parent(i)}) \/ Key(Parent(i)) <= Key(i)
OrderBelowHole == Sifting => \A i \in Slots \ {0} : Parent(i) = hole =>
                    /\ hole > 0 => Key(Parent(hole)) <= Key(i)
                    /\ pc = "up" => expire[moving] <= Key(i)
OrderAboveHole == (pc = "down" /\ hole > 0) => Key(Parent(hole)) <= expire[moving]

HeapOrder == HoleInHeap /\ OrderElsewhere /\ OrderBelowHole /\ OrderAboveHole

\* Between calls, and between two timers of a tick, top() is the earliest timer
\* of all: tick may stop at the first timer that is not due.
TopIsEarliest ==
  (~Sifting /\ cur_size > 0) => \A t \in live : Key(0) <= expire[t]

\* The container keeps the contract of TimerQueue: a tick runs exactly the armed
\* timers that are due, in order of expiry, however adds, lazy deletions,
\* resizes and earlier ticks shaped the array.
Queue == INSTANCE TimerQueue WITH
           due     <- [t \in live |-> expire[t]],
           armed   <- {t \in live : cb[t]},
           ticking <- pc \in {"tick", "down"},
           now     <- cur

QueueSpec == Queue!Spec

\* Every call returns: tick does not spin on a timer it fails to remove, and
\* the sifting loops reach their end.
CallsReturn == (pc # "idle") ~> (pc = "idle")
===============================================================================
