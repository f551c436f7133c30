----------------------------- MODULE SortTimerLst -----------------------------
(***************************************************************************)
(* class sort_timer_lst of src/TIMER/lst_timer.h: a doubly linked list of  *)
(* timers in ascending order of expire, as close_unactive_sock.c uses it.  *)
(* The walk of the private add_timer and that of tick take one timer per   *)
(* step.                                                                   *)
(*                                                                         *)
(* Deleted timers are memory that may be anything: a step that reads or    *)
(* writes one ends the run of the model (wild), and their fields, which no *)
(* other step looks at, are cleared in the model.  A new timer may have    *)
(* any address that is free, so also that of a timer deleted before.       *)
(***************************************************************************)
EXTENDS Integers, LinkedLists

CONSTANTS MaxTime,  \* bound: the time runs from 0 to MaxTime
          Delays    \* seconds from the present for which expire is set

ASSUME DelaysAssumption == Delays \subseteq Nat
ASSUME MaxTimeAssumption == MaxTime \in Nat

VARIABLES head, tail,
          expire,  \* a further field of the timers
          now,
          pc,      \* "idle"; "insert", "tick": in the loop of add_timer, of tick
          timer,   \* the timer to insert
          at,      \* prev of add_timer: the timer the walk is at
          wild,    \* a deleted timer has been read or written
          cut      \* history: del_timer was called on the tail of a longer list

fields == <<next, prev, expire>>
listVars == <<head, tail, fields, live, now, pc, timer, at, wild, cut>>

ListInit ==
  /\ head = NULL /\ tail = NULL
  /\ next = [t \in Timers |-> NULL]
  /\ prev = [t \in Timers |-> NULL]
  /\ expire = [t \in Timers |-> 0]
  /\ live = {}
  /\ now = 0
  /\ pc = "idle" /\ timer = NULL /\ at = NULL
  /\ wild = FALSE /\ cut = FALSE

Idle == pc = "idle" /\ ~wild

\* Memory that is not a timer is accessed: nothing is known from here on.
GoWild ==
  /\ wild' = TRUE
  /\ UNCHANGED <<head, tail, fields, live, now, pc, timer, at, cut>>

-------------------------------------------------------------------------------
\* add_timer(timer, lst_head) starts its walk at lst_head.
StartInsert(t, lst_head) ==
  /\ pc' = "insert"
  /\ timer' = t
  /\ at' = lst_head

\* A new timer: the constructor clears the links, and expire is set.
Allocate(t, due) ==
  /\ Idle
  /\ t \in Timers \ live
  /\ live' = live \cup {t}
  /\ expire' = [expire EXCEPT ![t] = due]

AddFirst(t, due) ==
  /\ Allocate(t, due)
  /\ head = NULL
  /\ head' = t /\ tail' = t
  /\ next' = [next EXCEPT ![t] = NULL]
  /\ prev' = [prev EXCEPT ![t] = NULL]
  /\ UNCHANGED <<now, pc, timer, at, wild, cut>>

AddInFront(t, due) ==
  /\ Allocate(t, due)
  /\ head \in live
  /\ due < expire[head]
  /\ next' = [next EXCEPT ![t] = head]
  /\ prev' = [prev EXCEPT ![t] = NULL, ![head] = t]
  /\ head' = t
  /\ UNCHANGED <<tail, now, pc, timer, at, wild, cut>>

AddFurther(t, due) ==
  /\ Allocate(t, due)
  /\ head \in live
  /\ due >= expire[head]
  /\ next' = [next EXCEPT ![t] = NULL]
  /\ prev' = [prev EXCEPT ![t] = NULL]
  /\ StartInsert(t, head)
  /\ UNCHANGED <<head, tail, now, wild, cut>>

AddAtDeletedHead == Idle /\ head # NULL /\ head \notin live /\ GoWild

-------------------------------------------------------------------------------
\* The loop of add_timer(timer, lst_head).
InsertWalk ==
  LET tmp == next[at]
  IN /\ pc = "insert" /\ ~wild
     /\ tmp \in live
     /\ expire[tmp] <= expire[timer]
     /\ at' = tmp
     /\ UNCHANGED <<head, tail, fields, live, now, pc, timer, wild, cut>>

InsertBefore ==
  LET tmp == next[at]
  IN /\ pc = "insert" /\ ~wild
     /\ tmp \in live
     /\ expire[tmp] > expire[timer]
     /\ next' = [next EXCEPT ![at] = timer, ![timer] = tmp]
     /\ prev' = [prev EXCEPT ![timer] = at, ![tmp] = timer]
     /\ pc' = "idle" /\ timer' = NULL /\ at' = NULL
     /\ UNCHANGED <<head, tail, expire, live, now, wild, cut>>

\* Mutant: tail stays where it was.
InsertLastKeepsTail ==
  /\ pc = "insert" /\ ~wild
  /\ next[at] = NULL
  /\ next' = [next EXCEPT ![at] = timer, ![timer] = NULL]
  /\ prev' = [prev EXCEPT ![timer] = at]
  /\ pc' = "idle" /\ timer' = NULL /\ at' = NULL
  /\ UNCHANGED <<head, tail, expire, live, now, wild, cut>>

InsertLast ==
  /\ pc = "insert" /\ ~wild
  /\ next[at] = NULL
  /\ next' = [next EXCEPT ![at] = timer, ![timer] = NULL]
  /\ prev' = [prev EXCEPT ![timer] = at]
  /\ tail' = timer
  /\ pc' = "idle" /\ timer' = NULL /\ at' = NULL
  /\ UNCHANGED <<head, expire, live, now, wild, cut>>

InsertAtDeleted == pc = "insert" /\ ~wild /\ next[at] \notin live \cup {NULL} /\ GoWild

-------------------------------------------------------------------------------
\* adjust_timer, called with a timer whose expire was put off.
PutOff(t, due) ==
  /\ Idle
  /\ t \in live
  /\ due >= expire[t]
  /\ expire' = [expire EXCEPT ![t] = due]
  /\ UNCHANGED <<live, now, wild, cut>>

AdjustStays(t, due) ==
  /\ PutOff(t, due)
  /\ \/ next[t] = NULL
     \/ next[t] \in live /\ due < expire'[next[t]]
  /\ UNCHANGED <<head, tail, next, prev, pc, timer, at>>

\* The new head is not NULL: it was the second timer.
AdjustHead(t, due) ==
  /\ PutOff(t, due)
  /\ next[t] \in live /\ due >= expire'[next[t]]
  /\ t = head
  /\ head' = next[t]
  /\ next' = [next EXCEPT ![t] = NULL]
  /\ prev' = [prev EXCEPT ![next[t]] = NULL]
  /\ StartInsert(t, next[t])
  /\ UNCHANGED tail

\* Mutant: the timer after it is not linked back.
AdjustMiddleOneWay(t, due) ==
  /\ PutOff(t, due)
  /\ next[t] \in live /\ due >= expire'[next[t]]
  /\ t # head
  /\ prev[t] \in live
  /\ next' = [next EXCEPT ![prev[t]] = next[t]]
  /\ StartInsert(t, next[t])
  /\ UNCHANGED <<head, tail, prev>>

AdjustMiddle(t, due) ==
  /\ PutOff(t, due)
  /\ next[t] \in live /\ due >= expire'[next[t]]
  /\ t # head
  /\ prev[t] \in live
  /\ next' = [next EXCEPT ![prev[t]] = next[t]]
  /\ prev' = [prev EXCEPT ![next[t]] = prev[t]]
  /\ StartInsert(t, next[t])
  /\ UNCHANGED <<head, tail>>

\* timer->next, or timer->prev when it is needed, is not a timer.
AdjustAtDeleted(t, due) ==
  /\ Idle
  /\ t \in live
  /\ due >= expire[t]
  /\ \/ next[t] \notin live \cup {NULL}
     \/ next[t] \in live /\ due >= expire[next[t]] /\ t # head /\ prev[t] \notin live
  /\ GoWild

-------------------------------------------------------------------------------
\* del_timer.
Deleted(t) ==
  /\ Idle
  /\ t \in live
  /\ live' = live \ {t}
  /\ expire' = [expire EXCEPT ![t] = 0]
  /\ UNCHANGED <<now, pc, timer, at, wild>>

DelOnly(t) ==
  /\ Deleted(t)
  /\ t = head /\ t = tail
  /\ head' = NULL /\ tail' = NULL
  /\ next' = [next EXCEPT ![t] = NULL]
  /\ prev' = [prev EXCEPT ![t] = NULL]
  /\ UNCHANGED cut

DelHead(t) ==
  /\ Deleted(t)
  /\ t = head /\ t # tail
  /\ head' = next[t]
  /\ next' = [next EXCEPT ![t] = NULL]
  /\ prev' = [prev EXCEPT ![t] = NULL]
  /\ UNCHANGED <<tail, cut>>

\* The timer before it still points to it.
DelTail(t) ==
  /\ Deleted(t)
  /\ t # head /\ t = tail
  /\ tail' = prev[t]
  /\ cut' = TRUE
  /\ next' = [next EXCEPT ![t] = NULL]
  /\ prev' = [prev EXCEPT ![t] = NULL]
  /\ UNCHANGED head

DelMiddle(t) ==
  /\ Deleted(t)
  /\ t # head /\ t # tail
  /\ {prev[t], next[t]} \subseteq live
  /\ next' = [next EXCEPT ![prev[t]] = next[t], ![t] = NULL]
  /\ prev' = [prev EXCEPT ![next[t]] = prev[t], ![t] = NULL]
  /\ UNCHANGED <<head, tail, cut>>

DelAtDeleted(t) ==
  /\ Idle
  /\ t \in live /\ t # head /\ t # tail
  /\ ~ {prev[t], next[t]} \subseteq live
  /\ GoWild

-------------------------------------------------------------------------------
\* tick, with the time it read at its start.
ListTickStart ==
  /\ Idle
  /\ head # NULL
  /\ pc' = "tick"
  /\ UNCHANGED <<head, tail, fields, live, now, timer, at, wild, cut>>

\* Mutant: a timer that expires now is left for the next tick.
TickIsOverStrict == head = NULL \/ (head \in live /\ expire[head] >= now)

TickIsOver == head = NULL \/ (head \in live /\ expire[head] > now)

ListTickEnd ==
  /\ pc = "tick" /\ ~wild
  /\ TickIsOver
  /\ pc' = "idle"
  /\ UNCHANGED <<head, tail, fields, live, now, timer, at, wild, cut>>

\* Mutant: the loop does not go on to the next timer.
ListTickFireStays ==
  /\ pc = "tick" /\ ~wild
  /\ head \in live /\ ~TickIsOver
  /\ UNCHANGED listVars

\* cb_func is called, and the timer is deleted.
ListTickFire ==
  /\ pc = "tick" /\ ~wild
  /\ head \in live /\ ~TickIsOver
  /\ next[head] \in live \cup {NULL}
  /\ head' = next[head]
  /\ next' = [next EXCEPT ![head] = NULL]
  /\ prev' = [t \in Timers |-> IF t \in {head, next[head]} THEN NULL ELSE prev[t]]
  /\ expire' = [expire EXCEPT ![head] = 0]
  /\ live' = live \ {head}
  /\ UNCHANGED <<tail, now, pc, timer, at, wild, cut>>

TickAtDeleted ==
  /\ pc = "tick" /\ ~wild
  /\ \/ head \notin live \cup {NULL}
     \/ head \in live /\ ~TickIsOver /\ next[head] \notin live \cup {NULL}
  /\ GoWild

\* time(NULL)
Second ==
  /\ Idle
  /\ now < MaxTime
  /\ now' = now + 1
  /\ UNCHANGED <<head, tail, fields, live, pc, timer, at, wild, cut>>

-------------------------------------------------------------------------------
ListLoop ==
  \/ InsertWalk \/ InsertBefore \/ InsertLast \/ InsertAtDeleted
  \/ ListTickEnd \/ ListTickFire \/ TickAtDeleted

ListNext ==
  \/ \E t \in Timers, due \in {now + delay : delay \in Delays} :
       \/ AddFirst(t, due) \/ AddInFront(t, due) \/ AddFurther(t, due)
       \/ AdjustStays(t, due) \/ AdjustHead(t, due) \/ AdjustMiddle(t, due)
       \/ AdjustAtDeleted(t, due)
  \/ AddAtDeletedHead
  \/ \E t \in Timers :
       DelOnly(t) \/ DelHead(t) \/ DelTail(t) \/ DelMiddle(t) \/ DelAtDeleted(t)
  \/ ListTickStart
  \/ Second
  \/ ListLoop

ListSpec == ListInit /\ [][ListNext]_listVars
FairListSpec == ListSpec /\ WF_listVars(ListLoop)

-------------------------------------------------------------------------------
Pointers == Timers \cup {NULL}

ListTypeOK ==
  /\ head \in Pointers /\ tail \in Pointers
  /\ next \in [Timers -> Pointers]
  /\ prev \in [Timers -> Pointers]
  /\ expire \in [Timers -> Nat]
  /\ live \in SUBSET Timers
  /\ now \in 0 .. MaxTime
  /\ pc \in {"idle", "insert", "tick"}
  /\ timer \in Pointers /\ at \in Pointers
  /\ pc = "insert" => at \in live /\ timer \in live
  /\ wild \in BOOLEAN /\ cut \in BOOLEAN

Listed == IF pc = "insert" THEN live \ {timer} ELSE live

\* Until the tail of a longer list is deleted, the list holds exactly the live
\* timers in order of expire, is linked in both directions (the first timer's
\* prev is not used), tail is its last, the walk of an insertion is at a timer
\* that goes before the new one, and no deleted timer is touched.
SortedList ==
  /\ ListTypeOK
  /\ ~cut =>
       /\ ~wild
       /\ From(head) = Listed
       /\ \A t \in Listed : next[t] # NULL => prev[next[t]] = t /\ expire[t] <= expire[next[t]]
       /\ head # NULL => tail \in Listed /\ next[tail] = NULL
       /\ pc = "insert" => at \in Listed /\ expire[at] <= expire[timer]

\* Until then, tick runs the timers that are due, the earliest first, and leaves
\* none that is due.
TickRunsTheDue ==
  [][pc = "tick" /\ ~cut =>
       /\ \A t \in live \ live' : expire[t] <= now /\ \A u \in live : expire[t] <= expire[u]
       /\ pc' = "idle" => \A t \in live : expire[t] > now]_listVars

\* Until then, the walks end.
WalksEnd == (pc # "idle") ~> (pc = "idle" \/ cut)

\* The list holds each timer that was made and not deleted.
EveryTimerInList == Idle => live \subseteq From(head)
===============================================================================
