---------------------------- MODULE TimeHeapProofs ----------------------------
(***************************************************************************)
(* Proofs about TimeHeap, for any set of timers, any set of times and any  *)
(* initial capacity.                                                       *)
(***************************************************************************)
EXTENDS TimeHeap, WellFoundedInduction, TLAPS

\* The array indices of a heap form a tree: the parent of an index, and the
\* indices that have it as their parent.
LEMMA ParentOfIndex ==
  ASSUME NEW i \in Nat \ {0}
  PROVE  /\ Parent(i) \in Nat
         /\ Parent(i) < i
         /\ i = 2 * Parent(i) + 1 \/ i = 2 * Parent(i) + 2
  BY DEF Parent

\* The children of p, as percolate_down has them.
LEMMA ChildrenOfIndex ==
  ASSUME NEW p \in Nat
  PROVE  Parent(2 * p + 1) = p /\ Parent(2 * p + 2) = p
  BY DEF Parent

\* A non-empty set of natural numbers has a least element.
Less == {pair \in Nat \X Nat : pair[1] < pair[2]}

\* The order of the natural numbers, as a set of pairs, is well-founded.
LEMMA LessIsWellFounded == IsWellFoundedOn(Less, Nat)
  BY NatLessThanWellFounded, Zenon DEF OpToRel, Less

\* A non-empty set of natural numbers has a least element.
LEMMA LeastNat ==
  ASSUME NEW S \in SUBSET Nat, S # {}
  PROVE  \E x \in S : \A y \in S : x <= y
<1>1. PICK x \in S : \A y \in S : ~(<<y, x>> \in Less)
  BY LessIsWellFounded, WFMin, Zenon
<1>2. \A y \in S : ~(y < x)
  BY <1>1 DEF Less
<1>. QED
  BY <1>2

-------------------------------------------------------------------------------
\* The state stays well typed: no index leaves the array, whose size follows
\* capacity through every resize() (add_timer, pop_timer, percolate_down).
THEOREM TypeCorrect == Spec => []TypeOK
<1>1. Init => TypeOK
  BY InitCapAssumption DEF Init, TypeOK
<1>2. TypeOK /\ [Next]_vars => TypeOK'
  <2> SUFFICES ASSUME TypeOK, [Next]_vars
               PROVE  TypeOK'
    OBVIOUS
  <2> USE DEF TypeOK
  <2>1. ASSUME NEW t \in Timers, NEW e \in Times, AddTimer(t, e)
        PROVE  TypeOK'
    BY <2>1, TimesAssumption DEF AddTimer, Resized
  <2>2. CASE SiftUp
    BY <2>2, ParentOfIndex DEF SiftUp, MustRise
  <2>3. CASE SiftUpDone
    BY <2>3 DEF SiftUpDone
  <2>4. ASSUME NEW t \in Timers, DelTimer(t)
        PROVE  TypeOK'
    BY <2>4 DEF DelTimer, heapVars, loopVars
  <2>5. ASSUME NEW now \in Times, Tick(now)
        PROVE  TypeOK'
    BY <2>5, TimesAssumption DEF Tick, heapVars
  <2>6. CASE TickFire
    BY <2>6 DEF TickFire, TopIsDue
  <2>7. CASE SiftDown
    BY <2>7 DEF SiftDown, MustSink, MinChild, Left
  <2>8. CASE SiftDownDone
    BY <2>8 DEF SiftDownDone
  <2>9. CASE TickEnd
    BY <2>9 DEF TickEnd, heapVars
  <2>10. CASE UNCHANGED vars
    BY <2>10 DEF vars
  <2>. QED
    BY <2>1, <2>2, <2>3, <2>4, <2>5, <2>6, <2>7, <2>8, <2>9, <2>10 DEF Next
<1>. QED
  BY <1>1, <1>2, PTL DEF Spec

-------------------------------------------------------------------------------
\* The inductive invariant.
Inv == TypeOK /\ HoldsExactlyLive /\ HeapOrder

\* A loop moves its hole to a filled slot k, and the timer of k into the hole.
MovesHoleTo(k) ==
  /\ array' = [array EXCEPT ![hole] = array[k]]
  /\ hole' = k
  /\ UNCHANGED <<cur_size, capacity, expire, live, pc, moving>>

\* A loop ends: the timer it carries is put into the hole.
FillsHole ==
  /\ array' = [array EXCEPT ![hole] = moving]
  /\ pc' \in {"idle", "tick"}
  /\ UNCHANGED <<cur_size, capacity, expire, live>>

\* An iteration of add_timer's loop puts the parent into the hole.
LEMMA SiftUpMovesHole ==
  ASSUME Inv, SiftUp
  PROVE  /\ hole \in Slots /\ hole > 0 /\ Parent(hole) \in Filled
         /\ MovesHoleTo(Parent(hole))
  BY ParentOfIndex
     DEF Inv, TypeOK, HeapOrder, HoleInHeap, SiftUp, MustRise, MovesHoleTo, Filled, Slots, Sifting

\* An iteration of percolate_down puts the earlier child into the hole.
LEMMA SiftDownMovesHole ==
  ASSUME Inv, SiftDown
  PROVE  /\ hole \in Slots /\ MinChild \in Filled
         /\ Parent(MinChild) = hole
         /\ MovesHoleTo(MinChild)
<1>1. hole \in Nat /\ cur_size \in Nat /\ 2 * hole + 1 <= cur_size - 1 /\ pc = "down"
  BY DEF Inv, TypeOK, SiftDown, MustSink, Left
<1>2. MinChild = 2 * hole + 1 \/ (MinChild = 2 * hole + 2 /\ 2 * hole + 2 <= cur_size - 1)
  BY <1>1 DEF MinChild, Left
<1>3. MinChild \in Filled /\ hole \in Slots
  BY <1>1, <1>2 DEF Filled, Slots
<1>4. Parent(MinChild) = hole
  BY <1>1, <1>2, ChildrenOfIndex
<1>5. MovesHoleTo(MinChild)
  BY DEF SiftDown, MovesHoleTo
<1>. QED
  BY <1>3, <1>4, <1>5

\* Moving the hole loses no timer and doubles none.
LEMMA MovingHoleKeepsContents ==
  ASSUME Inv, Sifting, hole \in Slots, NEW k \in Filled, MovesHoleTo(k)
  PROVE  HoldsExactlyLive'
<1>1. /\ Filled = Slots \ {hole}
      /\ Filled' = Slots \ {k}
      /\ Sifting' /\ moving' = moving /\ live' = live /\ cur_size' = cur_size
      /\ k \in Slots /\ k # hole /\ cur_size > 0
  BY DEF MovesHoleTo, Filled, Slots, Sifting, Inv, TypeOK
<1>2. \A i \in Slots : array'[i] = IF i = hole THEN array[k] ELSE array[i]
  BY DEF MovesHoleTo, Inv, TypeOK, Slots
<1>3. OnlyLive'
  BY <1>1, <1>2 DEF OnlyLive, Inv, HoldsExactlyLive
<1>4. NoneTwice'
  BY <1>1, <1>2 DEF NoneTwice, Inv, HoldsExactlyLive
<1>5. CarriedApart'
  BY <1>1, <1>2 DEF CarriedApart, Inv, HoldsExactlyLive
<1>6. NoneLost'
  <2>1. SUFFICES ASSUME NEW t \in live, t # moving
                 PROVE  \E i \in Slots \ {k} : array'[i] = t
    BY <1>1 DEF NoneLost
  <2>2. PICK i \in Slots \ {hole} : array[i] = t
    BY <1>1, <2>1 DEF NoneLost, Inv, HoldsExactlyLive
  <2>3. CASE i = k
    BY <1>1, <1>2, <2>2, <2>3
  <2>4. CASE i # k
    BY <1>1, <1>2, <2>2, <2>4
  <2>. QED
    BY <2>3, <2>4
<1>. QED
  BY <1>3, <1>4, <1>5, <1>6 DEF HoldsExactlyLive

\* Putting the carried timer into the hole loses no timer and doubles none.
LEMMA FillingHoleKeepsContents ==
  ASSUME Inv, Sifting, FillsHole
  PROVE  HoldsExactlyLive'
<1>1. /\ Filled = Slots \ {hole}
      /\ Filled' = Slots
      /\ ~Sifting' /\ live' = live /\ cur_size' = cur_size
  BY DEF FillsHole, Filled, Slots, Sifting
<1>2. \A i \in Slots : array'[i] = IF i = hole THEN moving ELSE array[i]
  BY DEF FillsHole, Inv, TypeOK, Slots
<1>3. CASE hole \in Slots
  <2>1. cur_size > 0
    BY <1>3 DEF Inv, TypeOK, Slots
  <2>2. OnlyLive' /\ NoneTwice' /\ CarriedApart'
    BY <1>1, <1>2, <2>1 DEF OnlyLive, NoneTwice, CarriedApart, Inv, HoldsExactlyLive
  <2>3. NoneLost'
    BY <1>1, <1>2, <1>3 DEF NoneLost, Inv, HoldsExactlyLive
  <2>. QED
    BY <2>2, <2>3 DEF HoldsExactlyLive
<1>4. CASE hole \notin Slots
  <2>1. cur_size = 0 /\ Slots = {}
    BY <1>4 DEF Inv, HeapOrder, HoleInHeap, Slots
  <2>2. live = {}
    BY <1>1, <2>1 DEF NoneLost, Inv, HoldsExactlyLive
  <2>. QED
    BY <1>1, <2>1, <2>2 DEF HoldsExactlyLive, OnlyLive, NoneTwice, CarriedApart, NoneLost
<1>. QED
  BY <1>3, <1>4

\* What every step preserves of the relation between the array and the
\* allocated timers.
LEMMA ContentsStep ==
  ASSUME Inv, [Next]_vars
  PROVE  HoldsExactlyLive'
<1> USE DEF Inv
<1>1. ASSUME NEW t \in Timers, NEW e \in Times, AddTimer(t, e)
      PROVE  HoldsExactlyLive'
  <2>1. /\ Filled = Slots /\ ~Sifting
        /\ Filled' = Slots
        /\ live' = live \cup {t} /\ moving' = t /\ t \notin live
        /\ Sifting' /\ cur_size' > 0
    BY <1>1 DEF AddTimer, Filled, Slots, Sifting, TypeOK
  <2>2. \A i \in Slots : array'[i] = array[i]
    BY <1>1 DEF AddTimer, Resized, TypeOK, Slots
  <2>. QED
    BY <2>1, <2>2 DEF HoldsExactlyLive, OnlyLive, NoneTwice, CarriedApart, NoneLost
<1>2. CASE SiftUp
  BY <1>2, SiftUpMovesHole, MovingHoleKeepsContents DEF SiftUp, Sifting
<1>3. CASE SiftUpDone
  BY <1>3, FillingHoleKeepsContents DEF SiftUpDone, FillsHole, Sifting
<1>4. ASSUME NEW t \in Timers, DelTimer(t)
      PROVE  HoldsExactlyLive'
  BY <1>4 DEF DelTimer, heapVars, loopVars, HoldsExactlyLive, OnlyLive, NoneTwice,
              CarriedApart, NoneLost, Filled, Slots, Sifting
<1>5. ASSUME NEW now \in Times, Tick(now)
      PROVE  HoldsExactlyLive'
  BY <1>5 DEF Tick, heapVars, HoldsExactlyLive, OnlyLive, NoneTwice,
              CarriedApart, NoneLost, Filled, Slots, Sifting
<1>6. CASE TickFire
  <2>. DEFINE last == cur_size - 1
  <2>1. /\ Filled = Slots /\ ~Sifting /\ 0 \in Slots /\ last \in Slots
        /\ Filled' = Slots \ {0, last}
        /\ live' = live \ {array[0]} /\ moving' = array[last]
        /\ Sifting' /\ (cur_size' > 0 <=> last # 0)
    BY <1>6 DEF TickFire, TopIsDue, Filled, Slots, Sifting, TypeOK
  <2>2. \A i \in Slots \ {0} : array'[i] = array[i]
    BY <1>6 DEF TickFire, TypeOK, Slots
  <2>. HIDE DEF last
  <2>3. OnlyLive' /\ NoneTwice' /\ CarriedApart'
    BY <2>1, <2>2 DEF HoldsExactlyLive, OnlyLive, NoneTwice, CarriedApart
  <2>4. NoneLost'
    <3>1. SUFFICES ASSUME NEW t \in live, t # array[0]
                   PROVE  \/ \E i \in Slots \ {0, last} : array'[i] = t
                          \/ last # 0 /\ t = array[last]
      BY <2>1 DEF NoneLost
    <3>2. PICK i \in Slots : array[i] = t
      BY <2>1 DEF HoldsExactlyLive, NoneLost
    <3>. QED
      BY <2>2, <3>1, <3>2
  <2>. QED
    BY <2>3, <2>4 DEF HoldsExactlyLive
<1>7. CASE SiftDown
  BY <1>7, SiftDownMovesHole, MovingHoleKeepsContents DEF SiftDown, Sifting
<1>8. CASE SiftDownDone
  BY <1>8, FillingHoleKeepsContents DEF SiftDownDone, FillsHole, Sifting
<1>9. CASE TickEnd
  BY <1>9 DEF TickEnd, heapVars, HoldsExactlyLive, OnlyLive, NoneTwice,
              CarriedApart, NoneLost, Filled, Slots, Sifting
<1>10. CASE UNCHANGED vars
  BY <1>10 DEF vars, HoldsExactlyLive, OnlyLive, NoneTwice,
               CarriedApart, NoneLost, Filled, Slots, Sifting
<1>. QED
  BY <1>1, <1>2, <1>3, <1>4, <1>5, <1>6, <1>7, <1>8, <1>9, <1>10 DEF Next

\* The timers the loops compare are allocated, so their expiry times are numbers.
LEMMA KeysAreTimes ==
  ASSUME Inv
  PROVE  /\ \A i \in Filled : Key(i) \in Nat
         /\ Sifting /\ cur_size > 0 => expire[moving] \in Nat
  BY DEF Inv, TypeOK, HoldsExactlyLive, OnlyLive, CarriedApart, Key

\* The tree order is kept when a hole moves to k, its parent or one of its
\* children, provided the timer of k belongs where the hole was.
LEMMA MovingHoleKeepsOrder ==
  ASSUME Inv, Sifting, hole \in Slots, NEW k \in Filled, MovesHoleTo(k),
         \/ /\ pc = "up" /\ hole > 0 /\ k = Parent(hole)
            /\ Key(k) > expire[moving]
         \/ /\ pc = "down" /\ k > 0 /\ hole = Parent(k)
            /\ Key(k) < expire[moving]
            /\ \A i \in Slots \ {0} : Parent(i) = hole => Key(k) <= Key(i)
  PROVE  HeapOrder'
<1>1. /\ Filled = Slots \ {hole}
      /\ Slots' = Slots /\ hole' = k /\ pc' = pc
      /\ Sifting' /\ moving' = moving /\ expire' = expire
      /\ k \in Slots /\ k # hole /\ cur_size > 0
      /\ Slots \subseteq Nat
  BY DEF MovesHoleTo, Filled, Slots, Sifting, Inv, TypeOK
<1>2. \A i \in Slots : Key(i)' = IF i = hole THEN Key(k) ELSE Key(i)
  BY DEF MovesHoleTo, Inv, TypeOK, Slots, Key
<1>3. expire[moving] \in Nat /\ \A i \in Slots \ {hole} : Key(i) \in Nat
  BY <1>1, KeysAreTimes
<1>4. \A i \in Slots \ {0} : Parent(i) \in Slots /\ Parent(i) < i
  BY ParentOfIndex DEF Slots, Inv, TypeOK
<1>5. /\ \A i \in Slots \ {0} : hole \in {i, Parent(i)} \/ Key(Parent(i)) <= Key(i)
      /\ \A i \in Slots \ {0} : Parent(i) = hole => (hole > 0 => Key(Parent(hole)) <= Key(i))
      /\ \A i \in Slots \ {0} : Parent(i) = hole => (pc = "up" => expire[moving] <= Key(i))
      /\ pc = "down" /\ hole > 0 => Key(Parent(hole)) <= expire[moving]
  BY DEF Inv, HeapOrder, OrderElsewhere, OrderBelowHole, OrderAboveHole
<1>6. HoleInHeap'
  BY <1>1 DEF HoleInHeap
<1>7. \A i \in Slots \ {0} : k \in {i, Parent(i)} \/ (Key(Parent(i)) <= Key(i))'
  BY <1>1, <1>2, <1>3, <1>4, <1>5 DEF Key, Parent
<1>8. \A i \in Slots \ {0} : Parent(i) = k =>
        /\ k > 0 => (Key(Parent(k)) <= Key(i))'
        /\ pc = "up" => expire[moving] <= Key(i)'
  BY <1>1, <1>2, <1>3, <1>4, <1>5 DEF Key, Parent
<1>9. pc = "down" /\ k > 0 => Key(Parent(k))' <= expire[moving]
  BY <1>1, <1>2, <1>3, <1>4, <1>5 DEF Key, Parent
<1>. QED
  BY <1>1, <1>6, <1>7, <1>8, <1>9
     DEF HeapOrder, OrderElsewhere, OrderBelowHole, OrderAboveHole

\* The order is complete once the hole is filled with a timer that is no
\* earlier than its parent and no later than its children.
LEMMA FillingHoleKeepsOrder ==
  ASSUME Inv, Sifting, FillsHole,
         hole > 0 /\ hole \in Slots => Key(Parent(hole)) <= expire[moving],
         \A i \in Slots \ {0} : Parent(i) = hole => expire[moving] <= Key(i)
  PROVE  HeapOrder'
<1>1. /\ Slots' = Slots /\ ~Sifting' /\ expire' = expire
      /\ Slots \subseteq Nat
      /\ pc' # "down"
  BY DEF FillsHole, Slots, Sifting, Inv, TypeOK
<1>2. \A i \in Slots : Key(i)' = IF i = hole THEN expire[moving] ELSE Key(i)
  BY DEF FillsHole, Inv, TypeOK, Slots, Key
<1>3. \A i \in Slots \ {0} : Parent(i) \in Slots /\ Parent(i) < i
  BY ParentOfIndex DEF Slots, Inv, TypeOK
<1>4. \A i \in Slots \ {0} : hole \in {i, Parent(i)} \/ Key(Parent(i)) <= Key(i)
  BY DEF Inv, HeapOrder, OrderElsewhere
<1>5. \A i \in Slots \ {0} : (Key(Parent(i)) <= Key(i))'
  <2>1. SUFFICES ASSUME NEW i \in Slots \ {0}
                 PROVE  Key(Parent(i))' <= Key(i)'
    OBVIOUS
  <2>2. CASE i = hole
    BY <1>1, <1>2, <1>3, <2>1, <2>2 DEF Key, Parent
  <2>3. CASE Parent(i) = hole
    BY <1>1, <1>2, <1>3, <2>1, <2>3 DEF Key, Parent
  <2>4. CASE i # hole /\ Parent(i) # hole
    BY <1>1, <1>2, <1>3, <1>4, <2>4
  <2>. QED
    BY <2>2, <2>3, <2>4
<1>. QED
  BY <1>1, <1>5 DEF HeapOrder, HoleInHeap, OrderElsewhere, OrderBelowHole, OrderAboveHole

\* What every step preserves of the order of the heap and of the loops' holes.
LEMMA OrderStep ==
  ASSUME Inv, [Next]_vars
  PROVE  HeapOrder'
<1> USE DEF Inv
<1>0. Slots \subseteq Nat /\ \A i \in Slots \ {0} : Parent(i) \in Slots /\ Parent(i) < i
  BY ParentOfIndex DEF Slots, TypeOK
<1>1. ASSUME NEW t \in Timers, NEW e \in Times, AddTimer(t, e)
      PROVE  HeapOrder'
  <2>1. /\ Slots' = Slots \cup {cur_size} /\ hole' = cur_size /\ pc' = "up"
        /\ cur_size \in Nat /\ \A i \in Slots : i < cur_size
        /\ ~Sifting /\ Sifting'
    BY <1>1 DEF AddTimer, Slots, Sifting, TypeOK
  <2>2. \A i \in Slots : Key(i)' = Key(i)
    BY <1>1 DEF AddTimer, Resized, TypeOK, Slots, Sifting, Filled, Key,
                HoldsExactlyLive, OnlyLive
  <2>3. \A i \in Slots' \ {0} : Parent(i) # cur_size
    <3>1. SUFFICES ASSUME NEW i \in (Slots \cup {cur_size}) \ {0}
                   PROVE  Parent(i) # cur_size
      BY <2>1
    <3>2. i \in Nat \ {0} /\ i <= cur_size
      BY <1>0, <2>1
    <3>. QED
      BY <2>1, <3>2, ParentOfIndex
  <2>4. \A i \in Slots \ {0} : Key(Parent(i)) <= Key(i)
    BY <2>1 DEF HeapOrder, OrderElsewhere
  <2>5. \A i \in Slots \ {0} : (Key(Parent(i)) <= Key(i))'
    BY <1>0, <2>2, <2>4 DEF Key, Parent
  <2>6. OrderElsewhere'
    BY <2>1, <2>5 DEF OrderElsewhere
  <2>. QED
    BY <2>1, <2>3, <2>6 DEF HeapOrder, HoleInHeap, OrderBelowHole, OrderAboveHole, Parent
<1>2. CASE SiftUp
  BY <1>2, SiftUpMovesHole, MovingHoleKeepsOrder DEF SiftUp, MustRise, Sifting
<1>3. CASE SiftUpDone
  <2>1. hole \in Slots /\ hole \in Nat
    BY <1>3 DEF SiftUpDone, HeapOrder, HoleInHeap, Sifting, TypeOK
  <2>2. hole > 0 => Key(Parent(hole)) <= expire[moving]
    <3>1. HAVE hole > 0
    <3>2. Parent(hole) \in Filled /\ cur_size > 0
      BY <1>0, <1>3, <2>1, <3>1 DEF Filled, SiftUpDone, Slots, Sifting, TypeOK
    <3>. QED
      BY <1>3, <3>1, <3>2, KeysAreTimes DEF SiftUpDone, MustRise, Sifting
  <2>3. \A i \in Slots \ {0} : Parent(i) = hole => expire[moving] <= Key(i)
    BY <1>3 DEF SiftUpDone, HeapOrder, OrderBelowHole, Sifting
  <2>. QED
    BY <1>3, <2>2, <2>3, FillingHoleKeepsOrder DEF SiftUpDone, FillsHole, Sifting
<1>4. ASSUME NEW t \in Timers, DelTimer(t)
      PROVE  HeapOrder'
  BY <1>4 DEF DelTimer, heapVars, loopVars, HeapOrder, HoleInHeap, OrderElsewhere,
              OrderBelowHole, OrderAboveHole, Slots, Sifting, Key, Parent
<1>5. ASSUME NEW now \in Times, Tick(now)
      PROVE  HeapOrder'
  BY <1>5 DEF Tick, heapVars, HeapOrder, HoleInHeap, OrderElsewhere,
              OrderBelowHole, OrderAboveHole, Slots, Sifting, Key, Parent
<1>6. CASE TickFire
  <2>. DEFINE last == cur_size - 1
  <2>1. /\ Slots' = Slots \ {last} /\ hole' = 0 /\ pc' = "down"
        /\ 0 \in Slots /\ ~Sifting
        /\ (last = 0 => cur_size' = 0)
    BY <1>6 DEF TickFire, TopIsDue, Slots, Sifting, TypeOK
  <2>2. \A i \in Slots \ {0} : Key(i)' = Key(i)
    BY <1>6, <2>1 DEF TickFire, TypeOK, Slots, Sifting, Filled, Key,
                HoldsExactlyLive, OnlyLive, NoneTwice
  <2>. HIDE DEF last
  <2>3. \A i \in Slots \ {0} : Key(Parent(i)) <= Key(i)
    BY <2>1 DEF HeapOrder, OrderElsewhere
  <2>4. OrderElsewhere'
    BY <1>0, <2>1, <2>2, <2>3 DEF OrderElsewhere, Sifting, Key, Parent
  <2>. QED
    BY <2>1, <2>4 DEF HeapOrder, HoleInHeap, OrderBelowHole, OrderAboveHole
<1>7. CASE SiftDown
  <2>1. /\ pc = "down" /\ Key(MinChild) < expire[moving]
        /\ Sifting /\ cur_size > 0
        /\ MinChild > 0
    BY <1>7, <1>0, SiftDownMovesHole DEF SiftDown, MustSink, MinChild, Left, Sifting, TypeOK
  <2>2. \A i \in Slots \ {0} : Parent(i) = hole => Key(MinChild) <= Key(i)
    <3>1. SUFFICES ASSUME NEW i \in Slots \ {0}, Parent(i) = hole
                   PROVE  Key(MinChild) <= Key(i)
      OBVIOUS
    <3>0. i \in Nat \ {0} /\ i <= cur_size - 1 /\ hole \in Nat /\ cur_size \in Nat
      BY DEF Slots, TypeOK
    <3>2. i = Left(hole) \/ (i = Left(hole) + 1 /\ Left(hole) + 1 < cur_size)
      BY <3>0, <3>1, ParentOfIndex DEF Left
    <3>3. i \in Filled /\ MinChild \in Filled /\ (MinChild # i => Left(hole) \in Filled)
      BY <1>0, <1>7, <2>1, <3>1, SiftDownMovesHole DEF Filled, Slots, Left, MinChild, TypeOK
    <3>. QED
      BY <3>2, <3>3, KeysAreTimes DEF MinChild
  <2>. QED
    BY <1>7, <2>1, <2>2, SiftDownMovesHole, MovingHoleKeepsOrder
<1>8. CASE SiftDownDone
  <2>1. Sifting /\ FillsHole
    BY <1>8 DEF SiftDownDone, FillsHole, Sifting
  <2>2. hole > 0 /\ hole \in Slots => Key(Parent(hole)) <= expire[moving]
    BY <1>8 DEF SiftDownDone, HeapOrder, OrderAboveHole
  <2>3. \A i \in Slots \ {0} : Parent(i) = hole => expire[moving] <= Key(i)
    <3>1. SUFFICES ASSUME NEW i \in Slots \ {0}, Parent(i) = hole
                   PROVE  expire[moving] <= Key(i)
      OBVIOUS
    <3>0. i \in Nat \ {0} /\ i <= cur_size - 1 /\ hole \in Nat /\ cur_size \in Nat
      BY DEF Slots, TypeOK
    <3>2. /\ i = Left(hole) \/ (i = Left(hole) + 1 /\ Left(hole) + 1 < cur_size)
          /\ Left(hole) <= cur_size - 1 /\ cur_size > 0
      BY <3>0, <3>1, ParentOfIndex DEF Left
    <3>3. /\ i \in Filled /\ Left(hole) \in Filled
          /\ Left(hole) + 1 < cur_size => Left(hole) + 1 \in Filled
      BY <2>1, <3>0, <3>2 DEF Filled, Slots, Left
    <3>4. Key(MinChild) <= Key(i) /\ Key(MinChild) \in Nat /\ Key(i) \in Nat
      BY <3>2, <3>3, KeysAreTimes DEF MinChild
    <3>5. expire[moving] <= Key(MinChild)
      BY <1>8, <2>1, <3>2, <3>4, KeysAreTimes DEF SiftDownDone, MustSink
    <3>. QED
      BY <2>1, <3>2, <3>4, <3>5, KeysAreTimes
  <2>. QED
    BY <2>1, <2>2, <2>3, FillingHoleKeepsOrder
<1>9. CASE TickEnd
  BY <1>9 DEF TickEnd, heapVars, HeapOrder, HoleInHeap, OrderElsewhere,
              OrderBelowHole, OrderAboveHole, Slots, Sifting, Key, Parent
<1>10. CASE UNCHANGED vars
  BY <1>10 DEF vars, HeapOrder, HoleInHeap, OrderElsewhere,
               OrderBelowHole, OrderAboveHole, Slots, Sifting, Key, Parent
<1>. QED
  BY <1>1, <1>2, <1>3, <1>4, <1>5, <1>6, <1>7, <1>8, <1>9, <1>10 DEF Next

\* The inductive invariant holds: the array holds each live timer once and the
\* loops keep the heap order around their hole.
THEOREM InvCorrect == Spec => []Inv
<1>1. Init => Inv
  <2> SUFFICES ASSUME Init PROVE Inv
    OBVIOUS
  <2>1. TypeOK
    BY InitCapAssumption DEF Init, TypeOK
  <2>2. HoldsExactlyLive
    BY DEF Init, HoldsExactlyLive, OnlyLive, NoneTwice, CarriedApart, NoneLost,
           Filled, Slots, Sifting
  <2>3. HeapOrder
    BY DEF Init, HeapOrder, HoleInHeap, OrderElsewhere, OrderBelowHole,
           OrderAboveHole, Slots, Sifting
  <2>. QED
    BY <2>1, <2>2, <2>3 DEF Inv
<1>2. TypeOK' /\ Inv /\ [Next]_vars => Inv'
  BY ContentsStep, OrderStep DEF Inv
<1>. QED
  BY <1>1, <1>2, TypeCorrect, PTL DEF Spec

\* No deleted timer is reachable from the array, and none is lost.
THEOREM ContentsCorrect == Spec => []HoldsExactlyLive
<1>1. Inv => HoldsExactlyLive
  BY DEF Inv
<1>. QED
  BY <1>1, InvCorrect, PTL

\* The root of an ordered tree is its least element: otherwise take the smallest
\* index with an earlier timer than the root; its parent has one too.
LEMMA RootIsLeast ==
  ASSUME Inv, ~Sifting, NEW i \in Slots
  PROVE  Key(0) <= Key(i)
<1> DEFINE Earlier == {j \in Slots : Key(j) < Key(0)}
<1>1. Slots \subseteq Nat /\ 0 \in Slots /\ \A j \in Slots : Key(j) \in Nat
  BY KeysAreTimes DEF Inv, TypeOK, Slots, Filled
<1>2. \A j \in Slots \ {0} : Parent(j) \in Slots /\ Parent(j) < j /\ Key(Parent(j)) <= Key(j)
  BY ParentOfIndex DEF Inv, TypeOK, HeapOrder, OrderElsewhere, Slots
<1>3. SUFFICES ASSUME Earlier # {}
               PROVE  FALSE
  BY <1>1
<1>4. PICK j \in Earlier : \A k \in Earlier : j <= k
  BY <1>1, <1>3, LeastNat
<1>5. j \in Slots \ {0}
  BY <1>1, <1>4
<1>6. PICK p \in Slots : p = Parent(j) /\ p < j /\ Key(p) <= Key(j)
  BY <1>2, <1>5
<1>7. p \in Earlier
  BY <1>1, <1>4, <1>6
<1>. QED
  BY <1>1, <1>4, <1>6, <1>7

\* top() is the earliest of all timers allocated.
LEMMA RootIsEarliest == Inv => TopIsEarliest
<1>1. SUFFICES ASSUME Inv, ~Sifting, cur_size > 0, NEW t \in live
               PROVE  Key(0) <= expire[t]
  BY DEF TopIsEarliest
<1>2. PICK i \in Slots : array[i] = t
  BY <1>1 DEF Inv, HoldsExactlyLive, NoneLost, Filled
<1>. QED
  BY <1>1, <1>2, RootIsLeast DEF Key

\* top() is the earliest timer whenever tick looks at it.
THEOREM TopCorrect == Spec => []TopIsEarliest
  BY RootIsEarliest, InvCorrect, PTL

-------------------------------------------------------------------------------
\* Every step of the heap is a step of the timer queue, or leaves it unchanged.
LEMMA QueueStep ==
  ASSUME Inv, [Next]_vars
  PROVE  [Queue!Next]_(Queue!vars)
<1> USE DEF Queue!vars, Queue!pending
<1>1. ASSUME NEW t \in Timers, NEW e \in Times, AddTimer(t, e)
      PROVE  Queue!Add(t, e)
  BY <1>1 DEF AddTimer, Queue!Add, Inv, TypeOK
<1>2. CASE SiftUp
  BY <1>2 DEF SiftUp
<1>3. CASE SiftUpDone
  BY <1>3 DEF SiftUpDone
<1>4. ASSUME NEW t \in Timers, DelTimer(t)
      PROVE  Queue!Disarm(t)
  BY <1>4 DEF DelTimer, heapVars, loopVars, Queue!Disarm, Inv, TypeOK
<1>5. ASSUME NEW now \in Times, Tick(now)
      PROVE  Queue!BeginTick(now)
  BY <1>5 DEF Tick, heapVars, Queue!BeginTick, Inv, TypeOK
<1>6. CASE TickFire
  <2>1. /\ array[0] \in live /\ live \subseteq Timers
        /\ \A u \in live : expire[array[0]] <= expire[u]
    BY <1>6, RootIsEarliest
       DEF TickFire, TopIsDue, TopIsEarliest, Inv, TypeOK, HoldsExactlyLive, OnlyLive,
           Filled, Slots, Sifting, Key
  <2>2. PICK t \in Timers : t = array[0]
    BY <2>1
  <2>3. Queue!Drop(t)
    BY <1>6, <2>1, <2>2 DEF TickFire, TopIsDue, Queue!Drop, Key, Inv, TypeOK
  <2>. QED
    BY <2>3 DEF Queue!Next
<1>7. CASE SiftDown
  BY <1>7 DEF SiftDown
<1>8. CASE SiftDownDone
  BY <1>8 DEF SiftDownDone
<1>9. CASE TickEnd
  <2>1. \A t \in live : expire[t] > cur
    <3>1. SUFFICES ASSUME NEW t \in live
                   PROVE  expire[t] > cur
      OBVIOUS
    <3>2. ~Sifting /\ Filled = Slots
      BY <1>9 DEF TickEnd, Sifting, Filled
    <3>3. cur_size > 0 /\ 0 \in Slots
      BY <3>2 DEF Inv, TypeOK, HoldsExactlyLive, NoneLost, Slots
    <3>4. Key(0) > cur
      BY <1>9, <3>2, <3>3, NULLAssumption, KeysAreTimes
         DEF TickEnd, TopIsDue, Inv, TypeOK, HoldsExactlyLive, OnlyLive
    <3>5. Key(0) <= expire[t]
      BY <3>2, <3>3, RootIsEarliest DEF TopIsEarliest
    <3>. QED
      BY <3>2, <3>3, <3>4, <3>5, KeysAreTimes DEF Inv, TypeOK
  <2>. QED
    BY <1>9, <2>1 DEF TickEnd, heapVars, Queue!EndTick, Queue!Next
<1>10. CASE UNCHANGED vars
  BY <1>10 DEF vars
<1>. QED
  BY <1>1, <1>2, <1>3, <1>4, <1>5, <1>6, <1>7, <1>8, <1>9, <1>10 DEF Next, Queue!Next

\* The array heap implements the abstract timer queue.
THEOREM HeapImplementsQueue == Spec => QueueSpec
<1>1. Init => Queue!Init
  BY DEF Init, Queue!Init
<1>2. Inv /\ [Next]_vars => [Queue!Next]_(Queue!vars)
  BY QueueStep
<1>. QED
  BY <1>1, <1>2, InvCorrect, PTL DEF Spec, QueueSpec, Queue!Spec
===============================================================================
