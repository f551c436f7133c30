---------------------------- MODULE TimerListsProofs ---------------------------
(***************************************************************************)
(* Proofs about the two containers whose timers are in linked lists, class *)
(* time_wheel and class sort_timer_lst, for any number of timers and       *)
(* slots, and any times: first what is true of any list, then the slots    *)
(* of the wheel, its lists, and the sorted list.                           *)
(***************************************************************************)
EXTENDS TimeWheel, WheelSlots, SortTimerLst, TLAPS

-------------------------------------------------------------------------------
(* What a list holds, before and after its pointers change. *)

\* What closed sets have in common that contain p.
LEMMA ChainLeast ==
  ASSUME NEW T, NEW n, NEW p, NEW S \in SUBSET T,
         p \in T => p \in S,
         \A u \in S : n[u] \in T => n[u] \in S
  PROVE  Chain(p, n, T) \subseteq S
BY DEF Chain

\* A chain begins at p, and has the successors of its members.
LEMMA ChainHas ==
  ASSUME NEW T, NEW n, NEW p
  PROVE  /\ Chain(p, n, T) \subseteq T
         /\ p \in T => p \in Chain(p, n, T)
         /\ \A u \in Chain(p, n, T) : n[u] \in T => n[u] \in Chain(p, n, T)
         /\ p \notin T => Chain(p, n, T) = {}
<1>1. p \notin T => Chain(p, n, T) = {}
  <2>1. {} \in SUBSET T /\ \A u \in {} : n[u] \in T => n[u] \in {}
    OBVIOUS
  <2> QED
    BY <2>1 DEF Chain
<1> QED
  BY <1>1 DEF Chain

\* The chain of p is p and the chain of its successor.
LEMMA ChainFirst ==
  ASSUME NEW T, NEW n, NEW p \in T
  PROVE  Chain(p, n, T) = {p} \cup Chain(n[p], n, T)
<1>1. Chain(n[p], n, T) \subseteq Chain(p, n, T)
  BY ChainHas, ChainLeast
<1>2. Chain(p, n, T) \subseteq {p} \cup Chain(n[p], n, T)
  <2> DEFINE S == {p} \cup Chain(n[p], n, T)
  <2>1. S \in SUBSET T /\ p \in S
    BY ChainHas
  <2>2. \A u \in S : n[u] \in T => n[u] \in S
    BY ChainHas
  <2>3. Chain(p, n, T) \subseteq S
    <3> HIDE DEF S
    <3> QED
      BY <2>1, <2>2, ChainLeast
  <2> QED
    BY <2>3
<1> QED
  BY <1>1, <1>2, ChainHas

\* The chain of a member is part of the chain.
LEMMA ChainSuffix ==
  ASSUME NEW T, NEW n, NEW p, NEW q \in Chain(p, n, T)
  PROVE  Chain(q, n, T) \subseteq Chain(p, n, T)
BY ChainHas, ChainLeast

\* Only what its members point to matters for a chain.
LEMMA ChainSame ==
  ASSUME NEW T, NEW n, NEW m, NEW p,
         \A u \in Chain(p, n, T) : m[u] = n[u]
  PROVE  Chain(p, m, T) = Chain(p, n, T)
<1>1. Chain(p, m, T) \subseteq Chain(p, n, T)
  BY ChainHas, ChainLeast
<1>2. Chain(p, n, T) \subseteq Chain(p, m, T)
  BY <1>1, ChainHas, ChainLeast
<1> QED
  BY <1>1, <1>2

\* A member other than the first has another that points to it.
LEMMA ChainBefore ==
  ASSUME NEW T, NEW n, NEW p, NEW u \in Chain(p, n, T), u # p
  PROVE  \E v \in Chain(p, n, T) : v # u /\ n[v] = u
<1> SUFFICES ASSUME \A v \in Chain(p, n, T) : n[v] = u => v = u
             PROVE  FALSE
  OBVIOUS
<1> DEFINE S == Chain(p, n, T) \ {u}
<1>1. S \in SUBSET T /\ (p \in T => p \in S)
  BY ChainHas
<1>2. \A w \in S : n[w] \in T => n[w] \in S
  BY ChainHas
<1>3. Chain(p, n, T) \subseteq S
  <2> HIDE DEF S
  <2> QED
    BY <1>1, <1>2, ChainLeast
<1> QED
  BY <1>3

\* A list that is linked in both directions has no cycle: nothing behind u leads back to it.
LEMMA ChainAcyclic ==
  ASSUME NEW T, NEW n, NEW back, NEW p,
         \A u \in Chain(p, n, T) : n[u] \in T => back[n[u]] = u,
         back[p] \notin T,
         NEW t \in Chain(p, n, T)
  PROVE  t \notin Chain(n[t], n, T)
<1> DEFINE C == Chain(p, n, T)
           S == {u \in C : u \notin Chain(n[u], n, T)}
<1>0. p \in T /\ C \subseteq T
  BY ChainHas
<1>1. p \in S
  <2> SUFFICES ASSUME p \in Chain(n[p], n, T) PROVE FALSE
    BY <1>0, ChainHas
  <2>1. Chain(n[p], n, T) \subseteq C
    BY <1>0, ChainFirst
  <2>2. p # n[p] => \E v \in C : n[v] = p
    BY <2>1, ChainBefore
  <2>3. \E v \in C : n[v] = p
    BY <1>0, <2>2, ChainHas
  <2> QED
    BY <1>0, <2>3
<1>2. ASSUME NEW u \in S, n[u] \in T
      PROVE  n[u] \in S
  <2> DEFINE w == n[u]
  <2>1. w \in C /\ u \in C /\ back[w] = u
    BY <1>2, ChainHas
  <2> SUFFICES ASSUME w \in Chain(n[w], n, T) PROVE FALSE
    BY <2>1
  <2>2. Chain(n[w], n, T) \subseteq Chain(w, n, T)
    BY <1>2, ChainFirst
  <2>3. Chain(w, n, T) \subseteq C
    BY <2>1, ChainSuffix
  <2>4. CASE w = n[w]
    <3>1. u = w
      BY <1>2, <2>1, <2>4
    <3> QED
      BY <1>2, <2>2, <3>1
  <2>5. CASE w # n[w]
    <3>1. PICK v \in Chain(n[w], n, T) : n[v] = w
      BY <2>5, ChainBefore
    <3>2. v = u
      BY <1>2, <2>1, <2>2, <2>3, <3>1
    <3> QED
      BY <1>2, <2>2, <3>1, <3>2
  <2> QED
    BY <2>4, <2>5
<1>3. S \in SUBSET T
  BY <1>0
<1>4. C \subseteq S
  <2>1. \A u \in S : n[u] \in T => n[u] \in S
    BY <1>2
  <2> HIDE DEF S
  <2> QED
    BY <1>1, <1>3, <2>1, ChainLeast
<1> QED
  BY <1>4

\* When the only pointer to t is led past it, the chain has lost t, and nothing else.
LEMMA ChainWithout ==
  ASSUME NEW T, NEW n, NEW m, NEW p, NEW t \in Chain(p, n, T), NEW v \in T,
         t # p, v # t, n[v] = t, n[t] # t,
         \A u \in Chain(p, n, T) : n[u] = t => u = v,
         \A u \in T \ {v, t} : m[u] = n[u],
         m[v] = n[t]
  PROVE  Chain(p, m, T) = Chain(p, n, T) \ {t}
<1> DEFINE C == Chain(p, n, T)
           D == Chain(p, m, T)
<1>0. C \subseteq T /\ D \subseteq T /\ (p \in T => p \in C /\ p \in D)
  BY ChainHas
<1>1. D \subseteq C \ {t}
  <2> DEFINE S == C \ {t}
  <2>1. \A u \in S : m[u] \in T => m[u] \in S
    <3> SUFFICES ASSUME NEW u \in S, m[u] \in T PROVE m[u] \in S
      OBVIOUS
    <3>1. CASE u = v
      BY <3>1, ChainHas
    <3>2. CASE u # v
      <4>1. m[u] = n[u] /\ n[u] # t
        BY <1>0, <3>2
      <4> QED
        BY <4>1, ChainHas
    <3> QED
      BY <3>1, <3>2
  <2>2. S \in SUBSET T /\ (p \in T => p \in S)
    BY <1>0
  <2>3. D \subseteq S
    <3> HIDE DEF S
    <3> QED
      BY <2>1, <2>2, ChainLeast
  <2> QED
    BY <2>3
<1>2. v \in D
  <2> SUFFICES ASSUME v \notin D PROVE FALSE
    OBVIOUS
  <2>1. \A u \in D : n[u] \in T => n[u] \in D
    <3>1. \A u \in D : m[u] = n[u]
      BY <1>0, <1>1
    <3> QED
      BY <3>1, ChainHas
  <2>2. C \subseteq D
    BY <1>0, <2>1, ChainLeast
  <2> QED
    BY <1>1, <2>2
<1>3. C \subseteq D \cup {t}
  <2> DEFINE S == D \cup {t}
  <2>1. S \in SUBSET T
    BY <1>0
  <2>2. \A u \in S : n[u] \in T => n[u] \in S
    <3> SUFFICES ASSUME NEW u \in S, n[u] \in T PROVE n[u] \in S
      OBVIOUS
    <3>1. CASE u = t
      BY <1>2, <3>1, ChainHas
    <3>2. CASE u = v
      BY <3>2
    <3>3. CASE u # t /\ u # v
      <4>1. m[u] = n[u] /\ u \in D
        BY <1>0, <3>3
      <4> QED
        BY <4>1, ChainHas
    <3> QED
      BY <3>1, <3>2, <3>3
  <2>3. p \in T => p \in S
    BY <1>0
  <2>4. C \subseteq S
    <3> HIDE DEF S
    <3> QED
      BY <2>1, <2>2, <2>3, ChainLeast
  <2> QED
    BY <2>4
<1> QED
  BY <1>1, <1>3

\* A chain that has an end leads to it from everywhere.
LEMMA ChainReaches ==
  ASSUME NEW T, NEW n, NEW p, NEW z \in Chain(p, n, T), n[z] \notin T, NEW t \in Chain(p, n, T)
  PROVE  z \in Chain(t, n, T)
<1> DEFINE S == {u \in Chain(p, n, T) : z \in Chain(u, n, T)}
<1>1. S \in SUBSET T /\ (p \in T => p \in S)
  BY ChainHas
<1>2. \A u \in S : n[u] \in T => n[u] \in S
  <2> SUFFICES ASSUME NEW u \in S, n[u] \in T PROVE n[u] \in S
    OBVIOUS
  <2>1. u \in T /\ u # z /\ n[u] \in Chain(p, n, T)
    BY ChainHas
  <2>2. z \in {u} \cup Chain(n[u], n, T)
    BY <2>1, ChainFirst
  <2> QED
    BY <2>1, <2>2
<1>3. Chain(p, n, T) \subseteq S
  <2> HIDE DEF S
  <2> QED
    BY <1>1, <1>2, ChainLeast
<1> QED
  BY <1>3

\* A chain that has an end has no cycle.
LEMMA ChainEnds ==
  ASSUME NEW T, NEW n, NEW p, NEW z \in Chain(p, n, T), n[z] \notin T, NEW t \in Chain(p, n, T)
  PROVE  t \notin Chain(n[t], n, T)
<1> SUFFICES ASSUME t \in Chain(n[t], n, T) PROVE FALSE
  OBVIOUS
<1> DEFINE S == {u \in T : n[u] \in T /\ t \in Chain(n[u], n, T)}
<1>1. t \in S
  BY ChainHas
<1>2. \A u \in S : n[u] \in S
  <2> SUFFICES ASSUME NEW u \in S PROVE n[u] \in S
    OBVIOUS
  <2>1. CASE n[u] = t
    BY <1>1, <2>1
  <2>2. CASE n[u] # t
    <3>1. t \in Chain(n[n[u]], n, T)
      BY <2>2, ChainFirst
    <3>2. n[n[u]] \in T
      BY <3>1, ChainHas
    <3> QED
      BY <3>1, <3>2
  <2> QED
    BY <2>1, <2>2
<1>3. Chain(t, n, T) \subseteq S
  <2>1. S \in SUBSET T
    OBVIOUS
  <2> HIDE DEF S
  <2> QED
    BY <1>1, <1>2, <2>1, ChainLeast
<1>4. z \in Chain(t, n, T)
  BY ChainReaches
<1> QED
  BY <1>3, <1>4

\* When t is linked in behind a, the chain has gained t, and nothing else.
LEMMA ChainWith ==
  ASSUME NEW T, NEW n, NEW m, NEW p, NEW a \in Chain(p, n, T), NEW t \in T,
         t \notin Chain(p, n, T),
         \A u \in Chain(p, n, T) \ {a} : m[u] = n[u],
         m[a] = t, m[t] = n[a]
  PROVE  Chain(p, m, T) = Chain(p, n, T) \cup {t}
<1> DEFINE C == Chain(p, n, T)
           D == Chain(p, m, T)
<1>1. C \subseteq T /\ D \subseteq T /\ (p \in T => p \in C /\ p \in D)
  BY ChainHas
<1>2. D \subseteq C \cup {t}
  <2> DEFINE S == C \cup {t}
  <2>1. S \in SUBSET T /\ (p \in T => p \in S)
    BY <1>1
  <2>2. \A u \in S : m[u] \in T => m[u] \in S
    <3> SUFFICES ASSUME NEW u \in S, m[u] \in T PROVE m[u] \in S
      OBVIOUS
    <3>1. CASE u \in {a, t}
      BY <3>1, ChainHas
    <3>2. CASE u \notin {a, t}
      BY <3>2, ChainHas
    <3> QED
      BY <3>1, <3>2
  <2> HIDE DEF S
  <2>3. D \subseteq S
    BY <2>1, <2>2, ChainLeast
  <2> QED
    BY <2>3 DEF S
<1>3. C \subseteq C \cap D
  <2> DEFINE S == C \cap D
  <2>1. S \in SUBSET T /\ (p \in T => p \in S)
    BY <1>1
  <2>2. \A u \in S : n[u] \in T => n[u] \in S
    <3> SUFFICES ASSUME NEW u \in S, n[u] \in T PROVE n[u] \in S
      OBVIOUS
    <3>1. n[u] \in C
      BY ChainHas
    <3>2. CASE u = a
      <4>1. t \in D
        BY <3>2, ChainHas
      <4> QED
        BY <3>1, <3>2, <4>1, ChainHas
    <3>3. CASE u # a
      <4>1. m[u] = n[u]
        BY <3>3
      <4> QED
        BY <3>1, <4>1, ChainHas
    <3> QED
      BY <3>2, <3>3
  <2> HIDE DEF S
  <2>3. C \subseteq S
    BY <2>1, <2>2, ChainLeast
  <2> QED
    BY <2>3 DEF S
<1>4. t \in D
  BY <1>3, ChainHas
<1> QED
  BY <1>2, <1>3, <1>4

\* Without its first member, a chain that has an end is the chain of the second.
LEMMA ChainRest ==
  ASSUME NEW T, NEW n, NEW m, NEW p, NEW z \in Chain(p, n, T), n[z] \notin T,
         \A u \in Chain(p, n, T) \ {p} : m[u] = n[u]
  PROVE  Chain(n[p], m, T) = Chain(p, n, T) \ {p}
<1>1. p \in T /\ p \in Chain(p, n, T)
  BY ChainHas
<1>2. Chain(p, n, T) = {p} \cup Chain(n[p], n, T) /\ p \notin Chain(n[p], n, T)
  BY <1>1, ChainFirst, ChainEnds
<1>3. \A u \in Chain(n[p], n, T) : m[u] = n[u]
  BY <1>2
<1>4. Chain(n[p], m, T) = Chain(n[p], n, T)
  BY <1>3, ChainSame
<1> QED
  BY <1>2, <1>4

\* In a chain in ascending order of e, the first member has the least e.
LEMMA ChainAscends ==
  ASSUME NEW T, NEW n, NEW p, NEW e \in [T -> Nat],
         \A u \in Chain(p, n, T) : n[u] \in T => e[u] <= e[n[u]],
         NEW t \in Chain(p, n, T)
  PROVE  e[p] <= e[t]
<1> DEFINE S == {u \in Chain(p, n, T) : e[p] <= e[u]}
<1>1. p \in T /\ p \in S /\ S \in SUBSET T
  BY ChainHas
<1>2. \A u \in S : n[u] \in T => n[u] \in S
  <2> SUFFICES ASSUME NEW u \in S, n[u] \in T PROVE n[u] \in S
    OBVIOUS
  <2>1. u \in T /\ n[u] \in Chain(p, n, T) /\ e[p] <= e[u] /\ e[u] <= e[n[u]]
    BY ChainHas
  <2>2. e[p] \in Nat /\ e[u] \in Nat /\ e[n[u]] \in Nat
    BY <1>1, <2>1
  <2> QED
    BY <2>1, <2>2
<1>3. Chain(p, n, T) \subseteq S
  <2> HIDE DEF S
  <2> QED
    BY <1>1, <1>2, ChainLeast
<1> QED
  BY <1>3

-------------------------------------------------------------------------------
(* The arithmetic of WheelSlots. *)

\* Going d slots further on a ring of n wraps at most once.
LEMMA WrapsOnce ==
  ASSUME NEW n \in Nat \ {0}, NEW c \in 0 .. n - 1, NEW d \in 0 .. n
  PROVE  (c + d) % n = IF c + d < n THEN c + d ELSE c + d - n
  OBVIOUS

\* Quotient and remainder.
LEMMA DivMod ==
  ASSUME NEW n \in Nat \ {0}, NEW x \in Nat
  PROVE  x \div n \in Nat /\ x % n \in 0 .. n - 1 /\ x = (x \div n) * n + (x % n)
  OBVIOUS

\* r turns of a wheel of n slots, and one turn less.
LEMMA Turns ==
  ASSUME NEW n \in Nat \ {0}, NEW r \in Nat
  PROVE  /\ r * n \in Nat
         /\ r * n = 0 <=> r = 0
         /\ (r - 1) * n = r * n - n
  OBVIOUS

\* A timeout is a natural number of ticks.
LEMMA TicksIsNat ==
  ASSUME NEW timeout \in Timeouts, timeout >= 0
  PROVE  Ticks(timeout) \in Nat
<1>1. timeout \in Nat
  BY TimeoutsAssumption
<1>2. timeout \div SI \in Nat
  BY <1>1, DivMod, SIAssumption
<1> QED
  BY <1>2 DEF Ticks

\* Slots and turns stay in range.
THEOREM WheelTypeCorrect == WheelSpec => []WheelTypeOK
<1>1. WheelInit => WheelTypeOK
  BY NAssumption DEF WheelInit, WheelTypeOK, inWheel
<1>2. WheelTypeOK /\ [WheelNext]_wheelVars => WheelTypeOK'
  <2> SUFFICES ASSUME WheelTypeOK, [WheelNext]_wheelVars
               PROVE  WheelTypeOK'
    OBVIOUS
  <2> USE DEF WheelTypeOK
  <2>1. ASSUME NEW t \in Timers, NEW timeout \in Timeouts, Put(t, timeout)
        PROVE  WheelTypeOK'
    <3>1. Ticks(timeout) \in Nat
      BY <2>1, TicksIsNat DEF Put
    <3>2. Ticks(timeout) \div N \in Nat /\ SlotAfter(Ticks(timeout)) \in 0 .. N - 1
      <4>1. current + (Ticks(timeout) % N) \in Nat
        BY <3>1, DivMod, NAssumption
      <4> QED
        BY <3>1, <4>1, DivMod, NAssumption DEF SlotAfter
    <3> QED
      BY <2>1, <3>2 DEF Put, inWheel
  <2>2. ASSUME NEW t \in Timers, Take(t)
        PROVE  WheelTypeOK'
    BY <2>2 DEF Take, inWheel
  <2>3. CASE Tick
    <3>1. current' \in 0 .. N - 1
      BY <2>3, DivMod, NAssumption DEF Tick
    <3>2. \A t \in inWheel \ Expired : slotOf[t] = current => turns[t] - 1 \in Nat
      BY DEF Expired
    <3> QED
      BY <2>3, <3>1, <3>2 DEF Tick, inWheel
  <2>4. CASE UNCHANGED wheelVars
    BY <2>4 DEF wheelVars, inWheel
  <2> QED
    BY <2>1, <2>2, <2>3, <2>4 DEF WheelNext
<1> QED
  BY <1>1, <1>2, PTL DEF WheelSpec

-------------------------------------------------------------------------------
\* The distance to a slot is less than a turn.
LEMMA DistanceInRange ==
  ASSUME WheelTypeOK, NEW t \in inWheel
  PROVE  /\ Distance(t) \in 0 .. N - 1
         /\ Distance(t) = 0 <=> slotOf[t] = current
  BY NAssumption DEF WheelTypeOK, Distance

\* Every step of the wheel is a step of the countdown, or leaves it unchanged.
LEMMA CountStep ==
  ASSUME WheelTypeOK, WheelTypeOK', [WheelNext]_wheelVars
  PROVE  [Count!Next]_([t \in inWheel |-> Remaining(t)])
<1> DEFINE count == [t \in inWheel |-> Remaining(t)]
           delays == {Ticks(timeout) : timeout \in {x \in Timeouts : x >= 0}}
<1>1. ASSUME NEW t \in Timers, NEW timeout \in Timeouts, Put(t, timeout)
      PROVE  Count!Next
  <2> DEFINE k == Ticks(timeout)
  <2>1. k \in Nat /\ k \in delays
    BY <1>1, TicksIsNat DEF Put
  <2>2. /\ k % N \in 0 .. N - 1 /\ k \div N \in Nat
        /\ k = (k \div N) * N + (k % N)
    BY <2>1, DivMod, NAssumption
  <2>3. SlotAfter(k) = IF current + (k % N) < N THEN current + (k % N)
                                             ELSE current + (k % N) - N
    <3>1. PICK d \in 0 .. N : d = k % N
      BY <2>2, NAssumption
    <3>2. current \in 0 .. N - 1
      BY DEF WheelTypeOK
    <3> QED
      BY <3>1, <3>2, WrapsOnce, NAssumption DEF SlotAfter
  <2>4. /\ current' = current /\ inWheel' = inWheel \cup {t} /\ t \notin inWheel
        /\ slotOf'[t] = SlotAfter(k) /\ turns'[t] = k \div N
        /\ \A u \in inWheel : slotOf'[u] = slotOf[u] /\ turns'[u] = turns[u]
    BY <1>1 DEF Put, inWheel
  <2> HIDE DEF k
  <2>5. Remaining(t)' = k
    BY <2>2, <2>3, <2>4, NAssumption DEF Remaining, Distance, WheelTypeOK
  <2>6. \A u \in inWheel : Remaining(u)' = Remaining(u)
    BY <2>4 DEF Remaining, Distance
  <2>7. Count!Add(t, k)
    BY <2>4, <2>5, <2>6 DEF Count!Add
  <2> QED
    BY <2>1, <2>7 DEF Count!Next
<1>2. ASSUME NEW t \in Timers, Take(t)
      PROVE  Count!Next
  <2>1. Count!Del(t)
    BY <1>2 DEF Take, inWheel, Count!Del, Remaining, Distance
  <2> QED
    BY <2>1 DEF Count!Next
<1>3. CASE Tick
  <2>1. current' = IF current + 1 < N THEN current + 1 ELSE 0
    <3>1. current \in 0 .. N - 1 /\ 1 \in 0 .. N
      BY NAssumption DEF WheelTypeOK
    <3>2. (current + 1) % N = IF current + 1 < N THEN current + 1 ELSE current + 1 - N
      BY <3>1, WrapsOnce, NAssumption
    <3> QED
      BY <1>3, <3>1, <3>2, NAssumption DEF Tick
  <2>2. inWheel' = inWheel \ Expired
    BY <1>3 DEF Tick, inWheel
  <2>3. ASSUME NEW t \in inWheel
        PROVE  /\ Remaining(t) \in Nat
               /\ Remaining(t) > 0 <=> t \notin Expired
    <3>1. turns[t] \in Nat
      BY DEF WheelTypeOK
    <3> QED
      BY <3>1, DistanceInRange, Turns, NAssumption DEF Expired, Remaining
  <2>4. ASSUME NEW t \in inWheel \ Expired
        PROVE  Remaining(t)' = Remaining(t) - 1
    <3>1. /\ slotOf'[t] = slotOf[t]
          /\ turns'[t] = IF slotOf[t] = current THEN turns[t] - 1 ELSE turns[t]
          /\ turns[t] \in Nat /\ slotOf[t] \in 0 .. N - 1 /\ current \in 0 .. N - 1
      BY <1>3 DEF Tick, WheelTypeOK
    <3>2. CASE slotOf[t] = current
      BY <2>1, <3>1, <3>2, Turns, NAssumption DEF Remaining, Distance
    <3>3. CASE slotOf[t] # current
      <4>1. turns[t] * N \in Nat
        BY <3>1, Turns, NAssumption
      <4>2. Distance(t)' = Distance(t) - 1 /\ Distance(t) \in Nat
        BY <2>1, <3>1, <3>3, NAssumption DEF Distance
      <4> QED
        BY <3>1, <3>3, <4>1, <4>2 DEF Remaining
    <3> QED
      BY <3>2, <3>3
  <2>5. Count!Tick
    <3>1. {t \in DOMAIN count : count[t] > 0} = inWheel \ Expired
      BY <2>3
    <3>2. count' = [t \in inWheel \ Expired |-> count[t] - 1]
      BY <2>2, <2>4
    <3> QED
      BY <3>1, <3>2 DEF Count!Tick
  <2> QED
    BY <2>5 DEF Count!Next
<1>4. CASE UNCHANGED wheelVars
  BY <1>4 DEF wheelVars, inWheel, Remaining, Distance
<1> QED
  BY <1>1, <1>2, <1>3, <1>4 DEF WheelNext

\* The slots and turns of the wheel implement a count of ticks per timer.
THEOREM WheelImplementsCountdown == WheelSpec => CountSpec
<1>1. WheelInit => Count!Init
  BY DEF WheelInit, Count!Init, inWheel
<1>2. WheelTypeOK /\ WheelTypeOK' /\ [WheelNext]_wheelVars
        => [Count!Next]_([t \in inWheel |-> Remaining(t)])
  BY CountStep
<1> QED
  BY <1>1, <1>2, WheelTypeCorrect, PTL DEF WheelSpec, CountSpec, Count!Spec

-------------------------------------------------------------------------------
(* The lists of the wheel. *)

InSlot(s) == {t \in live : time_slot[t] = s}

\* What each slot's list is, without the types and the walk.
ListsHold == \A s \in 0 .. N - 1 : From(slots[s]) = InSlot(s)
HeadsHaveNoPrev == \A s \in 0 .. N - 1 : slots[s] # NULL => prev[slots[s]] = NULL
LinksAgree ==
  \A t \in live : /\ next[t] # NULL => prev[next[t]] = t
                  /\ prev[t] # NULL => next[prev[t]] = t

\* Nothing is left in a timer that is not in the wheel.
DeletedAreClear == \A t \in Timers \ live : next[t] = NULL /\ prev[t] = NULL

\* The walk is at a timer of the current slot; between two ticks there is none.
WalkInList ==
  /\ tmp # NULL => tmp \in From(slots[cur_slot])
  /\ ~ticking => tmp = NULL

Lists == ListsHold /\ HeadsHaveNoPrev /\ LinksAgree /\ DeletedAreClear

Inv == TypeOK /\ Lists /\ WalkInList

\* What it says of the list that t is in.
LEMMA ListOf ==
  ASSUME TypeOK, Lists, NEW t \in live
  PROVE  LET s == time_slot[t]
             top == slots[s]
         IN /\ s \in 0 .. N - 1
            /\ t \in From(top) /\ top \in From(top) /\ top \in live /\ time_slot[top] = s
            /\ \A u \in From(top) : u \in live /\ time_slot[u] = s
            /\ \A u \in From(top) : next[u] \in Timers => prev[next[u]] = u
            /\ prev[top] = NULL
            /\ next[t] # NULL => next[t] \in From(top)
            /\ t \notin From(next[t])
<1> DEFINE s == time_slot[t]
           top == slots[s]
<1>1. s \in 0 .. N - 1 /\ live \subseteq Timers
  BY DEF TypeOK
<1>2. From(top) = InSlot(s)
  BY <1>1 DEF Lists, ListsHold
<1>3. t \in From(top) /\ \A u \in From(top) : u \in live /\ time_slot[u] = s
  BY <1>2 DEF InSlot
<1>4. top \in Timers /\ top \in From(top)
  BY <1>3, ChainHas DEF From
<1>5. \A u \in From(top) : next[u] \in Timers => prev[next[u]] = u
  BY <1>3, NULLAssumption DEF Lists, LinksAgree
<1>6. prev[top] = NULL
  BY <1>1, <1>4, NULLAssumption DEF Lists, HeadsHaveNoPrev
<1>7. next[t] # NULL => next[t] \in From(top)
  <2>1. next[t] \in Timers \cup {NULL}
    BY <1>1 DEF TypeOK
  <2> QED
    BY <1>3, <2>1, ChainHas DEF From
<1>8. t \notin From(next[t])
  <2>1. \A u \in Chain(top, next, Timers) : next[u] \in Timers => prev[next[u]] = u
    BY <1>5 DEF From
  <2>2. prev[top] \notin Timers /\ t \in Chain(top, next, Timers)
    BY <1>3, <1>6, NULLAssumption DEF From
  <2> QED
    BY <2>1, <2>2, ChainAcyclic DEF From
<1> QED
  BY <1>1, <1>3, <1>4, <1>5, <1>6, <1>7, <1>8

\* The first timer of a list is taken out.
LEMMA UnlinkHead ==
  ASSUME TypeOK, Lists, NEW t \in live, slots[time_slot[t]] = t,
         Unlink(t, time_slot[t]), Delete(t)
  PROVE  /\ Lists'
         /\ Chain(next[t], next', Timers) = From(next[t])
<1> DEFINE s == time_slot[t]
           q == next[t]
<1>0. /\ s \in 0 .. N - 1 /\ t \in Timers /\ prev[t] = NULL
      /\ t \notin From(q)
      /\ t \in From(t)
      /\ next \in [Timers -> Timers \cup {NULL}] /\ prev \in [Timers -> Timers \cup {NULL}]
      /\ slots \in [0 .. N - 1 -> Timers \cup {NULL}]
      /\ live \subseteq Timers /\ q \in Timers \cup {NULL}
  BY ListOf DEF TypeOK
<1>1. /\ slots' = [slots EXCEPT ![s] = q]
      /\ prev' = [u \in Timers |-> IF u \in {t, q} THEN NULL ELSE prev[u]]
      /\ next' = [next EXCEPT ![t] = NULL]
  BY DEF Unlink
<1>2. live' = live \ {t} /\ \A u \in live' : time_slot'[u] = time_slot[u]
  BY DEF Delete, TypeOK
<1>3. \A p : t \notin From(p) => Chain(p, next', Timers) = From(p)
  <2> SUFFICES ASSUME NEW p, t \notin From(p) PROVE Chain(p, next', Timers) = From(p)
    OBVIOUS
  <2>1. \A u \in Chain(p, next, Timers) : next'[u] = next[u]
    BY <1>0, <1>1, ChainHas DEF From
  <2> QED
    BY <2>1, ChainSame DEF From
<1>4. ListsHold'
  <2> SUFFICES ASSUME NEW r \in 0 .. N - 1
               PROVE  Chain(slots'[r], next', Timers) = {u \in live' : time_slot'[u] = r}
    BY DEF ListsHold, From, InSlot
  <2>1. From(slots[r]) = {u \in live : time_slot[u] = r}
    BY DEF Lists, ListsHold, InSlot
  <2>2. CASE r = s
    <3>1. slots'[r] = q
      BY <1>0, <1>1, <2>2
    <3>2. From(t) = {t} \cup From(q)
      BY <1>0, ChainFirst DEF From
    <3>3. Chain(slots'[r], next', Timers) = From(t) \ {t}
      BY <1>0, <1>3, <3>1, <3>2
    <3> QED
      BY <1>2, <2>1, <2>2, <3>3
  <2>3. CASE r # s
    <3>1. slots'[r] = slots[r] /\ t \notin From(slots[r])
      BY <1>0, <1>1, <2>1, <2>3
    <3> QED
      BY <1>2, <1>3, <2>1, <2>3, <3>1
  <2> QED
    BY <2>2, <2>3
<1>5. HeadsHaveNoPrev'
  BY <1>0, <1>1 DEF Lists, HeadsHaveNoPrev
<1>6. LinksAgree'
  <2> SUFFICES ASSUME NEW u \in live'
               PROVE  /\ next'[u] # NULL => prev'[next'[u]] = u
                      /\ prev'[u] # NULL => next'[prev'[u]] = u
    BY DEF LinksAgree
  <2>1. u \in live /\ u # t /\ u \in Timers /\ next'[u] = next[u]
    BY <1>0, <1>1, <1>2
  <2>2. next[u] # NULL => prev[next[u]] = u /\ next[u] \in Timers
    BY <1>0, <2>1 DEF Lists, LinksAgree
  <2>3. next[u] # NULL => next[u] # t /\ next[u] # q
    <3>1. q # NULL => prev[q] = t
      BY DEF Lists, LinksAgree
    <3> QED
      BY <1>0, <2>1, <2>2, <3>1, NULLAssumption
  <2>4. prev'[u] # NULL => prev'[u] = prev[u] /\ u # q /\ prev[u] \in Timers /\ next[prev[u]] = u
    BY <1>0, <1>1, <2>1 DEF Lists, LinksAgree
  <2> QED
    BY <1>0, <1>1, <2>1, <2>2, <2>3, <2>4
<1>7. DeletedAreClear'
  BY <1>0, <1>1, <1>2 DEF Lists, DeletedAreClear
<1> QED
  BY <1>0, <1>3, <1>4, <1>5, <1>6, <1>7 DEF Lists

\* A timer behind the first is taken out.
LEMMA UnlinkFurther ==
  ASSUME TypeOK, Lists, NEW t \in live, slots[time_slot[t]] # t,
         Unlink(t, time_slot[t]), Delete(t)
  PROVE  /\ Lists'
         /\ Chain(next[t], next', Timers) = From(next[t])
<1> DEFINE s == time_slot[t]
           top == slots[s]
           q == next[t]
           v == prev[t]
<1>0. /\ s \in 0 .. N - 1 /\ t \in Timers /\ t \in From(top)
      /\ \A u \in From(top) : u \in live /\ time_slot[u] = s
      /\ t \notin From(q)
      /\ next \in [Timers -> Timers \cup {NULL}] /\ prev \in [Timers -> Timers \cup {NULL}]
      /\ slots \in [0 .. N - 1 -> Timers \cup {NULL}]
      /\ live \subseteq Timers /\ q \in Timers \cup {NULL}
      /\ \A u \in live : next[u] # NULL => prev[next[u]] = u
      /\ \A u \in live : prev[u] # NULL => next[prev[u]] = u
  BY ListOf DEF TypeOK, Lists, LinksAgree
<1>1. v \in From(top) /\ v # t /\ next[v] = t /\ v \in live /\ v \in Timers
  <2>1. \E w \in From(top) : w # t /\ next[w] = t
    BY <1>0, ChainBefore DEF From
  <2> QED
    BY <1>0, <2>1, NULLAssumption
<1>2. q # t
  BY <1>0, <1>1, NULLAssumption
<1>3. /\ next' = [next EXCEPT ![v] = q, ![t] = NULL]
      /\ prev' = [u \in Timers |-> IF u = t THEN NULL ELSE IF u = q THEN v ELSE prev[u]]
      /\ slots' = slots
  BY DEF Unlink
<1>4. live' = live \ {t} /\ \A u \in live' : time_slot'[u] = time_slot[u]
  BY DEF Delete, TypeOK
<1>5. \A p : t \notin From(p) => Chain(p, next', Timers) = From(p)
  <2> SUFFICES ASSUME NEW p, t \notin From(p) PROVE Chain(p, next', Timers) = From(p)
    OBVIOUS
  <2>1. v \notin From(p)
    BY <1>0, <1>1, ChainHas DEF From
  <2>2. \A u \in Chain(p, next, Timers) : next'[u] = next[u]
    BY <1>0, <1>3, <2>1, ChainHas DEF From
  <2> QED
    BY <2>2, ChainSame DEF From
<1>6. Chain(top, next', Timers) = From(top) \ {t}
  <2>1. \A u \in Chain(top, next, Timers) : next[u] = t => u = v
    BY <1>0, NULLAssumption DEF From
  <2>2. \A u \in Timers \ {v, t} : next'[u] = next[u]
    BY <1>0, <1>3
  <2>3. next'[v] = next[t]
    BY <1>0, <1>1, <1>3
  <2>4. t \in Chain(top, next, Timers) /\ t # top
    BY <1>0 DEF From
  <2> QED
    BY <1>1, <1>2, <2>1, <2>2, <2>3, <2>4, ChainWithout DEF From
<1>7. ListsHold'
  <2> SUFFICES ASSUME NEW r \in 0 .. N - 1
               PROVE  Chain(slots[r], next', Timers) = {u \in live' : time_slot'[u] = r}
    BY <1>3 DEF ListsHold, From, InSlot
  <2>1. From(slots[r]) = {u \in live : time_slot[u] = r}
    BY DEF Lists, ListsHold, InSlot
  <2>2. CASE r = s
    BY <1>4, <1>6, <2>1, <2>2
  <2>3. CASE r # s
    <3>1. t \notin From(slots[r])
      BY <2>1, <2>3
    <3> QED
      BY <1>4, <1>5, <2>1, <2>3, <3>1
  <2> QED
    BY <2>2, <2>3
<1>8. HeadsHaveNoPrev'
  <2> SUFFICES ASSUME NEW r \in 0 .. N - 1, slots[r] # NULL PROVE prev'[slots[r]] = NULL
    BY <1>3 DEF HeadsHaveNoPrev
  <2>1. slots[r] \in Timers /\ prev[slots[r]] = NULL
    BY <1>0 DEF Lists, HeadsHaveNoPrev
  <2>2. slots[r] # q
    BY <1>0, <2>1, NULLAssumption
  <2> QED
    BY <1>3, <2>1, <2>2
<1>9. LinksAgree'
  <2> SUFFICES ASSUME NEW u \in live'
               PROVE  /\ next'[u] # NULL => prev'[next'[u]] = u
                      /\ prev'[u] # NULL => next'[prev'[u]] = u
    BY DEF LinksAgree
  <2>1. u \in live /\ u # t /\ u \in Timers
    BY <1>0, <1>4
  <2>2. next'[u] # NULL => prev'[next'[u]] = u
    <3>1. CASE u = v
      BY <1>0, <1>1, <1>2, <1>3, <3>1
    <3>2. CASE u # v
      <4>1. next'[u] = next[u] /\ (next[u] # NULL => prev[next[u]] = u /\ next[u] \in Timers)
        BY <1>0, <1>3, <2>1, <3>2
      <4>2. next[u] # NULL => next[u] # t /\ next[u] # q
        BY <1>0, <2>1, <3>2, <4>1
      <4> QED
        BY <1>3, <4>1, <4>2
    <3> QED
      BY <3>1, <3>2
  <2>3. prev'[u] # NULL => next'[prev'[u]] = u
    <3>1. CASE u = q
      BY <1>0, <1>1, <1>2, <1>3, <2>1, <3>1
    <3>2. CASE u # q
      <4>1. prev'[u] = prev[u] /\ (prev[u] # NULL => next[prev[u]] = u /\ prev[u] \in Timers)
        BY <1>0, <1>3, <2>1, <3>2
      <4>2. prev[u] # NULL => prev[u] # t /\ prev[u] # v
        BY <1>1, <2>1, <3>2, <4>1
      <4> QED
        BY <1>0, <1>3, <4>1, <4>2
    <3> QED
      BY <3>1, <3>2
  <2> QED
    BY <2>2, <2>3
<1>10. DeletedAreClear'
  <2> SUFFICES ASSUME NEW u \in Timers \ live' PROVE next'[u] = NULL /\ prev'[u] = NULL
    BY DEF DeletedAreClear
  <2>1. CASE u = t
    BY <1>0, <1>3, <2>1
  <2>2. CASE u # t
    <3>1. u \notin live /\ next[u] = NULL /\ prev[u] = NULL /\ u # v
      BY <1>1, <1>4, <2>2 DEF Lists, DeletedAreClear
    <3>2. u # q
      BY <1>0, <1>1, <3>1, NULLAssumption
    <3> QED
      BY <1>0, <1>3, <2>2, <3>1, <3>2
  <2> QED
    BY <2>1, <2>2
<1> QED
  BY <1>0, <1>5, <1>7, <1>8, <1>9, <1>10 DEF Lists

\* A timer is taken out of its list, wherever it is in it.
LEMMA UnlinkStep ==
  ASSUME TypeOK, Lists, NEW t \in live, Unlink(t, time_slot[t]), Delete(t)
  PROVE  /\ Lists'
         /\ Chain(next[t], next', Timers) = From(next[t])
BY UnlinkHead, UnlinkFurther

\* The variables stay what they are.
LEMMA UnlinkTypes ==
  ASSUME TypeOK, Lists, NEW t \in live, Unlink(t, time_slot[t]), Delete(t)
  PROVE  /\ slots' \in [0 .. N - 1 -> Timers \cup {NULL}]
         /\ next' \in [Timers -> Timers \cup {NULL}]
         /\ prev' \in [Timers -> Timers \cup {NULL}]
         /\ time_slot' \in [Timers -> 0 .. N - 1]
         /\ rotation' \in [Timers -> Nat]
         /\ live' \in SUBSET Timers
<1>1. /\ t \in Timers /\ next[t] \in Timers \cup {NULL} /\ prev[t] \in Timers \cup {NULL}
      /\ slots \in [0 .. N - 1 -> Timers \cup {NULL}]
      /\ next \in [Timers -> Timers \cup {NULL}] /\ prev \in [Timers -> Timers \cup {NULL}]
      /\ time_slot \in [Timers -> 0 .. N - 1] /\ rotation \in [Timers -> Nat]
      /\ live \in SUBSET Timers
  BY DEF TypeOK
<1>2. /\ slots' = slots \/ slots' = [slots EXCEPT ![time_slot[t]] = next[t]]
      /\ \/ next' = [next EXCEPT ![t] = NULL]
         \/ next' = [next EXCEPT ![prev[t]] = next[t], ![t] = NULL]
      /\ \/ prev' = [u \in Timers |-> IF u \in {t, next[t]} THEN NULL ELSE prev[u]]
         \/ prev' = [u \in Timers |-> IF u = t THEN NULL
                                      ELSE IF u = next[t] THEN prev[t] ELSE prev[u]]
  BY DEF Unlink
<1>3. slots' \in [0 .. N - 1 -> Timers \cup {NULL}]
  BY <1>1, <1>2
<1>4. next' \in [Timers -> Timers \cup {NULL}]
  BY <1>1, <1>2
<1>5. prev' \in [Timers -> Timers \cup {NULL}]
  BY <1>1, <1>2
<1>6. time_slot' \in [Timers -> 0 .. N - 1] /\ rotation' \in [Timers -> Nat]
  <2>1. 0 \in 0 .. N - 1 /\ 0 \in Nat
    BY NAssumption
  <2>2. time_slot' = [time_slot EXCEPT ![t] = 0] /\ rotation' = [rotation EXCEPT ![t] = 0]
    BY DEF Delete
  <2> QED
    BY <1>1, <2>1, <2>2
<1>7. live' \in SUBSET Timers
  BY <1>1 DEF Delete
<1> QED
  BY <1>3, <1>4, <1>5, <1>6, <1>7

\* A new timer goes to the front of a list, which is otherwise the same.
LEMMA AddKeeps ==
  ASSUME Inv, NEW t \in Timers, NEW timeout \in Timeouts, AddTimer(t, timeout)
  PROVE  Inv'
<1> DEFINE ticks == Ticks(timeout)
           s == (cur_slot + (ticks % N)) % N
           first == slots[s]
<1>1. ticks \in Nat
  <2>1. timeout \in Int /\ timeout >= 0 /\ SI \in Nat \ {0}
    BY TimeoutsAssumption, SIAssumption DEF AddTimer
  <2> QED
    BY <2>1 DEF Ticks
<1>2. s \in 0 .. N - 1 /\ ticks \div N \in Nat
  <2>1. cur_slot \in Nat /\ ticks % N \in Nat
    BY <1>1, NAssumption DEF Inv, TypeOK
  <2> HIDE DEF ticks
  <2> QED
    BY <1>1, <2>1, NAssumption
<1>3. /\ ~ticking /\ t \notin live /\ live' = live \cup {t}
      /\ rotation' = [rotation EXCEPT ![t] = ticks \div N]
      /\ time_slot' = [time_slot EXCEPT ![t] = s]
      /\ next' = [next EXCEPT ![t] = first]
      /\ prev' = IF first = NULL THEN prev ELSE [prev EXCEPT ![first] = t]
      /\ slots' = [slots EXCEPT ![s] = t]
      /\ UNCHANGED <<cur_slot, ticking, tmp>>
  BY DEF AddTimer, Rotation
<1> HIDE DEF ticks, s
<1>4. /\ next \in [Timers -> Timers \cup {NULL}] /\ prev \in [Timers -> Timers \cup {NULL}]
      /\ slots \in [0 .. N - 1 -> Timers \cup {NULL}]
      /\ time_slot \in [Timers -> 0 .. N - 1] /\ rotation \in [Timers -> Nat]
      /\ live \subseteq Timers /\ first \in Timers \cup {NULL}
      /\ next[t] = NULL /\ prev[t] = NULL
  BY <1>2, <1>3 DEF Inv, TypeOK, Lists, DeletedAreClear
<1>5. first # NULL => first \in live /\ prev[first] = NULL /\ first # t
  <2>1. From(first) = InSlot(s)
    BY <1>2 DEF Inv, Lists, ListsHold
  <2>2. first # NULL => first \in From(first)
    BY <1>4, ChainHas DEF From
  <2> QED
    BY <1>2, <1>3, <2>1, <2>2 DEF Inv, Lists, HeadsHaveNoPrev, InSlot
<1>6. TypeOK'
  <2>1. next' \in [Timers -> Timers \cup {NULL}] /\ slots' \in [0 .. N - 1 -> Timers \cup {NULL}]
    BY <1>2, <1>3, <1>4
  <2>2. prev' \in [Timers -> Timers \cup {NULL}]
    BY <1>3, <1>4
  <2>3. time_slot' \in [Timers -> 0 .. N - 1]
    BY <1>2, <1>3, <1>4
  <2>4. rotation' \in [Timers -> Nat]
    BY <1>2, <1>3, <1>4
  <2> QED
    BY <1>3, <2>1, <2>2, <2>3, <2>4 DEF Inv, TypeOK
<1>7. ListsHold'
  <2> SUFFICES ASSUME NEW r \in 0 .. N - 1
               PROVE  Chain(slots'[r], next', Timers) = {u \in live' : time_slot'[u] = r}
    BY DEF ListsHold, From, InSlot
  <2>1. From(slots[r]) = {u \in live : time_slot[u] = r}
    BY DEF Inv, Lists, ListsHold, InSlot
  <2>2. Chain(slots[r], next', Timers) = From(slots[r])
    <3>1. \A u \in Chain(slots[r], next, Timers) : next'[u] = next[u]
      BY <1>3, <1>4, <2>1 DEF From
    <3> QED
      BY <3>1, ChainSame DEF From
  <2>3. CASE r = s
    <3>1. slots'[r] = t /\ next'[t] = slots[r]
      BY <1>2, <1>3, <1>4, <2>3
    <3>2. Chain(t, next', Timers) = {t} \cup Chain(slots[r], next', Timers)
      BY <3>1, ChainFirst
    <3>3. {u \in live' : time_slot'[u] = r} = {t} \cup {u \in live : time_slot[u] = r}
      <4>1. t \in live' /\ time_slot'[t] = r
        BY <1>3, <1>4, <2>3
      <4>2. \A u \in live : u \in live' /\ time_slot'[u] = time_slot[u]
        BY <1>3, <1>4
      <4>3. \A u \in live' : u = t \/ u \in live
        BY <1>3
      <4> QED
        BY <4>1, <4>2, <4>3
    <3> QED
      BY <2>1, <2>2, <3>1, <3>2, <3>3
  <2>4. CASE r # s
    <3>1. slots'[r] = slots[r]
      BY <1>2, <1>3, <1>4, <2>4
    <3>2. {u \in live' : time_slot'[u] = r} = {u \in live : time_slot[u] = r}
      <4>1. time_slot'[t] # r
        BY <1>2, <1>3, <1>4, <2>4
      <4>2. \A u \in live : u \in live' /\ time_slot'[u] = time_slot[u]
        BY <1>3, <1>4
      <4>3. \A u \in live' : u = t \/ u \in live
        BY <1>3
      <4> QED
        BY <4>1, <4>2, <4>3
    <3> QED
      BY <2>1, <2>2, <3>1, <3>2
  <2> QED
    BY <2>3, <2>4
<1>8. HeadsHaveNoPrev'
  <2> SUFFICES ASSUME NEW r \in 0 .. N - 1, slots'[r] # NULL PROVE prev'[slots'[r]] = NULL
    BY DEF HeadsHaveNoPrev
  <2>1. CASE r = s
    <3>1. slots'[r] = t
      BY <1>2, <1>3, <1>4, <2>1
    <3> QED
      BY <1>3, <1>4, <1>5, <3>1
  <2>2. CASE r # s
    <3>1. slots'[r] = slots[r] /\ slots[r] \in Timers /\ prev[slots[r]] = NULL
      BY <1>2, <1>3, <1>4, <2>2 DEF Inv, Lists, HeadsHaveNoPrev
    <3>2. slots[r] # first
      <4>1. slots[r] \in InSlot(r)
        BY <3>1, ChainHas DEF Inv, Lists, ListsHold, From
      <4>2. first # NULL => first \in InSlot(s)
        BY <1>2, <1>4, ChainHas DEF Inv, Lists, ListsHold, From
      <4> QED
        BY <2>2, <3>1, <4>1, <4>2, NULLAssumption DEF InSlot
    <3> QED
      BY <1>3, <1>4, <3>1, <3>2
  <2> QED
    BY <2>1, <2>2
<1>9. LinksAgree'
  <2> SUFFICES ASSUME NEW u \in live'
               PROVE  /\ next'[u] # NULL => prev'[next'[u]] = u
                      /\ prev'[u] # NULL => next'[prev'[u]] = u
    BY DEF LinksAgree
  <2>1. CASE u = t
    BY <1>3, <1>4, <1>5, <2>1
  <2>2. CASE u # t
    <3>1. /\ u \in live /\ u \in Timers /\ next'[u] = next[u]
          /\ next[u] # NULL => prev[next[u]] = u /\ next[u] \in Timers
          /\ prev[u] # NULL => next[prev[u]] = u /\ prev[u] \in Timers
      BY <1>3, <1>4, <2>2 DEF Inv, Lists, LinksAgree
    <3>2. next[u] # NULL => next[u] # first
      BY <1>5, <3>1, NULLAssumption
    <3>3. next'[u] # NULL => prev'[next'[u]] = u
      BY <1>3, <1>4, <3>1, <3>2
    <3>4. prev'[u] # NULL => next'[prev'[u]] = u
      <4>1. CASE u = first
        BY <1>3, <1>4, <3>1, <4>1, NULLAssumption
      <4>2. CASE u # first
        <5>1. prev'[u] = prev[u] /\ (prev[u] # NULL => prev[u] # t)
          BY <1>3, <1>4, <3>1, <4>2, NULLAssumption
        <5> QED
          BY <1>3, <1>4, <3>1, <5>1
      <4> QED
        BY <4>1, <4>2
    <3> QED
      BY <3>3, <3>4
  <2> QED
    BY <2>1, <2>2
<1>10. DeletedAreClear'
  <2> SUFFICES ASSUME NEW u \in Timers \ live' PROVE next'[u] = NULL /\ prev'[u] = NULL
    BY DEF DeletedAreClear
  <2>1. u # t /\ u \notin live /\ next[u] = NULL /\ prev[u] = NULL
    BY <1>3 DEF Inv, Lists, DeletedAreClear
  <2> QED
    BY <1>3, <1>4, <1>5, <2>1
<1>11. WalkInList'
  BY <1>3 DEF Inv, WalkInList
<1> QED
  BY <1>6, <1>7, <1>8, <1>9, <1>10, <1>11 DEF Inv, Lists

LEMMA InvInit == Init => Inv
<1> SUFFICES ASSUME Init PROVE Inv
  OBVIOUS
<1> USE NAssumption DEF Init
<1>1. TypeOK
  <2>1. 0 \in 0 .. N - 1 /\ 0 \in Nat
    OBVIOUS
  <2>2. /\ slots \in [0 .. N - 1 -> Timers \cup {NULL}]
        /\ next \in [Timers -> Timers \cup {NULL}]
        /\ prev \in [Timers -> Timers \cup {NULL}]
    OBVIOUS
  <2>3. time_slot \in [Timers -> 0 .. N - 1] /\ rotation \in [Timers -> Nat]
    BY <2>1
  <2>4. live \in SUBSET Timers /\ ticking \in BOOLEAN
    BY Zenon
  <2> QED
    BY <2>1, <2>2, <2>3, <2>4 DEF TypeOK
<1>2. ListsHold
  <2>1. Chain(NULL, next, Timers) = {}
    BY ChainHas, NULLAssumption
  <2> QED
    BY <2>1 DEF ListsHold, From, InSlot
<1>3. HeadsHaveNoPrev /\ LinksAgree /\ DeletedAreClear /\ WalkInList
  BY DEF HeadsHaveNoPrev, LinksAgree, DeletedAreClear, WalkInList
<1> QED
  BY <1>1, <1>2, <1>3 DEF Inv, Lists

\* The walk takes a timer that is due out of the list, and goes on behind it.
LEMMA FireStep ==
  ASSUME Inv, TickFire
  PROVE  /\ Inv'
         /\ From(tmp)' = From(next[tmp])
         /\ From(tmp) = {tmp} \cup From(next[tmp]) /\ tmp \notin From(next[tmp])
<1>1. /\ ticking /\ tmp # NULL /\ Unlink(tmp, cur_slot) /\ Delete(tmp)
      /\ tmp' = next[tmp] /\ UNCHANGED <<cur_slot, ticking>>
  BY DEF TickFire
<1>2. /\ tmp \in live /\ time_slot[tmp] = cur_slot
      /\ cur_slot \in 0 .. N - 1 /\ live \subseteq Timers
  BY <1>1 DEF Inv, TypeOK, WalkInList, Lists, ListsHold, InSlot
<1>3. /\ Lists'
      /\ Chain(next[tmp], next', Timers) = From(next[tmp])
  BY <1>1, <1>2, UnlinkStep DEF Inv
<1>4. From(tmp) = {tmp} \cup From(next[tmp])
  BY <1>2, ChainFirst DEF From
<1>5. next[tmp] # NULL => next[tmp] \in From(slots[cur_slot])
  BY <1>2, ListOf DEF Inv
<1>6. tmp \notin From(next[tmp])
  BY <1>2, ListOf DEF Inv
<1>7. From(tmp)' = From(next[tmp])
  BY <1>1, <1>3 DEF From
<1>8. WalkInList'
  <2>1. tmp' # NULL => tmp' \in live /\ time_slot[tmp'] = cur_slot /\ tmp' # tmp
    <3>1. next[tmp] # NULL => next[tmp] \in InSlot(cur_slot) /\ next[tmp] \in Timers
      BY <1>2, <1>5 DEF Inv, TypeOK, Lists, ListsHold
    <3>2. next[tmp] # NULL => next[tmp] \in From(next[tmp])
      BY <3>1, ChainHas DEF From
    <3> QED
      BY <1>1, <1>6, <3>1, <3>2 DEF InSlot
  <2>2. tmp' # NULL => tmp' \in live' /\ time_slot'[tmp'] = cur_slot
    BY <1>1, <1>2, <2>1 DEF Delete, Inv, TypeOK
  <2>3. From(slots[cur_slot])' = InSlot(cur_slot)'
    BY <1>1, <1>2, <1>3 DEF Lists, ListsHold
  <2> QED
    BY <1>1, <2>2, <2>3 DEF WalkInList, InSlot
<1>9. TypeOK'
  <2>1. tmp' \in Timers \cup {NULL}
    BY <1>1, <1>2 DEF Inv, TypeOK
  <2> QED
    BY <1>1, <1>2, <2>1, UnlinkTypes DEF Inv, TypeOK
<1> QED
  BY <1>1, <1>3, <1>4, <1>6, <1>7, <1>8, <1>9 DEF Inv

\* The walk passes a timer that has turns to wait.
LEMMA TurnStep ==
  ASSUME Inv, TickTurn
  PROVE  /\ Inv'
         /\ From(tmp)' = From(next[tmp])
         /\ From(tmp) = {tmp} \cup From(next[tmp]) /\ tmp \notin From(next[tmp])
         /\ tmp \in live
<1>1. /\ ticking /\ tmp # NULL /\ rotation[tmp] > 0
      /\ rotation' = [rotation EXCEPT ![tmp] = @ - 1] /\ tmp' = next[tmp]
      /\ UNCHANGED <<slots, next, prev, time_slot, live, cur_slot, ticking>>
  BY DEF TickTurn
<1>2. /\ tmp \in live /\ time_slot[tmp] = cur_slot
      /\ cur_slot \in 0 .. N - 1 /\ live \subseteq Timers
  BY <1>1 DEF Inv, TypeOK, WalkInList, Lists, ListsHold, InSlot
<1>3. From(tmp) = {tmp} \cup From(next[tmp])
  BY <1>2, ChainFirst DEF From
<1>4. tmp \notin From(next[tmp]) /\ (next[tmp] # NULL => next[tmp] \in From(slots[cur_slot]))
  BY <1>2, ListOf DEF Inv
<1>5. From(tmp)' = From(next[tmp])
  BY <1>1 DEF From
<1>6. Lists'
  BY <1>1 DEF Inv, Lists, ListsHold, HeadsHaveNoPrev, LinksAgree, DeletedAreClear, InSlot, From
<1>7. WalkInList'
  BY <1>1, <1>4 DEF WalkInList, From
<1>8. TypeOK'
  BY <1>1, <1>2 DEF Inv, TypeOK
<1> QED
  BY <1>2, <1>3, <1>4, <1>5, <1>6, <1>7, <1>8 DEF Inv

LEMMA InvStep == Inv /\ [Next]_vars => Inv'
<1> SUFFICES ASSUME Inv, [Next]_vars PROVE Inv'
  OBVIOUS
<1>1. ASSUME NEW t \in Timers, NEW timeout \in Timeouts, AddTimer(t, timeout)
      PROVE  Inv'
  BY <1>1, AddKeeps
<1>2. ASSUME NEW t \in Timers, DelTimer(t)
      PROVE  Inv'
  <2>1. /\ ~ticking /\ t \in live /\ Unlink(t, time_slot[t]) /\ Delete(t)
        /\ UNCHANGED <<cur_slot, ticking, tmp>>
    BY <1>2 DEF DelTimer
  <2>2. Lists'
    BY <2>1, UnlinkStep DEF Inv
  <2>3. TypeOK'
    BY <2>1, UnlinkTypes DEF Inv, TypeOK
  <2>4. WalkInList'
    BY <2>1 DEF Inv, WalkInList
  <2> QED
    BY <2>2, <2>3, <2>4 DEF Inv
<1>3. CASE TickStart \/ TickEnd \/ UNCHANGED vars
  <2>1. UNCHANGED <<slots, next, prev, time_slot, rotation, live>>
    BY <1>3 DEF TickStart, TickEnd, vars
  <2>2. Lists'
    BY <2>1 DEF Inv, Lists, ListsHold, HeadsHaveNoPrev, LinksAgree, DeletedAreClear, InSlot, From
  <2>3. TypeOK' /\ WalkInList'
    <3>1. CASE TickStart
      <4>1. slots[cur_slot] # NULL => slots[cur_slot] \in From(slots[cur_slot])
        BY ChainHas DEF Inv, TypeOK, From
      <4> QED
        BY <3>1, <4>1 DEF TickStart, Inv, TypeOK, WalkInList, From
    <3>2. CASE TickEnd
      <4>1. (cur_slot + 1) % N \in 0 .. N - 1
        BY NAssumption DEF Inv, TypeOK
      <4> QED
        BY <3>2, <4>1 DEF TickEnd, Inv, TypeOK, WalkInList
    <3>3. CASE UNCHANGED vars
      BY <3>3 DEF vars, Inv, TypeOK, WalkInList, From
    <3> QED
      BY <1>3, <3>1, <3>2, <3>3
  <2> QED
    BY <2>2, <2>3 DEF Inv
<1>4. CASE TickTurn
  BY <1>4, TurnStep
<1>5. CASE TickFire
  BY <1>5, FireStep
<1> QED
  BY <1>1, <1>2, <1>3, <1>4, <1>5 DEF Next

\* At every step of add_timer, del_timer and tick (src/TIMER/tw_timer.h:52-139) each timer
\* is in the list of its slot, the lists can be followed in both directions, and no deleted
\* timer can be reached.
THEOREM WellLinkedCorrect == Spec => []WellLinked
<1>1. Inv => WellLinked
  BY DEF Inv, Lists, ListsHold, HeadsHaveNoPrev, LinksAgree, WalkInList, WellLinked, InSlot
<1> QED
  BY <1>1, InvInit, InvStep, PTL DEF Spec
-------------------------------------------------------------------------------
(* The lists implement the sets of WheelSlots. *)

\* The state of the wheel as WheelSlots sees it.
SetsCurrent == IF ticking THEN (cur_slot + 1) % N ELSE cur_slot
TurnsLeft(t) == IF t \in Rest THEN rotation[t] - 1 ELSE rotation[t]

\* A step that leaves the timers kept, their slots and their turns as they are is
\* none for WheelSlots.
LEMMA SameSets ==
  ASSUME SetsCurrent' = SetsCurrent, Kept' = Kept,
         \A u \in Kept : time_slot'[u] = time_slot[u] /\ TurnsLeft(u)' = TurnsLeft(u)
  PROVE  UNCHANGED Sets!wheelVars
<1>1. [t \in Kept |-> time_slot[t]]' = [t \in Kept |-> time_slot[t]]
  OBVIOUS
<1>2. [t \in Kept |-> IF t \in Rest THEN rotation[t] - 1 ELSE rotation[t]]'
        = [t \in Kept |-> IF t \in Rest THEN rotation[t] - 1 ELSE rotation[t]]
  BY DEF TurnsLeft
<1> QED
  BY <1>1, <1>2 DEF Sets!wheelVars, SetsCurrent

\* Between ticks the wheel keeps every timer there is.
LEMMA BetweenTicks ==
  /\ ~ticking => Rest = {} /\ Kept = live
  /\ ~ticking' => Rest' = {} /\ Kept' = live'
BY DEF Rest, Kept

\* add_timer and del_timer are the steps of the same kind, the start of a tick is the
\* whole tick, and the steps of its loop are none.
LEMMA SetsStep ==
  ASSUME Inv, Inv', [Next]_vars
  PROVE  [Sets!WheelNext]_(Sets!wheelVars)
<1>1. ASSUME NEW t \in Timers, NEW timeout \in Timeouts, AddTimer(t, timeout)
      PROVE  Sets!Put(t, timeout)
  <2>1. /\ ~ticking /\ ~ticking' /\ cur_slot' = cur_slot /\ timeout >= 0
        /\ t \notin live /\ live' = live \cup {t}
        /\ rotation' = [rotation EXCEPT ![t] = Ticks(timeout) \div N]
        /\ time_slot' = [time_slot EXCEPT ![t] = (cur_slot + (Ticks(timeout) % N)) % N]
    BY <1>1 DEF AddTimer, Rotation
  <2>2. /\ Rest = {} /\ Kept = live /\ Rest' = {} /\ Kept' = live \cup {t}
    BY <2>1, BetweenTicks
  <2>3. /\ time_slot \in [Timers -> 0 .. N - 1] /\ rotation \in [Timers -> Nat]
        /\ live \subseteq Timers
    BY DEF Inv, TypeOK
  <2>4. Sets!inWheel = Kept
    BY DEF Sets!inWheel
  <2>5. /\ Sets!Ticks(timeout) = Ticks(timeout)
        /\ Sets!SlotAfter(Ticks(timeout)) = (cur_slot + (Ticks(timeout) % N)) % N
    BY <2>1 DEF Sets!Ticks, Ticks, Sets!SlotAfter
  <2>6. [u \in Kept |-> time_slot[u]]'
          = [u \in Sets!inWheel \cup {t} |->
               IF u = t THEN Sets!SlotAfter(Ticks(timeout))
               ELSE [v \in Kept |-> time_slot[v]][u]]
    BY <2>1, <2>2, <2>3, <2>4, <2>5
  <2>7. [u \in Kept |-> IF u \in Rest THEN rotation[u] - 1 ELSE rotation[u]]'
          = [u \in Sets!inWheel \cup {t} |->
               IF u = t THEN Ticks(timeout) \div N
               ELSE [v \in Kept |-> IF v \in Rest THEN rotation[v] - 1 ELSE rotation[v]][u]]
    BY <2>1, <2>2, <2>3, <2>4
  <2>8. UNCHANGED (IF ticking THEN (cur_slot + 1) % N ELSE cur_slot)
    BY <2>1
  <2> QED
    BY <2>1, <2>2, <2>4, <2>5, <2>6, <2>7, <2>8 DEF Sets!Put
<1>2. ASSUME NEW t \in Timers, DelTimer(t)
      PROVE  Sets!Take(t)
  <2>1. /\ ~ticking /\ ~ticking' /\ cur_slot' = cur_slot /\ t \in live
        /\ live' = live \ {t}
        /\ rotation' = [rotation EXCEPT ![t] = 0]
        /\ time_slot' = [time_slot EXCEPT ![t] = 0]
    BY <1>2 DEF DelTimer, Delete
  <2>2. /\ Rest = {} /\ Kept = live /\ Rest' = {} /\ Kept' = live \ {t}
    BY <2>1, BetweenTicks
  <2>3. /\ time_slot \in [Timers -> 0 .. N - 1] /\ rotation \in [Timers -> Nat]
        /\ live \subseteq Timers
    BY DEF Inv, TypeOK
  <2>4. [u \in Kept |-> time_slot[u]]'
          = [u \in Kept \ {t} |-> [v \in Kept |-> time_slot[v]][u]]
    BY <2>1, <2>2, <2>3
  <2>5. [u \in Kept |-> IF u \in Rest THEN rotation[u] - 1 ELSE rotation[u]]'
          = [u \in Kept \ {t} |->
               [v \in Kept |-> IF v \in Rest THEN rotation[v] - 1 ELSE rotation[v]][u]]
    BY <2>1, <2>2, <2>3
  <2> QED
    BY <2>1, <2>2, <2>4, <2>5 DEF Sets!Take, Sets!inWheel
<1>3. CASE TickStart
  <2>1. /\ ~ticking /\ ticking' /\ tmp' = slots[cur_slot]
        /\ UNCHANGED <<slots, next, prev, time_slot, rotation, live, cur_slot>>
    BY <1>3 DEF TickStart
  <2>2. Rest = {} /\ Kept = live
    BY <2>1, BetweenTicks
  <2>3. Rest' = {t \in live : time_slot[t] = cur_slot}
    <3>1. Rest' = Chain(slots[cur_slot], next, Timers)
      BY <2>1 DEF Rest, From
    <3> QED
      BY <3>1 DEF Inv, TypeOK, Lists, ListsHold, From, InSlot
  <2>4. Kept' = {t \in live : time_slot[t] = cur_slot => rotation[t] > 0}
    BY <2>1, <2>3 DEF Kept
  <2>5. /\ live \subseteq Timers /\ \A t \in live : rotation[t] \in Nat
    BY DEF Inv, TypeOK
  <2>6. Sets!Expired = {t \in live : time_slot[t] = cur_slot /\ rotation[t] = 0}
    BY <2>1, <2>2 DEF Sets!Expired, Sets!inWheel
  <2>7. Kept' = live \ Sets!Expired
    BY <2>4, <2>5, <2>6
  <2>8. [u \in Kept |-> time_slot[u]]'
          = [u \in Kept \ Sets!Expired |-> [v \in Kept |-> time_slot[v]][u]]
    BY <2>1, <2>2, <2>7
  <2>9. [u \in Kept |-> IF u \in Rest THEN rotation[u] - 1 ELSE rotation[u]]'
          = [u \in Kept \ Sets!Expired |->
               IF [v \in Kept |-> time_slot[v]][u] = cur_slot
               THEN [v \in Kept |-> IF v \in Rest THEN rotation[v] - 1 ELSE rotation[v]][u] - 1
               ELSE [v \in Kept |-> IF v \in Rest THEN rotation[v] - 1 ELSE rotation[v]][u]]
    BY <2>1, <2>2, <2>3, <2>7
  <2>10. Sets!Tick
    BY <2>1, <2>2, <2>8, <2>9 DEF Sets!Tick, Sets!inWheel
  <2> QED
    BY <2>10 DEF Sets!WheelNext
<1>4. CASE TickTurn
  <2>1. /\ ticking /\ ticking' /\ rotation[tmp] > 0 /\ tmp \in live
        /\ rotation' = [rotation EXCEPT ![tmp] = @ - 1]
        /\ UNCHANGED <<time_slot, live, cur_slot>>
    BY <1>4, TurnStep DEF TickTurn
  <2>2. Rest = {tmp} \cup Rest' /\ tmp \notin Rest'
    BY <1>4, <2>1, TurnStep DEF Rest
  <2>3. /\ \A u \in live : rotation[u] \in Nat
        /\ \A u \in live : rotation'[u] = IF u = tmp THEN rotation[u] - 1 ELSE rotation[u]
    BY <2>1 DEF Inv, TypeOK
  <2>4. Kept' = Kept
    BY <2>1, <2>2, <2>3 DEF Kept
  <2>5. \A u \in Kept : TurnsLeft(u)' = TurnsLeft(u)
    BY <2>2, <2>3 DEF Kept, TurnsLeft
  <2> QED
    BY <2>1, <2>4, <2>5, SameSets DEF SetsCurrent
<1>5. CASE TickFire
  <2>1. /\ ticking /\ ticking' /\ rotation[tmp] = 0 /\ live' = live \ {tmp}
        /\ rotation' = [rotation EXCEPT ![tmp] = 0]
        /\ time_slot' = [time_slot EXCEPT ![tmp] = 0]
        /\ cur_slot' = cur_slot
    BY <1>5 DEF TickFire, Delete
  <2>2. Rest = {tmp} \cup Rest' /\ tmp \notin Rest'
    BY <1>5, <2>1, FireStep DEF Rest
  <2>3. \A u \in live \ {tmp} : time_slot'[u] = time_slot[u] /\ rotation'[u] = rotation[u]
    BY <2>1 DEF Inv, TypeOK
  <2>4. Kept' = Kept /\ tmp \notin Kept
    BY <2>1, <2>2, <2>3 DEF Kept
  <2>5. \A u \in Kept : time_slot'[u] = time_slot[u] /\ TurnsLeft(u)' = TurnsLeft(u)
    BY <2>2, <2>3, <2>4 DEF Kept, TurnsLeft
  <2> QED
    BY <2>1, <2>4, <2>5, SameSets DEF SetsCurrent
<1>6. CASE TickEnd
  <2>1. /\ ticking /\ ~ticking' /\ tmp = NULL /\ cur_slot' = (cur_slot + 1) % N
        /\ UNCHANGED <<time_slot, rotation, live>>
    BY <1>6 DEF TickEnd
  <2>2. Rest = {} /\ Rest' = {}
    BY <2>1, ChainHas, NULLAssumption DEF Rest, From
  <2>3. Kept = live /\ Kept' = live'
    BY <2>2 DEF Kept
  <2>4. \A u \in Kept : TurnsLeft(u)' = TurnsLeft(u)
    BY <2>1, <2>2 DEF TurnsLeft
  <2> QED
    BY <2>1, <2>3, <2>4, SameSets DEF SetsCurrent
<1>7. CASE UNCHANGED vars
  <2>1. Rest' = Rest
    BY <1>7 DEF vars, Rest, From
  <2>2. Kept' = Kept /\ \A u \in Kept : TurnsLeft(u)' = TurnsLeft(u)
    BY <1>7, <2>1 DEF vars, Kept, TurnsLeft
  <2> QED
    BY <1>7, <2>2, SameSets DEF vars, SetsCurrent
<1> QED
  BY <1>1, <1>2, <1>3, <1>4, <1>5, <1>6, <1>7 DEF Next, Sets!WheelNext

\* The linked lists of tw_timer.h and the loop of tick that deletes as it walks them
\* (src/TIMER/tw_timer.h:97-139) do what one step on the set of each slot does.
THEOREM ListsImplementSets == Spec => SlotsSpec
<1>1. Init => Sets!WheelInit
  <2> SUFFICES ASSUME Init PROVE Sets!WheelInit
    OBVIOUS
  <2>1. ~ticking /\ live = {} /\ cur_slot = 0
    BY DEF Init
  <2>2. Kept = {}
    BY <2>1, BetweenTicks
  <2> QED
    BY <2>1, <2>2 DEF Sets!WheelInit
<1>2. Inv /\ Inv' /\ [Next]_vars => [Sets!WheelNext]_(Sets!wheelVars)
  BY SetsStep
<1> QED
  BY <1>1, <1>2, InvInit, InvStep, PTL DEF Spec, SlotsSpec, Sets!WheelSpec

-------------------------------------------------------------------------------
(* The sorted list. *)

\* SortedList, in parts.
InList == From(head) = Listed
Linked ==
  \A t \in Listed : next[t] # NULL => prev[next[t]] = t /\ expire[t] <= expire[next[t]]
TailIsLast == head # NULL => tail \in Listed /\ next[tail] = NULL
InsertInList == pc = "insert" => at \in Listed /\ expire[at] <= expire[timer]

Sorted == ~wild /\ InList /\ Linked /\ TailIsLast /\ InsertInList

LEMMA PartsOfSortedList == SortedList <=> ListTypeOK /\ (~cut => Sorted)
  BY DEF SortedList, Sorted, InList, Linked, TailIsLast, InsertInList

LEMMA TypeStep == ListTypeOK /\ [ListNext]_listVars => ListTypeOK'
<1> SUFFICES ASSUME ListTypeOK, [ListNext]_listVars PROVE ListTypeOK'
  OBVIOUS
<1> USE DEF ListTypeOK, Pointers
<1>1. CASE UNCHANGED listVars
  BY <1>1 DEF listVars, fields
<1>2. ASSUME GoWild PROVE ListTypeOK'
  BY <1>2 DEF GoWild, fields
<1>3. ASSUME NEW t \in Timers, NEW due \in {now + delay : delay \in Delays}
      PROVE  due \in Nat
  BY <1>3, DelaysAssumption, MaxTimeAssumption
<1>4. ASSUME NEW t \in Timers, NEW due \in Nat,
             AddFirst(t, due) \/ AddInFront(t, due) \/ AddFurther(t, due)
      PROVE  ListTypeOK'
  BY <1>4 DEF AddFirst, AddInFront, AddFurther, Allocate, Idle, StartInsert
<1>5. ASSUME NEW t \in Timers, NEW due \in Nat,
             AdjustStays(t, due) \/ AdjustHead(t, due) \/ AdjustMiddle(t, due)
      PROVE  ListTypeOK'
  BY <1>5 DEF AdjustStays, AdjustHead, AdjustMiddle, PutOff, Idle, StartInsert
<1>6. ASSUME NEW t \in Timers, DelOnly(t) \/ DelHead(t) \/ DelTail(t) \/ DelMiddle(t)
      PROVE  ListTypeOK'
  <2>1. /\ Deleted(t) /\ pc = "idle" /\ live' \in SUBSET Timers
        /\ expire' \in [Timers -> Nat]
        /\ UNCHANGED <<now, pc, timer, at, wild>>
    BY <1>6 DEF DelOnly, DelHead, DelTail, DelMiddle, Deleted, Idle
  <2>2. cut' \in BOOLEAN /\ prev' \in [Timers -> Pointers]
    BY <1>6 DEF DelOnly, DelHead, DelTail, DelMiddle
  <2>4. head' \in Pointers /\ tail' \in Pointers
    BY <1>6 DEF DelOnly, DelHead, DelTail, DelMiddle
  <2>3. next' \in [Timers -> Pointers]
    BY <1>6 DEF DelOnly, DelHead, DelTail, DelMiddle
  <2> QED
    BY <2>1, <2>2, <2>3, <2>4
<1>7. CASE InsertWalk \/ InsertBefore \/ InsertLast
  BY <1>7 DEF InsertWalk, InsertBefore, InsertLast, fields
<1>8. CASE ListTickStart \/ ListTickEnd \/ ListTickFire
  BY <1>8 DEF ListTickStart, ListTickEnd, ListTickFire, fields, Idle
<1>9. CASE Second
  BY <1>9, MaxTimeAssumption DEF Second, fields
<1> QED
  BY <1>1, <1>2, <1>3, <1>4, <1>5, <1>6, <1>7, <1>8, <1>9
     DEF ListNext, ListLoop, AddAtDeletedHead, AdjustAtDeleted, DelAtDeleted, InsertAtDeleted,
         TickAtDeleted

-------------------------------------------------------------------------------
(* What is known of a sorted list. *)

\* Its pointers lead to its members, or nowhere.
LEMMA MembersOf ==
  ASSUME ListTypeOK, InList
  PROVE  /\ Listed \subseteq Timers /\ Listed \subseteq live
         /\ head # NULL => head \in Listed
         /\ head = NULL => Listed = {}
         /\ \A u \in Listed : next[u] # NULL => next[u] \in Listed
<1>1. Listed \subseteq Timers /\ Listed \subseteq live
  BY DEF ListTypeOK, Listed
<1>2. head \in Timers \/ head = NULL
  BY DEF ListTypeOK, Pointers
<1>3. \A u \in Listed : next[u] \in Timers \/ next[u] = NULL
  BY <1>1 DEF ListTypeOK, Pointers
<1> QED
  BY <1>1, <1>2, <1>3, ChainHas, NULLAssumption DEF InList, From

\* Nothing leads to its head, nor in a circle; only its tail leads nowhere.
LEMMA OrderOf ==
  ASSUME ListTypeOK, InList, TailIsLast
  PROVE  \A u \in Listed : /\ next[u] # head /\ next[u] # u
                           /\ next[u] = NULL => u = tail
<1> SUFFICES ASSUME NEW u \in Listed
             PROVE  /\ next[u] # head /\ next[u] # u
                    /\ next[u] = NULL => u = tail
  OBVIOUS
<1>1. head \in Listed /\ tail \in Listed /\ next[tail] = NULL /\ NULL \notin Timers
  BY MembersOf, NULLAssumption DEF TailIsLast
<1>2. head \in Timers /\ u \in Timers
  BY <1>1, MembersOf
<1>3. /\ u \in Chain(head, next, Timers) /\ tail \in Chain(head, next, Timers)
      /\ head \in Chain(head, next, Timers)
      /\ next[tail] \notin Timers
  BY <1>1 DEF InList, From
<1>4. u \notin Chain(next[u], next, Timers) /\ head \notin Chain(next[head], next, Timers)
  BY <1>3, ChainEnds
<1>5. next[u] # u
  BY <1>2, <1>4, ChainHas
<1>6. next[u] # head
  <2> SUFFICES ASSUME next[u] = head PROVE FALSE
    OBVIOUS
  <2>1. u \in Chain(next[u], next, Timers)
    BY <1>3
  <2> QED
    BY <1>4, <2>1
<1>7. ASSUME next[u] = NULL PROVE u = tail
  <2>1. tail \in Chain(u, next, Timers)
    BY <1>3, ChainReaches
  <2>2. Chain(u, next, Timers) = {u}
    BY <1>1, <1>2, <1>7, ChainFirst, ChainHas
  <2> QED
    BY <2>1, <2>2
<1> QED
  BY <1>5, <1>6, <1>7

\* What prev says of a member other than the head.
LEMMA PrevOf ==
  ASSUME ListTypeOK, InList, TailIsLast, Linked, NEW t \in Listed, t # head
  PROVE  /\ prev[t] \in Listed \ {t} /\ next[prev[t]] = t
         /\ \A u \in Listed : next[u] = t => u = prev[t]
<1>1. t \in Timers /\ t # NULL
  BY MembersOf, NULLAssumption
<1>2. PICK v \in Listed : v # t /\ next[v] = t
  BY ChainBefore DEF InList, From
<1> QED
  BY <1>1, <1>2 DEF Linked

\* Past the head, the list goes on as before, wherever the head itself points.
LEMMA RestOf ==
  ASSUME ListTypeOK, InList, TailIsLast, head # NULL, NEW m,
         \A u \in Listed \ {head} : m[u] = next[u]
  PROVE  Chain(next[head], m, Timers) = Listed \ {head}
<1>1. /\ Chain(head, next, Timers) = Listed
      /\ tail \in Listed /\ next[tail] = NULL /\ NULL \notin Timers
  BY NULLAssumption DEF InList, From, TailIsLast
<1> QED
  BY <1>1, ChainRest

-------------------------------------------------------------------------------
(* add_timer. *)

\* A timer in an empty list, or in front of the head.
LEMMA AddStep ==
  ASSUME ListTypeOK, Sorted, NEW t \in Timers, NEW due \in Nat,
         AddFirst(t, due) \/ AddInFront(t, due) \/ AddFurther(t, due)
  PROVE  Sorted'
<1> USE NULLAssumption
<1>1. /\ InList /\ Linked /\ TailIsLast /\ pc = "idle" /\ ~wild' /\ Listed = live
      /\ t \notin live /\ live' = live \cup {t}
      /\ expire' = [expire EXCEPT ![t] = due] /\ expire \in [Timers -> Nat]
      /\ next \in [Timers -> Pointers] /\ prev \in [Timers -> Pointers]
  BY DEF Sorted, AddFirst, AddInFront, AddFurther, Allocate, Idle, Listed, ListTypeOK
<1>2. /\ live \subseteq Timers
      /\ head # NULL => head \in live
      /\ head = NULL => live = {}
      /\ \A u \in live : next[u] # NULL => next[u] \in live
  BY <1>1, MembersOf
<1>3. /\ expire'[t] = due /\ t # NULL
      /\ \A u \in live : expire'[u] = expire[u] /\ expire[u] \in Nat /\ u # t /\ u # NULL
  BY <1>1, <1>2
<1>4. CASE AddFirst(t, due)
  <2>1. /\ head' = t /\ tail' = t /\ Listed' = {t} /\ next'[t] = NULL /\ pc' = "idle"
    BY <1>1, <1>2, <1>4 DEF AddFirst, Listed
  <2>2. InList'
    BY <2>1, ChainFirst, ChainHas DEF InList, From
  <2>3. Linked' /\ TailIsLast' /\ InsertInList'
    BY <2>1 DEF Linked, TailIsLast, InsertInList
  <2> QED
    BY <1>1, <2>2, <2>3 DEF Sorted
<1>5. CASE AddInFront(t, due)
  <2>1. /\ head \in live /\ due < expire[head] /\ head' = t /\ tail' = tail
        /\ Listed' = live \cup {t} /\ pc' = "idle"
        /\ next'[t] = head /\ prev'[head] = t
        /\ \A u \in live : next'[u] = next[u]
        /\ \A u \in live \ {head} : prev'[u] = prev[u]
    BY <1>1, <1>2, <1>3, <1>5 DEF AddInFront, Listed
  <2>2. InList'
    <3>1. Chain(head, next', Timers) = live
      BY <1>1, <2>1, ChainSame DEF InList, From
    <3> QED
      BY <2>1, <3>1, ChainFirst DEF InList, From
  <2>3. Linked'
    <3> SUFFICES ASSUME NEW u \in live \cup {t}, next'[u] # NULL
                 PROVE  prev'[next'[u]] = u /\ expire'[u] <= expire'[next'[u]]
      BY <2>1 DEF Linked
    <3>1. CASE u = t
      BY <1>1, <1>3, <2>1, <3>1
    <3>2. CASE u \in live
      <4>1. next'[u] = next[u] /\ next[u] \in live
        BY <1>2, <2>1, <3>2
      <4>2. next[u] # head
        <5>1. InList /\ TailIsLast /\ u \in Listed
          BY <1>1, <3>2
        <5> QED
          BY <5>1, OrderOf
      <4> QED
        BY <1>1, <1>3, <2>1, <3>2, <4>1, <4>2 DEF Linked
    <3> QED
      BY <3>1, <3>2
  <2>4. TailIsLast' /\ InsertInList'
    BY <1>1, <1>2, <2>1 DEF TailIsLast, InsertInList
  <2> QED
    BY <1>1, <2>2, <2>3, <2>4 DEF Sorted
<1>6. CASE AddFurther(t, due)
  <2>1. /\ head \in live /\ due >= expire[head] /\ head' = head /\ tail' = tail
        /\ Listed' = live /\ pc' = "insert" /\ timer' = t /\ at' = head
        /\ \A u \in live : next'[u] = next[u] /\ prev'[u] = prev[u]
    BY <1>1, <1>2, <1>3, <1>6 DEF AddFurther, StartInsert, Listed
  <2>2. InList'
    BY <1>1, <2>1, ChainSame DEF InList, From
  <2>3. Linked' /\ TailIsLast'
    BY <1>1, <1>2, <1>3, <2>1 DEF Linked, TailIsLast
  <2>4. InsertInList'
    BY <1>1, <1>3, <2>1 DEF InsertInList
  <2> QED
    BY <1>1, <2>2, <2>3, <2>4 DEF Sorted
<1> QED
  BY <1>4, <1>5, <1>6

\* The walk of an insertion, and its end behind the timer it is at.
LEMMA InsertStep ==
  ASSUME ListTypeOK, Sorted, InsertWalk \/ InsertBefore \/ InsertLast
  PROVE  Sorted'
<1> USE NULLAssumption
<1>1. /\ InList /\ Linked /\ TailIsLast /\ InsertInList /\ pc = "insert" /\ ~wild'
      /\ Listed = live \ {timer} /\ timer \in live
      /\ at \in Listed /\ expire[at] <= expire[timer]
      /\ expire \in [Timers -> Nat] /\ live' = live /\ expire' = expire /\ head' = head
  BY DEF Sorted, InsertWalk, InsertBefore, InsertLast, Listed, ListTypeOK, InsertInList, fields
<1>2. /\ Listed \subseteq Timers /\ live \subseteq Timers
      /\ head # NULL => head \in Listed
      /\ head = NULL => Listed = {}
      /\ \A u \in Listed : next[u] # NULL => next[u] \in Listed
  BY <1>1, MembersOf DEF ListTypeOK
<1>3. CASE InsertWalk
  <2>1. /\ next[at] \in live /\ expire[next[at]] <= expire[timer] /\ at' = next[at]
        /\ UNCHANGED <<head, tail, fields, live, pc, timer>>
    BY <1>3 DEF InsertWalk
  <2>2. at' \in Listed
    BY <1>1, <1>2, <2>1
  <2> QED
    BY <1>1, <2>1, <2>2 DEF Sorted, InList, From, Listed, Linked, TailIsLast, InsertInList, fields
<1>4. CASE InsertBefore \/ InsertLast
  <2>1. /\ pc' = "idle" /\ Listed' = Listed \cup {timer} /\ timer \notin Listed
        /\ next'[at] = timer /\ next'[timer] = next[at]
        /\ \A u \in Listed \ {at} : next'[u] = next[u]
        /\ prev'[timer] = at
    BY <1>1, <1>2, <1>4 DEF InsertBefore, InsertLast, Listed, ListTypeOK
  <2>2. InList'
    BY <1>1, <1>2, <2>1, ChainWith DEF InList, From
  <2>3. ASSUME NEW u \in Listed \ {at}, next[u] # NULL
        PROVE  /\ prev'[next[u]] = prev[next[u]] /\ next[u] \in Listed /\ next[u] # timer
    <3>1. next[u] \in Listed /\ prev[next[u]] = u /\ next[u] # next[at]
      BY <1>1, <1>2, <2>3 DEF Linked
    <3> QED
      BY <1>2, <1>4, <2>1, <3>1 DEF InsertBefore, InsertLast, ListTypeOK
  <2>4. next[at] # NULL => prev'[next[at]] = timer /\ expire[timer] <= expire[next[at]]
    BY <1>1, <1>2, <1>4 DEF InsertBefore, InsertLast, ListTypeOK
  <2>5. Linked'
    <3> SUFFICES ASSUME NEW u \in Listed \cup {timer}, next'[u] # NULL
                 PROVE  prev'[next'[u]] = u /\ expire[u] <= expire[next'[u]]
      BY <1>1, <2>1 DEF Linked
    <3>1. CASE u = at
      BY <1>1, <2>1, <3>1
    <3>2. CASE u = timer
      BY <2>1, <2>4, <3>2
    <3>3. CASE u \in Listed \ {at}
      BY <1>1, <2>1, <2>3, <3>3 DEF Linked
    <3> QED
      BY <3>1, <3>2, <3>3
  <2>6. TailIsLast'
    <3>1. CASE next[at] = NULL
      <4>1. tail' = timer
        BY <1>4, <3>1 DEF InsertBefore, InsertLast, ListTypeOK
      <4> QED
        BY <2>1, <3>1, <4>1 DEF TailIsLast
    <3>2. CASE next[at] # NULL
      <4>1. tail' = tail /\ tail \in Listed /\ next[tail] = NULL /\ tail # at
        BY <1>1, <1>2, <1>4, <3>2 DEF InsertBefore, InsertLast, TailIsLast
      <4> QED
        BY <2>1, <4>1 DEF TailIsLast
    <3> QED
      BY <3>1, <3>2
  <2> QED
    BY <1>1, <2>1, <2>2, <2>5, <2>6 DEF Sorted, InsertInList
<1> QED
  BY <1>3, <1>4

-------------------------------------------------------------------------------
(* adjust_timer. *)

\* The timer is due later, but not later than the next one.
LEMMA AdjustStaysStep ==
  ASSUME ListTypeOK, Sorted, NEW t \in Timers, NEW due \in Nat, AdjustStays(t, due)
  PROVE  Sorted'
<1>1. /\ ~wild' /\ InList /\ Linked /\ TailIsLast /\ pc = "idle" /\ Listed = live /\ t \in live
      /\ due >= expire[t] /\ expire' = [expire EXCEPT ![t] = due]
      /\ expire \in [Timers -> Nat] /\ live \subseteq Timers
      /\ next[t] = NULL \/ due < expire'[next[t]]
      /\ UNCHANGED <<head, tail, next, prev, live, pc>>
  BY DEF Sorted, AdjustStays, PutOff, Idle, Listed, ListTypeOK
<1>2. /\ \A u \in live : next[u] # NULL => next[u] \in live
      /\ \A u \in live : expire[u] \in Nat /\ expire'[u] = IF u = t THEN due ELSE expire[u]
  BY <1>1, MembersOf
<1>3. Listed' = live
  BY <1>1 DEF Listed
<1>4. Linked'
  <2> SUFFICES ASSUME NEW u \in live, next[u] # NULL
               PROVE  prev[next[u]] = u /\ expire'[u] <= expire'[next[u]]
    BY <1>1, <1>3 DEF Linked
  <2>1. prev[next[u]] = u /\ expire[u] <= expire[next[u]] /\ next[u] \in live
    BY <1>1, <1>2 DEF Linked
  <2> QED
    BY <1>1, <1>2, <2>1
<1> QED
  BY <1>1, <1>3, <1>4 DEF Sorted, InList, From, TailIsLast, InsertInList

\* The timer is taken out of its place, and its walk begins at the one that followed it.
LEMMA AdjustStep ==
  ASSUME ListTypeOK, Sorted, NEW t \in Timers, NEW due \in Nat,
         AdjustHead(t, due) \/ AdjustMiddle(t, due)
  PROVE  Sorted'
<1> USE NULLAssumption
<1>1. /\ ~wild' /\ InList /\ Linked /\ TailIsLast /\ pc = "idle" /\ Listed = live /\ t \in live
      /\ due >= expire[t] /\ expire' = [expire EXCEPT ![t] = due]
      /\ next[t] \in live /\ due >= expire'[next[t]]
      /\ pc' = "insert" /\ timer' = t /\ at' = next[t] /\ live' = live /\ tail' = tail
  BY DEF Sorted, AdjustHead, AdjustMiddle, PutOff, StartInsert, Idle, Listed
<1>2. /\ expire \in [Timers -> Nat] /\ live \subseteq Timers
      /\ next \in [Timers -> Pointers] /\ prev \in [Timers -> Pointers]
  BY DEF ListTypeOK
<1>3. Listed' = live \ {t}
  BY <1>1 DEF Listed
<1>4. /\ \A u \in live : next[u] # NULL => next[u] \in live
      /\ head # NULL /\ head \in live /\ tail \in live /\ next[tail] = NULL
      /\ NULL \notin live
  BY <1>1, <1>2, MembersOf DEF TailIsLast
<1>5. \A u \in live : next[u] # head /\ next[u] # u
  <2>1. \A u \in Listed : next[u] # head /\ next[u] # u
    BY <1>1, OrderOf
  <2> QED
    BY <1>1, <2>1
<1>6. /\ at' \in Listed' /\ expire'[at'] <= expire'[timer']
      /\ \A u \in Listed' : expire'[u] = expire[u]
  BY <1>1, <1>2, <1>3, <1>5
<1>7. tail # t
  BY <1>1, <1>4
<1>8. CASE AdjustHead(t, due)
  <2>1. /\ t = head /\ head' = next[head]
        /\ \A u \in live \ {t} : next'[u] = next[u]
        /\ \A u \in live \ {next[t]} : prev'[u] = prev[u]
    BY <1>2, <1>8 DEF AdjustHead
  <2>2. InList'
    <3>1. \A u \in Listed \ {head} : next'[u] = next[u]
      BY <1>1, <2>1
    <3>2. Chain(next[head], next', Timers) = Listed \ {head}
      BY <1>1, <1>4, <3>1, RestOf
    <3> QED
      BY <1>1, <1>3, <2>1, <3>2 DEF InList, From
  <2>3. Linked'
    <3> SUFFICES ASSUME NEW u \in Listed', next'[u] # NULL
                 PROVE  prev'[next'[u]] = u /\ expire'[u] <= expire'[next'[u]]
      BY DEF Linked
    <3>1. u \in live /\ u # t /\ next'[u] = next[u] /\ next[u] \in live /\ next[u] # t
      BY <1>3, <1>4, <1>5, <2>1
    <3>2. prev[next[u]] = u /\ expire[u] <= expire[next[u]] /\ prev[next[t]] = t
      BY <1>1, <1>4, <3>1 DEF Linked
    <3>3. next[u] # next[t] /\ next[u] \in Listed'
      BY <1>3, <3>1, <3>2
    <3> QED
      BY <1>6, <2>1, <3>1, <3>2, <3>3
  <2>4. TailIsLast'
    BY <1>1, <1>3, <1>4, <1>7, <2>1 DEF TailIsLast
  <2> QED
    BY <1>1, <1>6, <2>2, <2>3, <2>4 DEF Sorted, InsertInList
<1>9. CASE AdjustMiddle(t, due)
  <2>1. t # head /\ head' = head
    BY <1>9 DEF AdjustMiddle
  <2>2. PICK v \in live : /\ v = prev[t] /\ v # t /\ next[v] = t
                         /\ \A u \in live : next[u] = t => u = v
    <3>1. t \in Listed
      BY <1>1
    <3>2. /\ prev[t] \in Listed \ {t} /\ next[prev[t]] = t
          /\ \A u \in Listed : next[u] = t => u = prev[t]
      BY <1>1, <2>1, <3>1, PrevOf
    <3> QED
      BY <1>1, <3>2
  <2>3. next' = [next EXCEPT ![v] = next[t]] /\ prev' = [prev EXCEPT ![next[t]] = v]
    BY <1>9, <2>2 DEF AdjustMiddle
  <2>4. /\ next'[v] = next[t] /\ \A u \in Timers \ {v} : next'[u] = next[u]
        /\ prev'[next[t]] = v /\ \A u \in live \ {next[t]} : prev'[u] = prev[u]
    BY <1>1, <1>2, <2>2, <2>3
  <2>5. InList'
    <3>1. Chain(head, next, Timers) = live
      BY <1>1 DEF InList, From
    <3>2. Chain(head, next', Timers) = live \ {t}
      BY <1>1, <1>2, <1>5, <2>1, <2>2, <2>4, <3>1, ChainWithout
    <3> QED
      BY <1>3, <2>1, <3>2 DEF InList, From
  <2>6. Linked'
    <3> SUFFICES ASSUME NEW u \in Listed', next'[u] # NULL
                 PROVE  prev'[next'[u]] = u /\ expire'[u] <= expire'[next'[u]]
      BY DEF Linked
    <3>1. u \in live /\ u # t
      BY <1>3
    <3>2. CASE u = v
      <4>1. next'[u] = next[t] /\ prev'[next'[u]] = u
        BY <2>4, <3>2
      <4>2. expire[v] <= expire[t] /\ expire[t] <= expire[next[t]]
        BY <1>1, <1>4, <2>2 DEF Linked
      <4>3. expire[v] <= expire[next[t]]
        <5>1. expire[v] \in Nat /\ expire[t] \in Nat /\ expire[next[t]] \in Nat
          BY <1>1, <1>2, <2>2
        <5> QED
          BY <4>2, <5>1
      <4>4. next[t] \in Listed'
        BY <1>1, <1>3, <1>5
      <4> QED
        BY <1>6, <3>2, <4>1, <4>3, <4>4
    <3>3. CASE u # v
      <4>1. next'[u] = next[u] /\ next[u] \in live /\ next[u] # t
        BY <1>2, <1>4, <2>2, <2>4, <3>1, <3>3
      <4>2. prev[next[u]] = u /\ expire[u] <= expire[next[u]] /\ prev[next[t]] = t
        BY <1>1, <1>4, <3>1, <4>1 DEF Linked
      <4>3. next[u] # next[t] /\ next[u] \in Listed'
        BY <1>3, <3>1, <4>1, <4>2
      <4> QED
        BY <1>6, <2>4, <4>1, <4>2, <4>3
    <3> QED
      BY <3>2, <3>3
  <2>7. TailIsLast'
    <3>1. tail # v /\ tail \in Timers
      BY <1>1, <1>2, <1>4, <2>2
    <3> QED
      BY <1>1, <1>3, <1>4, <1>7, <2>4, <3>1 DEF TailIsLast
  <2> QED
    BY <1>1, <1>6, <2>5, <2>6, <2>7 DEF Sorted, InsertInList
<1> QED
  BY <1>8, <1>9

-------------------------------------------------------------------------------
(* del_timer and tick. *)

\* The head is deleted, by del_timer or tick, and the list begins at the second timer.
LEMMA HeadDeleted ==
  ASSUME ListTypeOK, Sorted, head # NULL,
         head' = next[head], live' = live \ {head}, Listed = live, Listed' = live',
         \A u \in live \ {head} : next'[u] = next[u] /\ expire'[u] = expire[u],
         \A u \in live \ {head, next[head]} : prev'[u] = prev[u],
         next[head] # NULL => tail' = tail
  PROVE  InList' /\ Linked' /\ TailIsLast'
<1>1. InList /\ Linked /\ TailIsLast
  BY DEF Sorted
<1>2. InList'
  <2>1. Chain(next[head], next', Timers) = live \ {head}
    BY <1>1, RestOf
  <2> QED
    BY <2>1 DEF InList, From
<1>3. /\ head \in live /\ tail \in live /\ next[tail] = NULL
      /\ \A u \in live : next[u] # NULL => next[u] \in live
  BY <1>1, MembersOf DEF TailIsLast
<1>4. \A u \in live : next[u] # head
  BY <1>1, OrderOf
<1>5. Linked'
  <2> SUFFICES ASSUME NEW u \in live \ {head}, next'[u] # NULL
               PROVE  prev'[next'[u]] = u /\ expire'[u] <= expire'[next'[u]]
    BY DEF Linked
  <2>1. next'[u] = next[u] /\ next[u] \in live \ {head}
    BY <1>3, <1>4
  <2>2. prev[next[u]] = u /\ expire[u] <= expire[next[u]]
    BY <1>1, <2>1 DEF Linked
  <2>3. next[u] # next[head]
    BY <1>1, <1>3, <2>1, <2>2 DEF Linked
  <2> QED
    BY <2>1, <2>2, <2>3
<1>6. TailIsLast'
  <2> SUFFICES ASSUME next[head] # NULL PROVE tail' \in live \ {head} /\ next'[tail'] = NULL
    BY DEF TailIsLast
  <2> QED
    BY <1>3
<1> QED
  BY <1>2, <1>5, <1>6

\* Unless a tail is deleted, the list goes on without the timer.
LEMMA DelStep ==
  ASSUME ListTypeOK, Sorted, NEW t \in Timers,
         DelOnly(t) \/ DelHead(t) \/ DelTail(t) \/ DelMiddle(t), ~cut'
  PROVE  Sorted'
<1> USE NULLAssumption
<1>1. /\ InList /\ Linked /\ TailIsLast /\ ~wild' /\ pc = "idle" /\ pc' = "idle"
      /\ t \in live /\ live' = live \ {t} /\ Listed = live /\ Listed' = live'
      /\ expire' = [expire EXCEPT ![t] = 0] /\ ~DelTail(t)
  BY DEF Sorted, DelOnly, DelHead, DelTail, DelMiddle, Deleted, Idle, Listed
<1>2. /\ expire \in [Timers -> Nat] /\ live \subseteq Timers
      /\ next \in [Timers -> Pointers] /\ prev \in [Timers -> Pointers]
  BY DEF ListTypeOK
<1>3. /\ \A u \in live : next[u] # NULL => next[u] \in live
      /\ head # NULL /\ head \in live /\ tail \in live /\ next[tail] = NULL
  BY <1>1, MembersOf DEF TailIsLast
<1>4. \A u \in Timers \ {t} : expire'[u] = expire[u]
  BY <1>1, <1>2
<1>5. CASE DelOnly(t) \/ DelHead(t)
  <2>1. /\ t = head /\ head' = next[head]
        /\ next' = [next EXCEPT ![t] = NULL] /\ prev' = [prev EXCEPT ![t] = NULL]
        /\ next[head] # NULL => tail' = tail
    BY <1>3, <1>5 DEF DelOnly, DelHead
  <2>2. /\ \A u \in live \ {head} : next'[u] = next[u] /\ expire'[u] = expire[u]
        /\ \A u \in live \ {head, next[head]} : prev'[u] = prev[u]
    BY <1>2, <1>4, <2>1
  <2>3. InList' /\ Linked' /\ TailIsLast'
    BY <1>1, <1>3, <2>1, <2>2, HeadDeleted
  <2> QED
    BY <1>1, <2>3 DEF Sorted, InsertInList
<1>6. CASE DelMiddle(t)
  <2>1. t # head /\ t # tail /\ head' = head /\ tail' = tail
    BY <1>6 DEF DelMiddle
  <2>2. PICK v \in live : /\ v = prev[t] /\ v # t /\ next[v] = t
                         /\ \A u \in live : next[u] = t => u = v
    <3>1. t \in Listed
      BY <1>1
    <3>2. /\ prev[t] \in Listed \ {t} /\ next[prev[t]] = t
          /\ \A u \in Listed : next[u] = t => u = prev[t]
      BY <1>1, <2>1, <3>1, PrevOf
    <3> QED
      BY <1>1, <3>2
  <2>3. /\ next' = [next EXCEPT ![v] = next[t], ![t] = NULL] /\ next[t] \in live
        /\ prev' = [prev EXCEPT ![next[t]] = v, ![t] = NULL]
    BY <1>6, <2>2 DEF DelMiddle
  <2>4. next[t] # t
    <3>1. t \in Listed
      BY <1>1
    <3> QED
      BY <1>1, <3>1, OrderOf
  <2>5. /\ next'[v] = next[t] /\ \A u \in Timers \ {v, t} : next'[u] = next[u]
        /\ prev'[next[t]] = v /\ \A u \in live \ {next[t], t} : prev'[u] = prev[u]
    BY <1>1, <1>2, <2>2, <2>3, <2>4
  <2>6. InList'
    <3>1. Chain(head, next, Timers) = live
      BY <1>1 DEF InList, From
    <3>2. Chain(head, next', Timers) = live \ {t}
      BY <1>1, <1>2, <2>1, <2>2, <2>4, <2>5, <3>1, ChainWithout
    <3> QED
      BY <1>1, <2>1, <3>2 DEF InList, From
  <2>7. Linked'
    <3> SUFFICES ASSUME NEW u \in live \ {t}, next'[u] # NULL
                 PROVE  prev'[next'[u]] = u /\ expire'[u] <= expire'[next'[u]]
      BY <1>1 DEF Linked
    <3>1. CASE u = v
      <4>1. next'[u] = next[t] /\ prev'[next'[u]] = u
        BY <2>5, <3>1
      <4>2. expire[v] <= expire[t] /\ expire[t] <= expire[next[t]]
        BY <1>1, <1>2, <2>2, <2>3 DEF Linked
      <4>3. expire[v] <= expire[next[t]]
        <5>1. expire[v] \in Nat /\ expire[t] \in Nat /\ expire[next[t]] \in Nat
          BY <1>1, <1>2, <2>2, <2>3
        <5> QED
          BY <4>2, <5>1
      <4> QED
        BY <1>2, <1>4, <2>2, <2>3, <2>4, <3>1, <4>1, <4>3
    <3>2. CASE u # v
      <4>1. next'[u] = next[u] /\ next[u] \in live /\ next[u] # t
        BY <1>2, <1>3, <2>2, <2>5, <3>2
      <4>2. prev[next[u]] = u /\ expire[u] <= expire[next[u]] /\ prev[next[t]] = t
        BY <1>1, <1>2, <2>3, <4>1 DEF Linked
      <4>3. next[u] # next[t]
        BY <4>2
      <4> QED
        BY <1>2, <1>4, <2>5, <4>1, <4>2, <4>3
    <3> QED
      BY <3>1, <3>2
  <2>8. TailIsLast'
    <3>1. tail # v /\ tail \in Timers
      BY <1>1, <1>2, <1>3, <2>2
    <3> QED
      BY <1>1, <1>3, <2>1, <2>5, <3>1 DEF TailIsLast
  <2> QED
    BY <1>1, <2>6, <2>7, <2>8 DEF Sorted, InsertInList
<1> QED
  BY <1>1, <1>5, <1>6

\* tick takes the timers from the head.
LEMMA ListTickFireStep ==
  ASSUME ListTypeOK, Sorted, ListTickFire
  PROVE  Sorted'
<1>1. /\ ~wild' /\ pc = "tick" /\ pc' = "tick" /\ head \in live /\ head' = next[head]
      /\ live' = live \ {head} /\ tail' = tail /\ Listed = live /\ Listed' = live'
      /\ next' = [next EXCEPT ![head] = NULL] /\ expire' = [expire EXCEPT ![head] = 0]
      /\ prev' = [t \in Timers |-> IF t \in {head, next[head]} THEN NULL ELSE prev[t]]
  BY DEF Sorted, ListTickFire, Listed
<1>2. /\ expire \in [Timers -> Nat] /\ live \subseteq Timers /\ head # NULL
      /\ next \in [Timers -> Pointers] /\ prev \in [Timers -> Pointers]
  BY <1>1, NULLAssumption DEF ListTypeOK
<1>3. /\ \A u \in live \ {head} : next'[u] = next[u] /\ expire'[u] = expire[u]
      /\ \A u \in live \ {head, next[head]} : prev'[u] = prev[u]
  BY <1>1, <1>2
<1>4. InList' /\ Linked' /\ TailIsLast'
  BY <1>1, <1>2, <1>3, HeadDeleted
<1> QED
  BY <1>1, <1>4 DEF Sorted, InsertInList

\* No pointer that is used leads to a deleted timer.
LEMMA NeverWild ==
  ASSUME ListTypeOK, Sorted
  PROVE  /\ ~AddAtDeletedHead /\ ~InsertAtDeleted /\ ~TickAtDeleted
         /\ \A t \in Timers, due \in Nat : ~AdjustAtDeleted(t, due)
         /\ \A t \in Timers : ~DelAtDeleted(t)
<1>1. /\ InList /\ Linked /\ TailIsLast /\ InsertInList
      /\ pc # "insert" => Listed = live
      /\ Listed \subseteq live
      /\ head # NULL => head \in Listed
      /\ \A u \in Listed : next[u] # NULL => next[u] \in Listed
  BY MembersOf DEF Sorted, Listed
<1>2. ~AddAtDeletedHead /\ ~InsertAtDeleted /\ ~TickAtDeleted
  BY <1>1 DEF AddAtDeletedHead, InsertAtDeleted, TickAtDeleted, Idle, InsertInList
<1>3. ASSUME NEW t \in Timers, pc = "idle", t \in live, t # head
      PROVE  prev[t] \in live
  <2>1. t \in Listed
    BY <1>1, <1>3
  <2> QED
    BY <1>1, <1>3, <2>1, PrevOf
<1>4. ASSUME NEW t \in Timers, NEW due \in Nat PROVE ~AdjustAtDeleted(t, due)
  BY <1>1, <1>3 DEF AdjustAtDeleted, Idle
<1>5. ASSUME NEW t \in Timers PROVE ~DelAtDeleted(t)
  <2> SUFFICES ASSUME pc = "idle", t \in live, t # head, t # tail
               PROVE  prev[t] \in live /\ next[t] \in live
    BY DEF DelAtDeleted, Idle
  <2>1. t \in Listed
    BY <1>1
  <2>2. next[t] # NULL
    BY <1>1, <2>1, OrderOf
  <2> QED
    BY <1>1, <1>3, <2>1, <2>2
<1> QED
  BY <1>2, <1>4, <1>5

-------------------------------------------------------------------------------
LEMMA SortedInit == ListInit => SortedList
<1> SUFFICES ASSUME ListInit PROVE SortedList
  OBVIOUS
<1> USE DEF ListInit
<1>1. ListTypeOK
  <2>1. wild \in BOOLEAN /\ cut \in BOOLEAN
    OBVIOUS
  <2>2. now \in 0 .. MaxTime
    BY MaxTimeAssumption
  <2> QED
    BY <2>1, <2>2 DEF ListTypeOK, Pointers
<1>2. InList
  BY ChainHas, NULLAssumption DEF InList, From, Listed
<1> QED
  BY <1>1, <1>2, PartsOfSortedList DEF Sorted, Linked, TailIsLast, InsertInList, Listed

\* SortedList is inductive.
LEMMA SortedStep == SortedList /\ [ListNext]_listVars => SortedList'
<1> SUFFICES ASSUME ListTypeOK, ~cut => Sorted, [ListNext]_listVars, ~cut'
             PROVE  Sorted'
  <2>1. SortedList' <=> ListTypeOK' /\ (~cut' => Sorted')
    BY DEF SortedList, Sorted, InList, Linked, TailIsLast, InsertInList
  <2> QED
    BY <2>1, TypeStep, PartsOfSortedList
<1> USE DEF ListNext, ListLoop
<1>1. ~cut
  BY DEF listVars, ListTypeOK, GoWild, AddFirst, AddInFront, AddFurther, AdjustStays, AdjustHead,
         AdjustMiddle, AdjustAtDeleted, AddAtDeletedHead, DelOnly, DelHead, DelTail, DelMiddle,
         DelAtDeleted, ListTickStart, Second, InsertWalk, InsertBefore, InsertLast, InsertAtDeleted,
         ListTickEnd, ListTickFire, TickAtDeleted, PutOff
<1>2. Sorted
  BY <1>1
<1>3. ASSUME NEW t \in Timers, NEW due \in {now + delay : delay \in Delays}
      PROVE  due \in Nat
  BY <1>3, DelaysAssumption, MaxTimeAssumption DEF ListTypeOK
<1>4. CASE UNCHANGED listVars
  BY <1>2, <1>4 DEF listVars, fields, Sorted, InList, From, Listed, Linked, TailIsLast, InsertInList
<1>5. CASE ListTickStart \/ ListTickEnd \/ Second
  <2>1. /\ UNCHANGED <<head, tail, fields, live, timer, at, wild>>
        /\ pc # "insert" /\ pc' # "insert"
    BY <1>5 DEF ListTickStart, ListTickEnd, Second, Idle
  <2> QED
    BY <1>2, <2>1 DEF fields, Sorted, InList, From, Listed, Linked, TailIsLast, InsertInList
<1> QED
  BY <1>2, <1>3, <1>4, <1>5, AddStep, InsertStep, AdjustStaysStep, AdjustStep, DelStep,
     ListTickFireStep, NeverWild

\* Until the tail of a longer list is deleted, the list of class sort_timer_lst
\* (src/TIMER/lst_timer.h:28-151) holds the timers in order of expire, in both directions, and
\* no deleted timer is touched.
THEOREM SortedListCorrect == ListSpec => []SortedList
  BY SortedInit, SortedStep, PTL DEF ListSpec

\* Until then, tick (src/TIMER/lst_timer.h:104-126) runs the earliest of the timers that are
\* due, and leaves none.
THEOREM TickRunsTheDueCorrect == ListSpec => TickRunsTheDue
<1>1. ASSUME SortedList, [ListNext]_listVars, pc = "tick", ~cut
      PROVE  /\ \A t \in live \ live' : expire[t] <= now /\ \A u \in live : expire[t] <= expire[u]
             /\ pc' = "idle" => \A t \in live : expire[t] > now
  <2>1. ListTypeOK /\ Sorted /\ Listed = live
    BY <1>1, PartsOfSortedList DEF Listed
  <2>2. /\ expire \in [Timers -> Nat] /\ now \in Nat
        /\ live = Chain(head, next, Timers) /\ live \subseteq Timers
        /\ \A u \in live : next[u] \in Timers => expire[u] <= expire[next[u]]
        /\ head = NULL => live = {}
    BY <2>1, MembersOf, MaxTimeAssumption, NULLAssumption
       DEF ListTypeOK, Sorted, InList, From, Linked
  <2>3. \A u \in live : expire[head] <= expire[u]
    BY <2>2, ChainAscends
  <2>4. CASE ListTickFire
    <3>1. /\ head \in live /\ live' = live \ {head} /\ pc' = "tick" /\ ~(expire[head] > now)
      BY <1>1, <2>4 DEF ListTickFire, TickIsOver
    <3>2. expire[head] <= now
      BY <2>2, <3>1
    <3> QED
      BY <2>3, <3>1, <3>2
  <2>5. CASE ListTickEnd
    <3>1. live' = live /\ (head = NULL \/ expire[head] > now)
      BY <2>5 DEF ListTickEnd, TickIsOver
    <3>2. ASSUME NEW u \in live PROVE expire[u] > now
      <4>1. expire[head] > now /\ expire[head] <= expire[u] /\ head \in Timers
        BY <2>2, <2>3, <3>1, <3>2, ChainHas
      <4>2. expire[head] \in Nat /\ expire[u] \in Nat
        BY <2>2, <4>1
      <4> QED
        BY <2>2, <4>1, <4>2
    <3> QED
      BY <3>1, <3>2
  <2>6. CASE UNCHANGED <<live, pc>>
    BY <1>1, <2>6
  <2> QED
    BY <1>1, <2>4, <2>5, <2>6
       DEF ListNext, ListLoop, listVars, fields, GoWild, Idle, AddFirst, AddInFront, AddFurther, Allocate,
           AdjustStays, AdjustHead, AdjustMiddle, PutOff, AdjustAtDeleted, AddAtDeletedHead,
           DelOnly, DelHead, DelTail, DelMiddle, Deleted, DelAtDeleted, ListTickStart, Second,
           InsertWalk, InsertBefore, InsertLast, InsertAtDeleted, TickAtDeleted
<1>2. SortedList /\ [ListNext]_listVars =>
        [pc = "tick" /\ ~cut =>
           /\ \A t \in live \ live' : expire[t] <= now /\ \A u \in live : expire[t] <= expire[u]
           /\ pc' = "idle" => \A t \in live : expire[t] > now]_listVars
  BY <1>1
<1> QED
  BY <1>2, SortedListCorrect, PTL DEF ListSpec, TickRunsTheDue
===============================================================================
