---------------------------- MODULE PollChatProofs ----------------------------
(***************************************************************************)
(* Proofs about PollChat, for any USER_LIMIT.                              *)
(***************************************************************************)
EXTENDS PollChat, SequenceTheorems, FiniteSetTheorems, WellFoundedInduction, TLAPS

Reports == {"POLLIN", "POLLRDHUP", "POLLERR", "POLLOUT", "none"}
Entries == [fd : Fds, out : BOOLEAN, revents : Reports]

(* Sequences and minima. *)

\* A function from 1 .. n is a sequence.
LEMMA FunctionIsSeq ==
  ASSUME NEW S, NEW n \in Nat, NEW f, DOMAIN f = 1 .. n, f = [k \in 1 .. n |-> f[k]],
         \A k \in 1 .. n : f[k] \in S
  PROVE  f \in Seq(S) /\ Len(f) = n
<1>1. f \in [1 .. n -> S]
  OBVIOUS
<1> QED
  BY <1>1

\* The order of the natural numbers, as a set of pairs, is well-founded.
Less == {pair \in Nat \X Nat : pair[1] < pair[2]}

LEMMA LessIsWellFounded == IsWellFoundedOn(Less, Nat)
  BY NatLessThanWellFounded, Zenon DEF OpToRel, Less

\* A non-empty set of natural numbers has a least member, which Min is.
LEMMA MinIsLeast ==
  ASSUME NEW S \in SUBSET Nat, S # {}
  PROVE  Min(S) \in S /\ \A x \in S : Min(S) <= x
<1>1. PICK x \in S : \A y \in S : ~(<<y, x>> \in Less)
  BY LessIsWellFounded, WFMin, Zenon
<1>2. \A y \in S : ~(y < x)
  BY <1>1 DEF Less
<1>3. \A y \in S : x <= y
  BY <1>2
<1> QED
  BY <1>3 DEF Min

\* The last entry takes the place of entry j.
LEMMA LastReplaces ==
  ASSUME NEW S, NEW q \in Seq(S), NEW j \in 1 .. Len(q)
  PROVE  LET r == Front([q EXCEPT ![j] = q[Len(q)]])
         IN  /\ r \in Seq(S) /\ Len(r) = Len(q) - 1
             /\ \A k \in 1 .. Len(q) - 1 : r[k] = IF k = j THEN q[Len(q)] ELSE q[k]
<1> DEFINE e == [q EXCEPT ![j] = q[Len(q)]]
<1>1. /\ e \in Seq(S) /\ Len(e) = Len(q)
      /\ \A k \in 1 .. Len(q) : e[k] = IF k = j THEN q[Len(q)] ELSE q[k]
  BY ExceptSeq
<1> HIDE DEF e
<1>2. /\ SubSeq(e, 1, Len(e) - 1) \in Seq(S)
      /\ Len(SubSeq(e, 1, Len(e) - 1)) = Len(q) - 1
      /\ \A k \in 1 .. Len(q) - 1 : SubSeq(e, 1, Len(e) - 1)[k] = e[k]
  BY <1>1
<1> QED
  BY <1>1, <1>2 DEF Front, e

-------------------------------------------------------------------------------
(* The inductive invariant. *)

\* A scan has left nothing reported behind it; it is at the listening socket
\* exactly while the newcomer is not accepted.
ScanInOrder ==
  /\ newcomer <=> i = 0
  /\ \A k \in DOMAIN fds : k < i => fds[k].revents = "none"

\* Every open connection is polled.
OpenArePolled == \A fd \in Open : \E k \in DOMAIN fds : fds[k].fd = fd

\* Until a send fails, every entry is of an open connection, and no two are of one.
EachOnce ==
  ~failed => /\ \A k \in DOMAIN fds : fds[k].fd \in Open
             /\ \A k, m \in DOMAIN fds : fds[k].fd = fds[m].fd => k = m

\* Until then, a text that was reported is there to be received.
ReportedIsThere ==
  ~failed => \A k \in DOMAIN fds : fds[k].revents = "POLLIN" => fds[k].fd \in unread

\* Until then, no entry is to be sent what is behind its own descriptor.
NotItsOwn ==
  ~failed => \A k \in DOMAIN fds :
    fds[k].out /\ write_buf[fds[k].fd] # NULL => write_buf[fds[k].fd] # fds[k].fd

Inv ==
  /\ TypeOK
  /\ ScanInOrder
  /\ OpenArePolled
  /\ EachOnce
  /\ ReportedIsThere
  /\ NotItsOwn
  /\ TextsAreOthers

\* What is known of fds[].
LEMMA FdsAre ==
  ASSUME TypeOK
  PROVE  /\ USER_LIMIT \in Nat /\ fds \in Seq(Entries) /\ Len(fds) \in Nat
         /\ DOMAIN fds = 1 .. Len(fds)
         /\ \A k \in DOMAIN fds :
              fds[k] \in Entries /\ fds[k].fd \in Fds /\ fds[k].out \in BOOLEAN
<1>1. USER_LIMIT \in Nat /\ fds \in Seq(Entries)
  BY LimitAssumption DEF TypeOK, Entries, Reports
<1>2. Len(fds) \in Nat /\ DOMAIN fds = 1 .. Len(fds)
  BY <1>1, LenProperties
<1>3. \A k \in 1 .. Len(fds) : fds[k] \in Entries
  BY <1>1, ElementOfSeq
<1> QED
  BY <1>1, <1>2, <1>3 DEF Entries

\* The scan goes on from k: it skips what has nothing reported, and stops at the end.
LEMMA ScanGoesOn ==
  ASSUME fds' \in Seq(Entries), NEW k \in Nat, k <= Len(fds') + 1, ScanFrom(k)
  PROVE  /\ i' \in k .. Len(fds') + 1
         /\ \A m \in DOMAIN fds' : k <= m /\ m < i' => fds'[m].revents = "none"
<1> DEFINE n == Len(fds')
           S == {m \in k .. n + 1 : m \in DOMAIN fds' => fds'[m].revents # "none"}
<1>1. n \in Nat /\ DOMAIN fds' = 1 .. n
  BY LenProperties
<1>2. n + 1 \in S /\ S \in SUBSET Nat
  BY <1>1
<1>3. i' = Min(S)
  BY DEF ScanFrom
<1>4. i' \in S /\ \A x \in S : i' <= x
  <2> HIDE DEF S
  <2> QED
    BY <1>2, <1>3, MinIsLeast
<1> QED
  BY <1>1, <1>4

\* After the scan of fds[i], whatever the handler did to the events asked for.
LEMMA AfterEntry ==
  ASSUME TypeOK, ScanInOrder, i \in DOMAIN fds, newcomer' = newcomer,
         fds' \in Seq(Entries), Len(fds') = Len(fds), fds'[i].revents = "none",
         \A k \in DOMAIN fds : k # i => fds'[k].revents = fds[k].revents,
         NextEntry
  PROVE  i' \in 0 .. Len(fds') + 1 /\ ScanInOrder'
<1>1. /\ i \in Nat /\ Len(fds) \in Nat /\ DOMAIN fds = 1 .. Len(fds) /\ i <= Len(fds)
      /\ DOMAIN fds' = 1 .. Len(fds)
  BY FdsAre, LenProperties
<1>2. /\ i' \in i + 1 .. Len(fds') + 1
      /\ \A m \in DOMAIN fds' : i + 1 <= m /\ m < i' => fds'[m].revents = "none"
  BY <1>1, ScanGoesOn DEF NextEntry
<1>3. newcomer' <=> i' = 0
  BY <1>1, <1>2 DEF ScanInOrder
<1>4. ASSUME NEW m \in DOMAIN fds', m < i' PROVE fds'[m].revents = "none"
  <2>1. m < i \/ m = i \/ i + 1 <= m
    BY <1>1, <1>4
  <2> QED
    BY <1>1, <1>2, <1>4, <2>1 DEF ScanInOrder
<1> QED
  BY <1>1, <1>2, <1>3, <1>4 DEF ScanInOrder

\* fds[i] is scanned, and nothing else happens to fds[].
LEMMA DoneStep ==
  ASSUME TypeOK, ScanInOrder, i \in DOMAIN fds, newcomer' = newcomer,
         fds' = Done(fds), NextEntry
  PROVE  /\ fds' \in Seq(Entries) /\ Len(fds') = Len(fds) /\ DOMAIN fds' = DOMAIN fds
         /\ \A k \in DOMAIN fds :
              /\ fds'[k].fd = fds[k].fd /\ fds'[k].out = fds[k].out
              /\ fds'[k].revents = IF k = i THEN "none" ELSE fds[k].revents
         /\ i' \in 0 .. Len(fds') + 1 /\ ScanInOrder'
<1> DEFINE e == [fds[i] EXCEPT !.revents = "none"]
<1>1. /\ fds \in Seq(Entries) /\ i \in 1 .. Len(fds) /\ DOMAIN fds = 1 .. Len(fds)
      /\ \A k \in DOMAIN fds : fds[k] \in Entries
  BY FdsAre
<1>2. /\ e \in Entries
      /\ e.fd = fds[i].fd /\ e.out = fds[i].out /\ e.revents = "none"
  BY <1>1 DEF Entries, Reports
<1>3. fds' = [fds EXCEPT ![i] = e]
  BY DEF Done
<1> HIDE DEF e
<1>4. /\ fds' \in Seq(Entries) /\ Len(fds') = Len(fds)
      /\ \A k \in 1 .. Len(fds) : fds'[k] = IF k = i THEN e ELSE fds[k]
  BY <1>1, <1>2, <1>3, ExceptSeq
<1>5. DOMAIN fds' = DOMAIN fds
  BY <1>1, <1>4, LenProperties
<1>6. \A k \in DOMAIN fds :
        /\ fds'[k].fd = fds[k].fd /\ fds'[k].out = fds[k].out
        /\ fds'[k].revents = IF k = i THEN "none" ELSE fds[k].revents
  BY <1>1, <1>2, <1>4
<1>7. i' \in 0 .. Len(fds') + 1 /\ ScanInOrder'
  BY <1>1, <1>4, <1>6, AfterEntry
<1> QED
  BY <1>4, <1>5, <1>6, <1>7

\* The last entry takes the place of fds[i], which is scanned next.
LEMMA EntryRemoved ==
  ASSUME TypeOK, ScanInOrder, i \in DOMAIN fds, newcomer' = newcomer,
         fds' \in Seq(Entries), Len(fds') = Len(fds) - 1,
         \A k \in 1 .. Len(fds) - 1 : fds'[k] = IF k = i THEN fds[Len(fds)] ELSE fds[k],
         ScanFrom(i)
  PROVE  /\ \A k \in DOMAIN fds' : \E m \in DOMAIN fds :
              m # i /\ fds'[k] = fds[m] /\ (k # i => m = k) /\ (k = i => m = Len(fds))
         /\ \A m \in DOMAIN fds : m # i => \E k \in DOMAIN fds' : fds'[k] = fds[m]
         /\ i' \in 0 .. Len(fds') + 1 /\ ScanInOrder'
<1>1. /\ fds \in Seq(Entries) /\ i \in 1 .. Len(fds) /\ DOMAIN fds = 1 .. Len(fds)
      /\ Len(fds) \in Nat
  BY FdsAre
<1>2. \A k \in 1 .. Len(fds) - 1 : fds'[k] = IF k = i THEN fds[Len(fds)] ELSE fds[k]
  OBVIOUS
<1>3. DOMAIN fds' = 1 .. Len(fds) - 1
  BY LenProperties
<1>4. ASSUME NEW k \in DOMAIN fds'
      PROVE  \E m \in DOMAIN fds :
               m # i /\ fds'[k] = fds[m] /\ (k # i => m = k) /\ (k = i => m = Len(fds))
  <2>1. CASE k = i
    BY <1>1, <1>2, <1>3, <2>1
  <2>2. CASE k # i
    BY <1>1, <1>2, <1>3, <2>2
  <2> QED
    BY <2>1, <2>2
<1>5. ASSUME NEW m \in DOMAIN fds, m # i
      PROVE  \E k \in DOMAIN fds' : fds'[k] = fds[m]
  <2>1. CASE m = Len(fds)
    BY <1>1, <1>2, <1>3, <1>5, <2>1
  <2>2. CASE m # Len(fds)
    BY <1>1, <1>2, <1>3, <1>5, <2>2
  <2> QED
    BY <2>1, <2>2
<1>6. /\ i' \in i .. Len(fds') + 1
      /\ \A m \in DOMAIN fds' : i <= m /\ m < i' => fds'[m].revents = "none"
  BY <1>1, <1>2, ScanGoesOn
<1>7. newcomer' <=> i' = 0
  BY <1>1, <1>6 DEF ScanInOrder
<1>8. ASSUME NEW m \in DOMAIN fds', m < i' PROVE fds'[m].revents = "none"
  <2>1. m < i => fds'[m] = fds[m] /\ m \in DOMAIN fds
    BY <1>1, <1>2, <1>3
  <2>2. m < i \/ i <= m
    BY <1>1, <1>3
  <2> QED
    BY <1>6, <1>8, <2>1, <2>2 DEF ScanInOrder
<1>9. i' \in 0 .. Len(fds') + 1 /\ ScanInOrder'
  BY <1>1, <1>6, <1>7, <1>8 DEF ScanInOrder
<1> QED
  BY <1>4, <1>5, <1>9

\* fds[i] is removed, and its descriptor closed.
LEMMA RemoveStep ==
  ASSUME Inv, i \in DOMAIN fds, NEW texts \in [Fds -> Fds \cup {NoText}],
         \A f \in Fds \ {fds[i].fd} : texts[f] = buf[f],
         RemoveEntry(texts)
  PROVE  Inv'
<1> DEFINE fd == fds[i].fd
           w == fds[USER_COUNT].fd
<1>1. /\ conn' = [conn EXCEPT ![fd] = "closed"]
      /\ unread' = unread \ {fd} /\ gone' = gone \cup {fd}
      /\ buf' = [texts EXCEPT ![fd] = texts[w]]
      /\ write_buf' = [write_buf EXCEPT ![fd] = write_buf[w]]
      /\ fds' = Front([fds EXCEPT ![i] = fds[USER_COUNT]]) /\ ScanFrom(i)
      /\ newcomer' = newcomer /\ failed' = failed
  BY DEF RemoveEntry, Close
<1>2. /\ TypeOK /\ ScanInOrder /\ OpenArePolled /\ EachOnce /\ ReportedIsThere
      /\ NotItsOwn /\ TextsAreOthers
  BY DEF Inv
<1>3. /\ fd \in Fds /\ w \in Fds /\ Len(fds) \in Nat /\ i \in 1 .. Len(fds)
      /\ DOMAIN fds = 1 .. Len(fds) /\ \A k \in DOMAIN fds : fds[k].fd \in Fds
  BY <1>2, FdsAre DEF USER_COUNT
<1>4. /\ fds' \in Seq(Entries) /\ Len(fds') = Len(fds) - 1
      /\ \A k \in DOMAIN fds' : \E m \in DOMAIN fds :
           m # i /\ fds'[k] = fds[m] /\ (k # i => m = k) /\ (k = i => m = Len(fds))
      /\ \A m \in DOMAIN fds : m # i => \E k \in DOMAIN fds' : fds'[k] = fds[m]
      /\ i' \in 0 .. Len(fds') + 1 /\ ScanInOrder'
  <2>1. /\ fds' \in Seq(Entries) /\ Len(fds') = Len(fds) - 1
        /\ \A k \in 1 .. Len(fds) - 1 : fds'[k] = IF k = i THEN fds[Len(fds)] ELSE fds[k]
    <3>1. fds \in Seq(Entries)
      BY <1>2, FdsAre
    <3> QED
      BY <1>1, <1>3, <3>1, LastReplaces DEF USER_COUNT
  <2>2. newcomer' = newcomer /\ ScanFrom(i)
    BY <1>1
  <2> QED
    BY <1>2, <2>1, <2>2, EntryRemoved
<1> HIDE DEF fd, w
<1>5. TypeOK'
  <2>1. /\ conn \in [Fds -> {"closed", "up", "fin", "rst"}] /\ unread \subseteq Fds
        /\ write_buf \in [Fds -> Fds \cup {NULL}] /\ gone \subseteq Fds
        /\ newcomer \in BOOLEAN /\ failed \in BOOLEAN
        /\ Len(fds) <= USER_LIMIT
    BY <1>2 DEF TypeOK, USER_COUNT
  <2>2. conn' \in [Fds -> {"closed", "up", "fin", "rst"}] /\ unread' \subseteq Fds
    BY <1>1, <1>3, <2>1
  <2>3. /\ buf' \in [Fds -> Fds \cup {NoText}] /\ write_buf' \in [Fds -> Fds \cup {NULL}]
        /\ gone' \subseteq Fds
    BY <1>1, <1>3, <2>1
  <2>4. newcomer' \in BOOLEAN /\ failed' \in BOOLEAN
    BY <1>1, <2>1
  <2>5. Len(fds') <= USER_LIMIT
    BY <1>3, <1>4, <2>1, LimitAssumption
  <2> QED
    BY <1>4, <2>2, <2>3, <2>4, <2>5 DEF TypeOK, USER_COUNT, Entries, Reports
<1>6. Open' = Open \ {fd}
  BY <1>1, <1>2, <1>3 DEF Open, TypeOK
<1>7. OpenArePolled'
  <2> SUFFICES ASSUME NEW f \in Open' PROVE \E k \in DOMAIN fds' : fds'[k].fd = f
    BY DEF OpenArePolled
  <2>1. PICK m \in DOMAIN fds : fds[m].fd = f
    BY <1>2, <1>6 DEF OpenArePolled
  <2>2. m # i
    BY <1>6, <2>1 DEF fd
  <2> QED
    BY <1>4, <2>1, <2>2
<1>8. ASSUME ~failed
      PROVE  \A k \in DOMAIN fds' : \E m \in DOMAIN fds :
               /\ fds'[k] = fds[m] /\ fds[m].fd # fd /\ fds[m].fd \in Open
               /\ (k # i => m = k) /\ (k = i => m = Len(fds)) /\ m # i
  <2>1. \A m \in DOMAIN fds : m # i => fds[m].fd # fd /\ fds[m].fd \in Open
    BY <1>2, <1>8 DEF EachOnce, fd
  <2> QED
    BY <1>4, <2>1
<1>9. EachOnce'
  <2> SUFFICES ASSUME ~failed
               PROVE  /\ \A k \in DOMAIN fds' : fds'[k].fd \in Open'
                      /\ \A k, l \in DOMAIN fds' : fds'[k].fd = fds'[l].fd => k = l
    BY <1>1 DEF EachOnce
  <2>1. \A k \in DOMAIN fds' : fds'[k].fd \in Open'
    BY <1>6, <1>8
  <2>2. ASSUME NEW k \in DOMAIN fds', NEW l \in DOMAIN fds', fds'[k].fd = fds'[l].fd
        PROVE  k = l
    <3>1. PICK m \in DOMAIN fds : /\ fds'[k] = fds[m] /\ m # i
                                  /\ (k # i => m = k) /\ (k = i => m = Len(fds))
      BY <1>4
    <3>2. PICK n \in DOMAIN fds : /\ fds'[l] = fds[n] /\ n # i
                                  /\ (l # i => n = l) /\ (l = i => n = Len(fds))
      BY <1>4
    <3>3. m = n
      BY <1>2, <2>2, <3>1, <3>2 DEF EachOnce
    <3>4. DOMAIN fds' = 1 .. Len(fds) - 1
      BY <1>4, LenProperties
    <3> QED
      BY <1>3, <3>1, <3>2, <3>3, <3>4
  <2> QED
    BY <2>1, <2>2
<1>10. ReportedIsThere'
  <2> SUFFICES ASSUME ~failed, NEW k \in DOMAIN fds', fds'[k].revents = "POLLIN"
               PROVE  fds'[k].fd \in unread'
    BY <1>1 DEF ReportedIsThere
  <2>1. PICK m \in DOMAIN fds : fds'[k] = fds[m] /\ fds[m].fd # fd
    BY <1>8
  <2>2. fds[m].fd \in unread
    BY <1>2, <2>1 DEF ReportedIsThere
  <2> QED
    BY <1>1, <2>1, <2>2
<1>11. \A f \in Fds \ {fd} : write_buf'[f] = write_buf[f] /\ buf'[f] = buf[f]
  BY <1>1, <1>2, <1>3 DEF TypeOK, fd
<1>12. NotItsOwn'
  <2> SUFFICES ASSUME ~failed, NEW k \in DOMAIN fds', fds'[k].out,
                      write_buf'[fds'[k].fd] # NULL
               PROVE  write_buf'[fds'[k].fd] # fds'[k].fd
    BY <1>1 DEF NotItsOwn
  <2> QED
    BY <1>2, <1>3, <1>8, <1>11 DEF NotItsOwn
<1>13. TextsAreOthers'
  <2> SUFFICES ASSUME ~failed, NEW k \in DOMAIN fds', fds'[k].out,
                      write_buf'[fds'[k].fd] \notin gone' \cup {NULL}
               PROVE  /\ write_buf'[fds'[k].fd] # fds'[k].fd
                      /\ write_buf'[fds'[k].fd] \in Open'
                      /\ buf'[write_buf'[fds'[k].fd]] = write_buf'[fds'[k].fd]
    BY <1>1 DEF TextsAreOthers
  <2>1. PICK m \in DOMAIN fds : fds'[k] = fds[m] /\ fds[m].fd # fd
    BY <1>8
  <2> DEFINE from == write_buf[fds[m].fd]
  <2>2. write_buf'[fds'[k].fd] = from
    BY <1>3, <1>11, <2>1
  <2>3. from \notin gone \cup {NULL} /\ from # fd
    BY <1>1, <2>2
  <2>4. from # fds[m].fd /\ from \in Open /\ buf[from] = from
    BY <1>2, <2>1, <2>3 DEF TextsAreOthers
  <2>5. from \in Open' /\ from \in Fds \ {fd}
    BY <1>6, <2>3, <2>4 DEF Open
  <2> QED
    BY <1>11, <2>1, <2>2, <2>4, <2>5
<1> QED
  BY <1>4, <1>5, <1>7, <1>9, <1>10, <1>12, <1>13 DEF Inv

\* fds[i] is scanned; until a send fails, at most the text for it is gone after that.
LEMMA DoneKeeps ==
  ASSUME Inv, i \in DOMAIN fds, newcomer' = newcomer, fds' = Done(fds), NextEntry,
         conn' \in [Fds -> {"closed", "up", "fin", "rst"}], unread' \subseteq Fds,
         buf' \in [Fds -> Fds \cup {NoText}], write_buf' \in [Fds -> Fds \cup {NULL}],
         gone' \subseteq Fds, failed' \in BOOLEAN,
         Open' \subseteq Open,
         ~failed' => /\ ~failed /\ Open' = Open
                     /\ unread' = unread /\ buf' = buf /\ gone' = gone
                     /\ \A f \in Fds : write_buf'[f] \in {write_buf[f], NULL}
  PROVE  Inv'
<1>1. /\ TypeOK /\ ScanInOrder /\ OpenArePolled /\ EachOnce /\ ReportedIsThere
      /\ NotItsOwn /\ TextsAreOthers
  BY DEF Inv
<1>2. /\ fds' \in Seq(Entries) /\ Len(fds') = Len(fds) /\ DOMAIN fds' = DOMAIN fds
      /\ \A k \in DOMAIN fds :
           /\ fds'[k].fd = fds[k].fd /\ fds'[k].out = fds[k].out
           /\ fds'[k].revents = IF k = i THEN "none" ELSE fds[k].revents
      /\ i' \in 0 .. Len(fds') + 1 /\ ScanInOrder'
  BY <1>1, DoneStep
<1>3. TypeOK'
  <2>1. newcomer \in BOOLEAN /\ Len(fds) <= USER_LIMIT
    BY <1>1 DEF TypeOK, USER_COUNT
  <2>2. newcomer' \in BOOLEAN
    BY <2>1
  <2> QED
    BY <1>2, <2>1, <2>2 DEF TypeOK, USER_COUNT, Entries, Reports
<1>4. OpenArePolled'
  BY <1>1, <1>2 DEF OpenArePolled
<1>5. EachOnce'
  BY <1>1, <1>2 DEF EachOnce
<1>6. ReportedIsThere'
  BY <1>1, <1>2 DEF ReportedIsThere
<1>7. \A k \in DOMAIN fds : fds[k].fd \in Fds
  BY <1>1, FdsAre
<1>8. NotItsOwn'
  <2> SUFFICES ASSUME ~failed', NEW k \in DOMAIN fds, fds[k].out,
                      write_buf'[fds[k].fd] # NULL
               PROVE  write_buf'[fds[k].fd] # fds[k].fd
    BY <1>2 DEF NotItsOwn
  <2> QED
    BY <1>1, <1>7 DEF NotItsOwn
<1>9. TextsAreOthers'
  <2> SUFFICES ASSUME ~failed', NEW k \in DOMAIN fds, fds[k].out,
                      write_buf'[fds[k].fd] \notin gone' \cup {NULL}
               PROVE  /\ write_buf'[fds[k].fd] # fds[k].fd
                      /\ write_buf'[fds[k].fd] \in Open'
                      /\ buf'[write_buf'[fds[k].fd]] = write_buf'[fds[k].fd]
    BY <1>2 DEF TextsAreOthers
  <2>1. write_buf'[fds[k].fd] = write_buf[fds[k].fd]
    BY <1>7
  <2> QED
    BY <1>1, <2>1 DEF TextsAreOthers
<1> QED
  BY <1>2, <1>3, <1>4, <1>5, <1>6, <1>8, <1>9 DEF Inv

\* A text for all others.
LEMMA ReceiveStep ==
  ASSUME Inv, Receive
  PROVE  Inv'
<1> DEFINE fd == fds[i].fd
           others == {k \in DOMAIN fds : fds[k].fd # fd}
           asked == [k \in DOMAIN fds |->
                       IF k \in others THEN [fds[k] EXCEPT !.out = TRUE] ELSE fds[k]]
<1>1. /\ i \in DOMAIN fds /\ fd \in unread
      /\ unread' = unread \ {fd} /\ gone' = gone \ {fd}
      /\ buf' = [buf EXCEPT ![fd] = fd]
      /\ fds' = [asked EXCEPT ![i].revents = "none"]
      /\ write_buf' = [f \in Fds |-> IF \E k \in others : fds[k].fd = f THEN fd
                                     ELSE write_buf[f]]
      /\ NextEntry /\ conn' = conn /\ newcomer' = newcomer /\ failed' = failed
  BY DEF Receive, Done, Scanned
<1>2. /\ TypeOK /\ ScanInOrder /\ OpenArePolled /\ EachOnce /\ ReportedIsThere
      /\ NotItsOwn /\ TextsAreOthers
  BY DEF Inv
<1>3. /\ fds \in Seq(Entries) /\ Len(fds) \in Nat /\ i \in 1 .. Len(fds) /\ fd \in Fds
      /\ DOMAIN fds = 1 .. Len(fds)
      /\ \A k \in DOMAIN fds : fds[k] \in Entries /\ fds[k].fd \in Fds
  BY <1>1, <1>2, FdsAre
<1>4. /\ asked \in Seq(Entries) /\ Len(asked) = Len(fds)
      /\ \A k \in DOMAIN fds :
           /\ asked[k].fd = fds[k].fd /\ asked[k].revents = fds[k].revents
           /\ asked[k].out = (fds[k].out \/ k \in others)
  <2>1. ASSUME NEW k \in DOMAIN fds
        PROVE  /\ asked[k] \in Entries
               /\ asked[k].fd = fds[k].fd /\ asked[k].revents = fds[k].revents
               /\ asked[k].out = (fds[k].out \/ k \in others)
    <3>1. fds[k] \in Entries /\ fds[k].out \in BOOLEAN
      BY <1>3 DEF Entries
    <3>2. CASE k \in others
      <4>1. asked[k] = [fds[k] EXCEPT !.out = TRUE]
        BY <3>2
      <4> QED
        BY <3>1, <3>2, <4>1 DEF Entries
    <3>3. CASE k \notin others
      <4>1. asked[k] = fds[k]
        BY <3>3
      <4> HIDE DEF others, asked
      <4> QED
        BY <3>1, <3>3, <4>1
    <3> QED
      BY <3>2, <3>3
  <2>2. asked = [k \in 1 .. Len(fds) |-> asked[k]] /\ DOMAIN asked = 1 .. Len(fds)
    BY <1>3
  <2>3. \A k \in 1 .. Len(fds) : asked[k] \in Entries
    BY <1>3, <2>1
  <2>4. asked \in Seq(Entries) /\ Len(asked) = Len(fds)
    <3> HIDE DEF asked
    <3> QED
      BY <1>3, <2>2, <2>3, FunctionIsSeq
  <2> QED
    BY <2>1, <2>4
<1> HIDE DEF asked
<1>5. /\ fds' \in Seq(Entries) /\ Len(fds') = Len(fds) /\ DOMAIN fds' = DOMAIN fds
      /\ \A k \in DOMAIN fds :
           /\ fds'[k].fd = fds[k].fd
           /\ fds'[k].revents = IF k = i THEN "none" ELSE fds[k].revents
           /\ fds'[k].out = (fds[k].out \/ k \in others)
  <2> DEFINE e == [asked[i] EXCEPT !.revents = "none"]
  <2>1. \A k \in 1 .. Len(asked) : asked[k] \in Entries
    BY <1>4, ElementOfSeq
  <2>2. e \in Entries /\ e.fd = asked[i].fd /\ e.out = asked[i].out /\ e.revents = "none"
    BY <1>3, <1>4, <2>1 DEF Entries, Reports
  <2>3. fds' = [asked EXCEPT ![i] = e]
    BY <1>1
  <2> HIDE DEF e, others
  <2>4. /\ fds' \in Seq(Entries) /\ Len(fds') = Len(fds)
        /\ \A k \in 1 .. Len(fds) : fds'[k] = IF k = i THEN e ELSE asked[k]
    BY <1>3, <1>4, <2>2, <2>3, ExceptSeq
  <2>5. DOMAIN fds' = DOMAIN fds
    BY <1>3, <2>4, LenProperties
  <2> QED
    BY <1>3, <1>4, <2>2, <2>4, <2>5
<1>6. i' \in 0 .. Len(fds') + 1 /\ ScanInOrder'
  BY <1>1, <1>2, <1>5, AfterEntry
<1>7. \A f \in Fds : write_buf'[f] = IF \E k \in others : fds[k].fd = f THEN fd
                                    ELSE write_buf[f]
  BY <1>1
<1>8. TypeOK'
  <2>1. /\ unread \subseteq Fds /\ gone \subseteq Fds /\ Len(fds) <= USER_LIMIT
        /\ buf \in [Fds -> Fds \cup {NoText}] /\ write_buf \in [Fds -> Fds \cup {NULL}]
        /\ conn \in [Fds -> {"closed", "up", "fin", "rst"}]
        /\ newcomer \in BOOLEAN /\ failed \in BOOLEAN
    BY <1>2 DEF TypeOK, USER_COUNT
  <2>2. newcomer' \in BOOLEAN /\ failed' \in BOOLEAN
    BY <1>1, <2>1
  <2>3. write_buf' \in [Fds -> Fds \cup {NULL}]
    <3> HIDE DEF others, fd
    <3> QED
      BY <1>1, <1>3, <2>1
  <2>4. /\ buf' \in [Fds -> Fds \cup {NoText}] /\ unread' \subseteq Fds /\ gone' \subseteq Fds
        /\ conn' \in [Fds -> {"closed", "up", "fin", "rst"}]
    BY <1>1, <1>3, <2>1
  <2> QED
    BY <1>5, <1>6, <2>1, <2>2, <2>3, <2>4 DEF TypeOK, USER_COUNT, Entries, Reports
<1>9. Open' = Open /\ Open \subseteq Fds
  BY <1>1 DEF Open
<1>10. OpenArePolled' /\ EachOnce'
  <2>1. failed' = failed /\ DOMAIN fds' = DOMAIN fds
        /\ \A k \in DOMAIN fds : fds'[k].fd = fds[k].fd
    BY <1>1, <1>5
  <2>2. OpenArePolled'
    BY <1>2, <1>9, <2>1 DEF OpenArePolled
  <2>3. EachOnce'
    BY <1>2, <1>9, <2>1 DEF EachOnce
  <2> QED
    BY <2>2, <2>3
<1>11. ReportedIsThere'
  <2> SUFFICES ASSUME ~failed, NEW k \in DOMAIN fds, fds'[k].revents = "POLLIN"
               PROVE  fds[k].fd \in unread'
    BY <1>1, <1>5 DEF ReportedIsThere
  <2>1. k # i /\ fds[k].revents = "POLLIN"
    BY <1>5
  <2>2. fds[k].fd # fd
    BY <1>1, <1>2, <2>1 DEF EachOnce
  <2> QED
    BY <1>1, <1>2, <2>1, <2>2 DEF ReportedIsThere
<1>12. ASSUME ~failed, NEW k \in DOMAIN fds, fds'[k].out
       PROVE  LET from == write_buf'[fds[k].fd]
              IN  /\ from # NULL => from # fds[k].fd
                  /\ from \notin gone' \cup {NULL} =>
                       from # fds[k].fd /\ from \in Open' /\ buf'[from] = from
  <2>1. CASE k \in others
    <3>1. write_buf'[fds[k].fd] = fd /\ fds[k].fd # fd
      BY <1>3, <1>7, <2>1
    <3>2. fd \in Open /\ buf'[fd] = fd
      BY <1>1, <1>2, <1>3, <1>12 DEF EachOnce, TypeOK
    <3> HIDE DEF fd, others
    <3> QED
      BY <1>9, <3>1, <3>2
  <2>2. CASE k \notin others
    <3>1. fds[k].fd = fd /\ fds[k].out
      BY <1>5, <1>12, <2>2
    <3>2. write_buf'[fd] = write_buf[fd]
      BY <1>3, <1>7
    <3> DEFINE from == write_buf[fd]
    <3>3. from # NULL => from # fd
      BY <1>2, <1>12, <3>1 DEF NotItsOwn
    <3>4. from \notin gone \cup {NULL} => from \in Open /\ buf[from] = from
      BY <1>2, <1>12, <3>1 DEF TextsAreOthers
    <3>5. from \notin gone' \cup {NULL} => from \notin gone \cup {NULL}
      BY <1>1, <3>3
    <3>6. from \in Open /\ from # fd => buf'[from] = buf[from]
      BY <1>1, <1>2, <1>9 DEF TypeOK
    <3> HIDE DEF fd, others
    <3> QED
      BY <1>9, <3>1, <3>2, <3>3, <3>4, <3>5, <3>6
  <2> QED
    BY <2>1, <2>2
<1>13. failed' = failed /\ DOMAIN fds' = DOMAIN fds
       /\ \A k \in DOMAIN fds : fds'[k].fd = fds[k].fd
  BY <1>1, <1>5
<1>14. NotItsOwn'
  BY <1>12, <1>13 DEF NotItsOwn
<1>15. TextsAreOthers'
  BY <1>12, <1>13 DEF TextsAreOthers
<1> QED
  BY <1>6, <1>8, <1>10, <1>11, <1>14, <1>15 DEF Inv

\* poll reports what there is, and the scan begins.
LEMMA PollStep ==
  ASSUME Inv, Poll
  PROVE  Inv'
<1>1. /\ newcomer' \in BOOLEAN
      /\ fds' = [k \in DOMAIN fds |-> [fds[k] EXCEPT !.revents = Revents(fds[k])]]
      /\ newcomer' => i' = 0
      /\ ~newcomer' => ScanFrom(1)
      /\ UNCHANGED <<conn, unread, buf, write_buf, gone, failed>>
  BY DEF Poll, netVars, userVars
<1>2. /\ TypeOK /\ OpenArePolled /\ EachOnce /\ NotItsOwn /\ TextsAreOthers
  BY DEF Inv
<1>3. /\ Len(fds) \in Nat /\ DOMAIN fds = 1 .. Len(fds)
      /\ \A k \in DOMAIN fds : fds[k] \in Entries /\ fds[k].fd \in Fds
  BY <1>2, FdsAre
<1>4. \A k \in DOMAIN fds :
        /\ Revents(fds[k]) \in Reports
        /\ Revents(fds[k]) = "POLLIN" => fds[k].fd \in unread
  <2> SUFFICES ASSUME NEW k \in DOMAIN fds
               PROVE  /\ Revents(fds[k]) \in Reports
                      /\ Revents(fds[k]) = "POLLIN" => fds[k].fd \in unread
    OBVIOUS
  <2>1. conn[fds[k].fd] \in {"closed", "up", "fin", "rst"}
    BY <1>2, <1>3 DEF TypeOK
  <2> QED
    BY <2>1 DEF Revents, Reports
<1>5. /\ fds' \in Seq(Entries) /\ Len(fds') = Len(fds) /\ DOMAIN fds' = DOMAIN fds
      /\ \A k \in DOMAIN fds :
           /\ fds'[k].fd = fds[k].fd /\ fds'[k].out = fds[k].out
           /\ fds'[k].revents = Revents(fds[k])
  <2>1. \A k \in DOMAIN fds :
          /\ fds'[k] \in Entries
          /\ fds'[k].fd = fds[k].fd /\ fds'[k].out = fds[k].out
          /\ fds'[k].revents = Revents(fds[k])
    <3> SUFFICES ASSUME NEW k \in DOMAIN fds
                 PROVE  /\ fds'[k] \in Entries
                        /\ fds'[k].fd = fds[k].fd /\ fds'[k].out = fds[k].out
                        /\ fds'[k].revents = Revents(fds[k])
      OBVIOUS
    <3>1. fds'[k] = [fds[k] EXCEPT !.revents = Revents(fds[k])]
      BY <1>1
    <3>2. fds[k] \in Entries /\ Revents(fds[k]) \in Reports
      BY <1>3, <1>4
    <3> QED
      BY <3>1, <3>2 DEF Entries
  <2>2. fds' = [k \in 1 .. Len(fds) |-> fds'[k]] /\ DOMAIN fds' = 1 .. Len(fds)
    BY <1>1, <1>3
  <2>3. fds' \in Seq(Entries) /\ Len(fds') = Len(fds)
    BY <1>3, <2>1, <2>2, FunctionIsSeq
  <2> QED
    BY <1>3, <2>1, <2>2, <2>3
<1>6. i' \in 0 .. Len(fds') + 1 /\ ScanInOrder'
  <2>1. CASE newcomer'
    BY <1>1, <1>3, <1>5, <2>1 DEF ScanInOrder
  <2>2. CASE ~newcomer'
    <3>1. /\ i' \in 1 .. Len(fds') + 1
          /\ \A m \in DOMAIN fds' : 1 <= m /\ m < i' => fds'[m].revents = "none"
      BY <1>1, <1>3, <1>5, <2>2, ScanGoesOn
    <3>2. i' # 0 /\ i' \in 0 .. Len(fds') + 1
      BY <1>3, <1>5, <3>1
    <3> QED
      BY <1>3, <1>5, <2>2, <3>1, <3>2 DEF ScanInOrder
  <2> QED
    BY <2>1, <2>2
<1>7. TypeOK'
  BY <1>1, <1>2, <1>5, <1>6 DEF TypeOK, USER_COUNT, Entries, Reports
<1>8. Open' = Open
  BY <1>1 DEF Open
<1>9. OpenArePolled' /\ EachOnce'
  BY <1>1, <1>2, <1>5, <1>8 DEF OpenArePolled, EachOnce
<1>10. ReportedIsThere'
  BY <1>1, <1>4, <1>5 DEF ReportedIsThere
<1>11. NotItsOwn' /\ TextsAreOthers'
  BY <1>1, <1>2, <1>5, <1>8 DEF NotItsOwn, TextsAreOthers
<1> QED
  BY <1>6, <1>7, <1>9, <1>10, <1>11 DEF Inv

\* The size of an interval of descriptors, or of entries.
LEMMA FirstNumbers ==
  ASSUME NEW n \in Nat
  PROVE  IsFiniteSet(1 .. n) /\ Cardinality(1 .. n) = n
<1>1. IsFiniteSet(1 .. n) /\ Cardinality(1 .. n) = IF 1 > n THEN 0 ELSE n - 1 + 1
  BY FS_Interval
<1> QED
  BY <1>1

\* While there is room in fds[], there is a descriptor for the newcomer.
LEMMA RoomForOne ==
  ASSUME TypeOK, OpenArePolled, USER_COUNT < USER_LIMIT
  PROVE  LET fd == Min({f \in Fds : conn[f] = "closed"})
         IN  fd \in Fds /\ fd \notin Open
<1> DEFINE S == {f \in Fds : conn[f] = "closed"}
           g == [k \in 1 .. Len(fds) |-> fds[k].fd]
<1>1. /\ USER_LIMIT \in Nat /\ Len(fds) \in Nat /\ DOMAIN fds = 1 .. Len(fds)
      /\ \A k \in DOMAIN fds : fds[k].fd \in Fds
  BY FdsAre
<1>2. S # {}
  <2> SUFFICES ASSUME S = {} PROVE FALSE
    OBVIOUS
  <2>1. Open = Fds
    BY DEF Open
  <2>2. g \in Surjection(1 .. Len(fds), Fds)
    BY <1>1, <2>1 DEF OpenArePolled, Surjection
  <2>3. /\ IsFiniteSet(1 .. Len(fds)) /\ Cardinality(1 .. Len(fds)) = Len(fds)
        /\ Cardinality(1 .. USER_LIMIT + 1) = USER_LIMIT + 1
    <3>1. Len(fds) \in Nat /\ USER_LIMIT + 1 \in Nat
      BY <1>1
    <3> QED
      BY <3>1, FirstNumbers
  <2>4. Cardinality(Fds) <= Len(fds)
    <3> HIDE DEF g
    <3> QED
      BY <2>2, <2>3, FS_Surjection
  <2> QED
    BY <1>1, <2>3, <2>4 DEF Fds, USER_COUNT
<1>3. S \in SUBSET Nat
  BY <1>1 DEF Fds
<1>4. Min(S) \in S
  <2> HIDE DEF S
  <2> QED
    BY <1>2, <1>3, MinIsLeast
<1> QED
  BY <1>4 DEF Open

\* A newcomer gets the lowest descriptor, and the entry behind the last.
LEMMA AcceptStep ==
  ASSUME Inv, Accept
  PROVE  Inv'
<1> DEFINE fd == Min({f \in Fds : conn[f] = "closed"})
           e == [fd |-> fd, out |-> FALSE, revents |-> "none"]
<1>1. /\ newcomer /\ Len(fds) < USER_LIMIT
      /\ conn' = [conn EXCEPT ![fd] = "up"] /\ fds' = Append(fds, e)
      /\ newcomer' = FALSE /\ ScanFrom(i + 1)
      /\ UNCHANGED <<unread, buf, write_buf, gone, failed>>
  BY DEF Accept, NextEntry, userVars, USER_COUNT
<1>2. /\ TypeOK /\ ScanInOrder /\ OpenArePolled /\ EachOnce /\ ReportedIsThere
      /\ NotItsOwn /\ TextsAreOthers
  BY DEF Inv
<1>3. /\ fds \in Seq(Entries) /\ Len(fds) \in Nat /\ DOMAIN fds = 1 .. Len(fds)
      /\ USER_LIMIT \in Nat /\ \A k \in DOMAIN fds : fds[k].fd \in Fds
  BY <1>2, FdsAre
<1>4. fd \in Fds /\ fd \notin Open
  BY <1>1, <1>2, RoomForOne DEF USER_COUNT
<1> HIDE DEF fd
<1>5. e \in Entries /\ e.fd = fd /\ e.out = FALSE /\ e.revents = "none"
  BY <1>4 DEF Entries, Reports
<1> HIDE DEF e
<1>6. /\ fds' \in Seq(Entries) /\ Len(fds') = Len(fds) + 1 /\ DOMAIN fds' = 1 .. Len(fds) + 1
      /\ \A k \in DOMAIN fds : fds'[k] = fds[k] /\ k \in DOMAIN fds'
      /\ \A k \in DOMAIN fds' : k \in DOMAIN fds \/ (fds'[k] = e /\ k = Len(fds) + 1)
  <2>1. fds' = Append(fds, e) /\ e \in Entries
    BY <1>1, <1>5
  <2>2. /\ fds' \in Seq(Entries) /\ Len(fds') = Len(fds) + 1
        /\ \A k \in 1 .. Len(fds) : fds'[k] = fds[k]
        /\ fds'[Len(fds) + 1] = e
    BY <1>3, <2>1, AppendProperties
  <2>3. DOMAIN fds' = 1 .. Len(fds) + 1
    BY <2>2, LenProperties
  <2>4. ASSUME NEW k \in DOMAIN fds
        PROVE  fds'[k] = fds[k] /\ k \in DOMAIN fds'
    <3>1. k \in 1 .. Len(fds) /\ k \in 1 .. Len(fds) + 1
      BY <1>3
    <3> QED
      BY <2>2, <2>3, <3>1
  <2>5. ASSUME NEW k \in DOMAIN fds'
        PROVE  k \in DOMAIN fds \/ (fds'[k] = e /\ k = Len(fds) + 1)
    <3>1. k \in 1 .. Len(fds) \/ k = Len(fds) + 1
      BY <1>3, <2>3
    <3> QED
      BY <1>3, <2>2, <3>1
  <2> QED
    BY <2>2, <2>3, <2>4, <2>5
<1>7. /\ i = 0 /\ i' \in 1 .. Len(fds') + 1
      /\ \A m \in DOMAIN fds' : 1 <= m /\ m < i' => fds'[m].revents = "none"
  BY <1>1, <1>2, <1>3, <1>6, ScanGoesOn DEF ScanInOrder
<1>8. i' \in 0 .. Len(fds') + 1 /\ ScanInOrder'
  BY <1>1, <1>3, <1>6, <1>7 DEF ScanInOrder
<1>9. TypeOK'
  <2>1. conn' \in [Fds -> {"closed", "up", "fin", "rst"}]
    BY <1>1, <1>2, <1>4 DEF TypeOK
  <2>2. newcomer' \in BOOLEAN
    BY <1>1
  <2>3. Len(fds') <= USER_LIMIT
    BY <1>1, <1>3, <1>6
  <2> QED
    BY <1>1, <1>2, <1>6, <1>8, <2>1, <2>2, <2>3 DEF TypeOK, USER_COUNT, Entries, Reports
<1>10. Open' = Open \cup {fd}
  BY <1>1, <1>2, <1>4 DEF Open, TypeOK
<1>11. OpenArePolled'
  <2>1. Len(fds) + 1 \in DOMAIN fds' /\ fds'[Len(fds) + 1].fd = fd
    BY <1>3, <1>5, <1>6
  <2> QED
    BY <1>2, <1>6, <1>10, <2>1 DEF OpenArePolled
<1>12. EachOnce'
  <2> SUFFICES ASSUME ~failed
               PROVE  /\ \A k \in DOMAIN fds' : fds'[k].fd \in Open'
                      /\ \A k, m \in DOMAIN fds' : fds'[k].fd = fds'[m].fd => k = m
    BY <1>1 DEF EachOnce
  <2>1. \A k \in DOMAIN fds : fds[k].fd \in Open /\ fds[k].fd # fd
    BY <1>2, <1>4 DEF EachOnce
  <2> QED
    BY <1>2, <1>5, <1>6, <1>10, <2>1 DEF EachOnce
<1>13. ReportedIsThere'
  BY <1>1, <1>2, <1>5, <1>6 DEF ReportedIsThere
<1>14. NotItsOwn' /\ TextsAreOthers'
  BY <1>1, <1>2, <1>5, <1>6, <1>10 DEF NotItsOwn, TextsAreOthers
<1> QED
  BY <1>8, <1>9, <1>11, <1>12, <1>13, <1>14 DEF Inv

\* Clients send and leave: what was reported stays true, and the entries as they are.
LEMMA ClientStep ==
  ASSUME Inv, NEW fd \in Fds, Send(fd) \/ Leave(fd)
  PROVE  Inv'
<1>1. /\ UNCHANGED <<newcomer, fds, i, buf, write_buf, gone, failed>>
      /\ unread' = unread \cup {fd} \/ unread' = unread
      /\ conn[fd] = "up"
      /\ conn' = conn \/ \E how \in {"fin", "rst"} : conn' = [conn EXCEPT ![fd] = how]
  BY DEF Send, Leave, userVars
<1>2. /\ TypeOK /\ ScanInOrder /\ OpenArePolled /\ EachOnce /\ ReportedIsThere
      /\ NotItsOwn /\ TextsAreOthers
  BY DEF Inv
<1>3. Open' = Open
  BY <1>1, <1>2 DEF Open, TypeOK
<1>4. TypeOK'
  <2>1. conn' \in [Fds -> {"closed", "up", "fin", "rst"}] /\ unread' \subseteq Fds
    BY <1>1, <1>2 DEF TypeOK
  <2> QED
    BY <1>1, <1>2, <2>1 DEF TypeOK, USER_COUNT
<1>5. ScanInOrder' /\ OpenArePolled' /\ EachOnce' /\ NotItsOwn'
  BY <1>1, <1>2, <1>3 DEF ScanInOrder, OpenArePolled, EachOnce, NotItsOwn
<1>6. ReportedIsThere'
  BY <1>1, <1>2 DEF ReportedIsThere
<1>7. TextsAreOthers'
  BY <1>1, <1>2, <1>3 DEF TextsAreOthers
<1> QED
  BY <1>4, <1>5, <1>6, <1>7 DEF Inv

\* A newcomer is turned away.
LEMMA RefuseStep ==
  ASSUME Inv, Refuse
  PROVE  Inv'
<1>1. /\ newcomer /\ newcomer' = FALSE /\ fds' = fds /\ ScanFrom(i + 1)
      /\ UNCHANGED <<conn, unread, buf, write_buf, gone, failed>>
  BY DEF Refuse, NextEntry, netVars, userVars
<1>2. /\ TypeOK /\ ScanInOrder /\ OpenArePolled /\ EachOnce /\ ReportedIsThere
      /\ NotItsOwn /\ TextsAreOthers
  BY DEF Inv
<1>3. fds' \in Seq(Entries) /\ Len(fds') \in Nat /\ DOMAIN fds' = 1 .. Len(fds')
  BY <1>1, <1>2, FdsAre
<1>4. /\ i = 0 /\ i' \in 1 .. Len(fds') + 1
      /\ \A m \in DOMAIN fds' : 1 <= m /\ m < i' => fds'[m].revents = "none"
  BY <1>1, <1>2, <1>3, ScanGoesOn DEF ScanInOrder
<1>5. i' \in 0 .. Len(fds') + 1 /\ ScanInOrder'
  BY <1>1, <1>3, <1>4 DEF ScanInOrder
<1>6. TypeOK'
  <2>1. newcomer' \in BOOLEAN
    BY <1>1
  <2> QED
    BY <1>1, <1>2, <1>5, <2>1 DEF TypeOK, USER_COUNT
<1>7. OpenArePolled' /\ EachOnce' /\ ReportedIsThere' /\ NotItsOwn' /\ TextsAreOthers'
  BY <1>1, <1>2
     DEF OpenArePolled, EachOnce, ReportedIsThere, NotItsOwn, TextsAreOthers, Open
<1> QED
  BY <1>5, <1>6, <1>7 DEF Inv

\* The branches that only scan fds[i]: an error, nothing to receive or to send, a
\* text that is sent, and one that cannot be.
LEMMA ScannedStep ==
  ASSUME Inv, Error \/ ReceiveNothing \/ SendText \/ SendFails \/ SendNothing
  PROVE  Inv'
<1>1. /\ TypeOK /\ EachOnce /\ ReportedIsThere
      /\ conn \in [Fds -> {"closed", "up", "fin", "rst"}] /\ unread \subseteq Fds
      /\ buf \in [Fds -> Fds \cup {NoText}] /\ write_buf \in [Fds -> Fds \cup {NULL}]
      /\ gone \subseteq Fds /\ failed \in BOOLEAN
  BY DEF Inv, TypeOK
<1>2. /\ i \in DOMAIN fds /\ newcomer' = newcomer /\ fds' = Done(fds) /\ NextEntry
  BY DEF Error, ReceiveNothing, SendText, SendFails, SendNothing, Scanned, Outgoing
<1>3. fds[i].fd \in Fds
  BY <1>1, <1>2, FdsAre
<1> DEFINE fd == fds[i].fd
<1>4. CASE Error
  <2>1. /\ conn' = [conn EXCEPT ![fd] = IF @ = "rst" THEN "fin" ELSE @]
        /\ UNCHANGED <<unread, buf, write_buf, gone, failed>>
    BY <1>4 DEF Error, userVars
  <2>2. conn' \in [Fds -> {"closed", "up", "fin", "rst"}] /\ Open' = Open
    BY <1>1, <1>3, <2>1 DEF Open
  <2> QED
    BY <1>1, <1>2, <2>1, <2>2, DoneKeeps
<1>5. CASE ReceiveNothing
  <2>1. /\ fds[i].revents = "POLLIN" /\ fd \notin unread
        /\ buf' = [buf EXCEPT ![fd] = NoText]
        /\ UNCHANGED <<conn, unread, write_buf, gone, failed>>
    BY <1>5 DEF ReceiveNothing, netVars, Scanned
  <2>2. failed
    BY <1>1, <1>2, <2>1 DEF ReportedIsThere
  <2>3. buf' \in [Fds -> Fds \cup {NoText}] /\ Open' = Open
    BY <1>1, <1>3, <2>1 DEF Open
  <2> QED
    BY <1>1, <1>2, <2>1, <2>2, <2>3, DoneKeeps
<1>6. CASE SendText
  <2>1. /\ write_buf' = [write_buf EXCEPT ![fd] = NULL]
        /\ UNCHANGED <<conn, unread, buf, gone, failed>>
    BY <1>6 DEF SendText, netVars
  <2>2. /\ write_buf' \in [Fds -> Fds \cup {NULL}]
        /\ \A f \in Fds : write_buf'[f] \in {write_buf[f], NULL}
        /\ Open' = Open
    BY <1>1, <1>3, <2>1 DEF Open
  <2> QED
    BY <1>1, <1>2, <2>1, <2>2, DoneKeeps
<1>7. CASE SendFails
  <2>1. /\ conn' = [conn EXCEPT ![fd] = "closed"] /\ unread' = unread \ {fd}
        /\ gone' = gone \cup {fd} /\ failed' = TRUE
        /\ UNCHANGED <<buf, write_buf>>
    BY <1>7 DEF SendFails, Close
  <2>2. /\ conn' \in [Fds -> {"closed", "up", "fin", "rst"}] /\ unread' \subseteq Fds
        /\ gone' \subseteq Fds /\ Open' \subseteq Open
    BY <1>1, <1>3, <2>1 DEF Open
  <2> QED
    BY <1>1, <1>2, <2>1, <2>2, DoneKeeps
<1>8. CASE SendNothing
  <2>1. UNCHANGED <<conn, unread, buf, write_buf, gone, failed>>
    BY <1>8 DEF SendNothing, netVars, userVars
  <2>2. Open' = Open
    BY <2>1 DEF Open
  <2> QED
    BY <1>1, <1>2, <2>1, <2>2, DoneKeeps
<1> QED
  BY <1>4, <1>5, <1>6, <1>7, <1>8

\* The branches that remove fds[i].
LEMMA LeavingStep ==
  ASSUME Inv, Leaver \/ ReceiveFails
  PROVE  Inv'
<1>1. i \in DOMAIN fds /\ fds[i].fd \in Fds /\ buf \in [Fds -> Fds \cup {NoText}]
  BY FdsAre DEF Inv, TypeOK, Leaver, ReceiveFails, Scanned
<1>2. CASE Leaver
  BY <1>1, <1>2, RemoveStep DEF Leaver
<1>3. CASE ReceiveFails
  <2> DEFINE texts == [buf EXCEPT ![fds[i].fd] = NoText]
  <2>1. /\ texts \in [Fds -> Fds \cup {NoText}]
        /\ \A f \in Fds \ {fds[i].fd} : texts[f] = buf[f]
    BY <1>1
  <2>2. RemoveEntry(texts)
    BY <1>3 DEF ReceiveFails
  <2> HIDE DEF texts
  <2> QED
    BY <1>1, <2>1, <2>2, RemoveStep
<1> QED
  BY <1>2, <1>3

LEMMA InvInit == Init => Inv
<1> SUFFICES ASSUME Init PROVE Inv
  OBVIOUS
<1> USE DEF Init
<1>1. TypeOK
  <2>1. fds \in Seq(Entries) /\ Len(fds) = 0
    OBVIOUS
  <2>2. newcomer \in BOOLEAN /\ failed \in BOOLEAN
    OBVIOUS
  <2>3. 0 <= USER_LIMIT /\ i \in 0 .. 0 + 1
    BY LimitAssumption
  <2> QED
    BY <2>1, <2>2, <2>3 DEF TypeOK, USER_COUNT, Entries, Reports
<1>2. Open = {}
  BY DEF Open
<1> QED
  BY <1>1, <1>2
     DEF Inv, ScanInOrder, OpenArePolled, EachOnce, ReportedIsThere, NotItsOwn, TextsAreOthers

\* Every branch of the scan, poll, and the clients keep the invariant.
LEMMA InvStep == Inv /\ [Next]_vars => Inv'
<1> SUFFICES ASSUME Inv, [Next]_vars PROVE Inv'
  OBVIOUS
<1>1. CASE UNCHANGED vars
  BY <1>1
     DEF vars, netVars, userVars, Inv, TypeOK, ScanInOrder, OpenArePolled, EachOnce,
         ReportedIsThere, NotItsOwn, TextsAreOthers, Open, USER_COUNT
<1> QED
  BY <1>1, PollStep, AcceptStep, RefuseStep, ReceiveStep, ScannedStep, LeavingStep, ClientStep
     DEF Next, Loop

-------------------------------------------------------------------------------
\* fds[] polls every open connection, and exactly these, each once, until a send fails
\* (src/IO_multi_advanced_app/chatroom/server.c:71-151): accept appends an entry, and a leaver's
\* gives way to the last.
THEOREM EntriesMatchCorrect == Spec => []EntriesMatch
<1>1. Inv => EntriesMatch
  BY DEF Inv, EntriesMatch, OpenArePolled, EachOnce
<1> QED
  BY <1>1, InvInit, InvStep, PTL DEF Spec

\* When the scan has come to its end, it has handled all that poll reported, though
\* entries change their place in it.
THEOREM ReportsAreHandledCorrect == Spec => []ReportsAreHandled
<1>1. Inv => ReportsAreHandled
  BY FdsAre DEF Inv, ReportsAreHandled, ScanInOrder, USER_COUNT, TypeOK
<1> QED
  BY <1>1, InvInit, InvStep, PTL DEF Spec

\* write_buf points to the text of another client, still in its users[] entry, unless
\* that client has left or a send has failed.
THEOREM TextsAreOthersCorrect == Spec => []TextsAreOthers
<1>1. Inv => TextsAreOthers
  BY DEF Inv
<1> QED
  BY <1>1, InvInit, InvStep, PTL DEF Spec
===============================================================================
