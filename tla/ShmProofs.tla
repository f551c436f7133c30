------------------------------- MODULE ShmProofs -------------------------------
(***************************************************************************)
(* Proofs about src/IPC/SHM/serv.c, for any number of children and any     *)
(* USER_LIMIT: first the server's tables (ShmServer), then the texts that  *)
(* its children pass on (ShmRelay).                                        *)
(***************************************************************************)
EXTENDS ShmServer, ShmRelay, FunctionTheorems, FiniteSetTheorems, SequenceTheorems, TLAPS

\* The types of the variables that SlotsMatch is about.
TableType ==
  /\ users \in [Slots -> Pids \cup {NULL}]
  /\ user_count \in 0 .. USER_LIMIT
  /\ sub_process \in [Pids -> Slots \cup {-1}]
  /\ child \in [Pids -> Places]
  /\ idx \in [Pids -> Slots]

TableInv == TableType /\ SlotsMatch

\* The pids that are children stay the same.
SameChildren == \A p \in Pids : (child'[p] # "none") <=> (child[p] # "none")

-------------------------------------------------------------------------------
\* At the start the tables are empty.
LEMMA TableInit == Init => TableInv
<1> SUFFICES ASSUME Init PROVE TableInv
  OBVIOUS
<1> USE LimitAssumption
<1>1. TableType
  BY DEF Init, TablesInit, TableType, Slots, Places
<1>2. SlotsMatch
  BY DEF Init, TablesInit, SlotsMatch, Children
<1> QED
  BY <1>1, <1>2 DEF TableInv

\* A step that leaves the table alone, and ends or begins no child.
LEMMA TableKept ==
  ASSUME TableInv,
         UNCHANGED <<tableVars, idx>>,
         child' \in [Pids -> Places],
         SameChildren
  PROVE  TableInv'
<1>1. TableType'
  BY DEF TableInv, TableType, tableVars, Slots, Places
<1>2. Children' = Children
  BY DEF SameChildren, Children
<1>3. SlotsMatch'
  BY <1>2 DEF TableInv, SlotsMatch, tableVars
<1> QED
  BY <1>1, <1>3 DEF TableInv

\* The steps of a child, of the kernel and of the server that are neither Fork nor Reap.
LEMMA TableOthers ==
  ASSUME TableInv,
         \/ Terminate \/ ChldDelivered \/ EpollWait \/ Refuse \/ SignalEvent
         \/ CaseChld \/ ReapedAll \/ CaseTermAlone \/ CaseTerm \/ NextIteration
         \/ \E p \in Pids : ChildRuns(p) \/ ChildEvent(p) \/ ChildHangup(p)
         \/ UNCHANGED vars
  PROVE  TableInv'
<1>0. child \in [Pids -> Places]
  BY DEF TableInv, TableType
<1>1. CASE UNCHANGED <<tableVars, childVars>>
  BY <1>0, <1>1, TableKept DEF childVars, SameChildren
<1>2. CASE CaseTerm
  <2>1. child' \in [Pids -> Places]
    BY <1>0, <1>2 DEF CaseTerm, Places
  <2>2. SameChildren
    BY <1>0, <1>2 DEF CaseTerm, SameChildren, SentBack
  <2> QED
    BY <1>2, <2>1, <2>2, TableKept DEF CaseTerm
<1>3. ASSUME NEW p \in Pids, ChildRuns(p) \/ ChildEvent(p) \/ ChildHangup(p)
      PROVE  TableInv'
  <2>1. \E to \in Places \ {"none"} : /\ child[p] # "none"
                                      /\ child' = [child EXCEPT ![p] = to]
    BY <1>3 DEF ChildRuns, ChildStarts, ChildExits, ChildEvent, ChildHangup, ChildGoes, Places
  <2>2. child' \in [Pids -> Places] /\ SameChildren
    BY <1>0, <2>1 DEF SameChildren
  <2>3. UNCHANGED <<tableVars, idx>>
    BY <1>3 DEF ChildRuns, ChildStarts, ChildExits, ChildEvent, ChildHangup, ChildGoes
  <2> QED
    BY <2>2, <2>3, TableKept
<1>4. CASE \/ Terminate \/ ChldDelivered \/ EpollWait \/ Refuse \/ SignalEvent
           \/ CaseChld \/ ReapedAll \/ CaseTermAlone \/ NextIteration \/ UNCHANGED vars
  <2>1. UNCHANGED <<tableVars, childVars>>
    BY <1>4 DEF Terminate, ChldDelivered, EpollWait, Refuse, AcceptEvent, SignalEvent,
                CaseChld, ReapedAll, CaseTermAlone, NextIteration, vars
  <2> QED
    BY <1>1, <2>1
<1> QED
  BY <1>2, <1>3, <1>4

-------------------------------------------------------------------------------
\* The new child gets the first slot that is not live, and the segment with its number.
LEMMA TableInvFork ==
  ASSUME TableInv, NEW p \in Pids, Fork(p)
  PROVE  TableInv'
<1> USE LimitAssumption
<1>1. /\ user_count \in Slots
      /\ user_count' = user_count + 1
      /\ child[p] = "none"
  BY DEF TableInv, TableType, Fork, Slots
<1>2. TableType'
  BY <1>1 DEF TableInv, TableType, Fork, Slots, Places
<1>3. Children' = Children \cup {p}
  BY DEF TableInv, TableType, Fork, Children
<1>4. ASSUME NEW i \in 0 .. user_count' - 1
      PROVE  users'[i] \in Children' /\ sub_process'[users'[i]] = i
  <2>1. CASE i = user_count
    BY <1>1, <1>3, <2>1 DEF TableInv, TableType, Fork
  <2>2. CASE i # user_count
    <3>1. i \in 0 .. user_count - 1 /\ i \in Slots
      BY <1>1, <1>4, <2>2 DEF Slots, TableInv, TableType
    <3>2. users[i] \in Children /\ sub_process[users[i]] = i /\ users[i] # p
      BY <1>1, <3>1 DEF TableInv, SlotsMatch, Children
    <3> QED
      BY <1>3, <2>2, <3>1, <3>2 DEF TableInv, TableType, Fork, Children
  <2> QED
    BY <2>1, <2>2
<1>5. ASSUME NEW q \in Children'
      PROVE  /\ sub_process'[q] \in 0 .. user_count' - 1
             /\ users'[sub_process'[q]] = q
             /\ sub_process'[q] <= idx'[q]
  <2>1. CASE q = p
    BY <1>1, <2>1 DEF TableInv, TableType, Fork, Slots
  <2>2. CASE q # p
    <3>1. q \in Children /\ q \in Pids
      BY <1>3, <1>5, <2>2 DEF Children
    <3>2. /\ sub_process[q] \in 0 .. user_count - 1
          /\ users[sub_process[q]] = q
          /\ sub_process[q] <= idx[q]
      BY <3>1 DEF TableInv, SlotsMatch
    <3>3. sub_process'[q] = sub_process[q] /\ idx'[q] = idx[q]
      BY <2>2, <3>1 DEF TableInv, TableType, Fork
    <3>4. users'[sub_process[q]] = users[sub_process[q]]
      BY <1>1, <3>2 DEF TableInv, TableType, Fork, Slots
    <3> QED
      BY <1>1, <3>2, <3>3, <3>4 DEF TableInv, TableType
  <2> QED
    BY <2>1, <2>2
<1> QED
  BY <1>2, <1>4, <1>5 DEF TableInv, SlotsMatch

-------------------------------------------------------------------------------
\* The slot of the child that was waited for is filled with the last user, which
\* sub_process follows.  The last user may be that child.
LEMMA TableInvReap ==
  ASSUME TableInv, NEW p \in Pids, Reap(p)
  PROVE  TableInv'
<1> USE LimitAssumption
<1> DEFINE del == sub_process[p]
           end == user_count - 1
           last == users[end]
<1>1. /\ p \in Children
      /\ del \in 0 .. end
      /\ users[del] = p
  BY DEF TableInv, SlotsMatch, Reap, Children
<1>2. /\ end \in Slots /\ del \in Slots
      /\ last \in Children /\ last \in Pids
      /\ sub_process[last] = end
  BY <1>1 DEF TableInv, TableType, SlotsMatch, Slots, Children
<1>3. /\ user_count' = end
      /\ users' = [users EXCEPT ![del] = last, ![end] = NULL]
      /\ sub_process' = [sub_process EXCEPT ![p] = -1, ![last] = del]
      /\ child' = [child EXCEPT ![p] = "none"]
      /\ idx' = [idx EXCEPT ![p] = 0]
  BY <1>1, <1>2 DEF Reap, Slots
<1>4. TableType'
  <2>1. user_count' \in 0 .. USER_LIMIT
    BY <1>2, <1>3 DEF Slots
  <2>2. users' \in [Slots -> Pids \cup {NULL}]
    BY <1>2, <1>3 DEF TableInv, TableType
  <2>3. sub_process' \in [Pids -> Slots \cup {-1}]
    BY <1>2, <1>3 DEF TableInv, TableType
  <2>4. child' \in [Pids -> Places] /\ idx' \in [Pids -> Slots]
    BY <1>3 DEF TableInv, TableType, Places, Slots
  <2> QED
    BY <2>1, <2>2, <2>3, <2>4 DEF TableType
<1>5. Children' = Children \ {p}
  BY <1>3 DEF TableInv, TableType, Children
<1>6. ASSUME NEW i \in 0 .. user_count' - 1
      PROVE  users'[i] \in Children' /\ sub_process'[users'[i]] = i
  <2>1. i \in 0 .. end /\ i # end /\ i \in Slots
    BY <1>2, <1>3, <1>6 DEF Slots
  <2>2. users[i] \in Children /\ users[i] \in Pids /\ sub_process[users[i]] = i
    BY <2>1 DEF TableInv, SlotsMatch, Children
  <2>3. CASE i = del
    <3>1. last # p /\ users'[i] = last
      BY <1>2, <1>3, <2>1, <2>3 DEF TableInv, TableType
    <3> QED
      BY <1>2, <1>3, <1>5, <2>3, <3>1 DEF TableInv, TableType
  <2>4. CASE i # del
    <3>1. users'[i] = users[i] /\ users[i] # p /\ users[i] # last
      BY <1>2, <1>3, <2>1, <2>2, <2>4 DEF TableInv, TableType
    <3> QED
      BY <1>3, <1>5, <2>2, <3>1 DEF TableInv, TableType
  <2> QED
    BY <2>3, <2>4
<1>7. ASSUME NEW q \in Children'
      PROVE  /\ sub_process'[q] \in 0 .. user_count' - 1
             /\ users'[sub_process'[q]] = q
             /\ sub_process'[q] <= idx'[q]
  <2>1. q \in Children /\ q \in Pids /\ q # p
    BY <1>5, <1>7 DEF Children
  <2>2. /\ sub_process[q] \in 0 .. end
        /\ users[sub_process[q]] = q
        /\ sub_process[q] <= idx[q]
    BY <2>1 DEF TableInv, SlotsMatch
  <2>3. idx'[q] = idx[q] /\ idx[q] \in Int
    BY <1>3, <2>1 DEF TableInv, TableType, Slots
  <2>4. CASE q = last
    <3>1. sub_process'[q] = del
      BY <1>3, <2>1, <2>4 DEF TableInv, TableType
    <3>2. del # end
      BY <1>1, <2>1, <2>4
    <3>3. users'[del] = last
      BY <1>2, <1>3, <3>2 DEF TableInv, TableType
    <3> QED
      BY <1>1, <1>2, <1>3, <2>2, <2>3, <2>4, <3>1, <3>2, <3>3 DEF Slots
  <2>5. CASE q # last
    <3>1. sub_process'[q] = sub_process[q]
      BY <1>3, <2>1, <2>5 DEF TableInv, TableType
    <3>2. sub_process[q] # end /\ sub_process[q] # del
      BY <1>1, <2>1, <2>2, <2>5
    <3>3. users'[sub_process[q]] = users[sub_process[q]]
      BY <1>2, <1>3, <2>2, <3>2 DEF TableInv, TableType, Slots
    <3> QED
      BY <1>2, <1>3, <2>2, <2>3, <3>1, <3>2, <3>3 DEF Slots
  <2> QED
    BY <2>4, <2>5
<1> QED
  BY <1>4, <1>6, <1>7 DEF TableInv, SlotsMatch

\* Each step of the server and of its children keeps the tables right.
LEMMA TableStep == TableInv /\ [Next]_vars => TableInv'
<1> SUFFICES ASSUME TableInv, [Next]_vars PROVE TableInv'
  OBVIOUS
<1>1. CASE \E p \in Pids : Fork(p)
  BY <1>1, TableInvFork
<1>2. CASE \E p \in Pids : Reap(p)
  BY <1>2, TableInvReap
<1>3. CASE \/ Terminate \/ ChldDelivered \/ EpollWait \/ Refuse \/ SignalEvent
           \/ CaseChld \/ ReapedAll \/ CaseTermAlone \/ CaseTerm \/ NextIteration
           \/ \E p \in Pids : ChildRuns(p) \/ ChildEvent(p) \/ ChildHangup(p)
           \/ UNCHANGED vars
  BY <1>3, TableOthers
<1> QED
  BY <1>1, <1>2, <1>3 DEF Next, Server

-------------------------------------------------------------------------------
\* users[], user_count and sub_process[] always describe the same children (serv.c:
\* 241-266 and 289-299), whatever the number of children and the order they end in.
THEOREM SlotsMatchCorrect == Spec => []SlotsMatch
<1>1. TableInv => SlotsMatch
  BY DEF TableInv
<1> QED
  BY <1>1, TableInit, TableStep, PTL DEF Spec

\* The server only decides to stop (serv.c: 300-302 and 309-312) when it has waited for
\* every child it forked: user_count is zero only then.
THEOREM StopsAfterLastCorrect == Spec => StopsAfterLast
<1>1. TableInv /\ [Next]_vars => [stop_server' /\ ~stop_server => Children' = {}]_vars
  <2> SUFFICES ASSUME TableInv, Next, stop_server', ~stop_server
               PROVE  Children' = {}
    BY DEF vars
  <2>1. ReapedAll \/ CaseTermAlone
    BY DEF Next, Server, Terminate, ChldDelivered, ChildRuns, ChildStarts, ChildExits,
           ChildEvent, ChildHangup, ChildGoes, EpollWait, Refuse, Fork, AcceptEvent,
           SignalEvent, CaseChld, Reap, CaseTerm, NextIteration, loopVars
  <2>2. user_count = 0 /\ UNCHANGED child
    BY <2>1 DEF ReapedAll, CaseTermAlone, childVars
  <2>3. Children = {}
    BY <2>2 DEF TableInv, SlotsMatch
  <2> QED
    BY <2>2, <2>3 DEF Children
<1> QED
  BY <1>1, TableInit, TableStep, PTL DEF Spec, StopsAfterLast
-------------------------------------------------------------------------------
\* The users of the tables are the children.
LEMMA UsersAreChildren == TableInv => Users = Children
<1> SUFFICES ASSUME TableInv PROVE Users = Children
  OBVIOUS
<1>1. ASSUME NEW p \in Children PROVE p \in Users
  BY <1>1 DEF TableInv, SlotsMatch, Users
<1>2. ASSUME NEW p \in Users PROVE p \in Children
  BY <1>2 DEF TableInv, SlotsMatch, Users
<1> QED
  BY <1>1, <1>2

\* serv.c does to users[], user_count and the segments of its children (lines 241-266 and
\* 289-299) what ShmTables says, for any number of pids and any USER_LIMIT: sub_process[]
\* only finds slots that the abstract tables find by looking at users[].
THEOREM ServerImplementsTables == Spec => TablesSpec
<1>1. Init => TablesInit
  BY DEF Init
<1>2. ASSUME TableInv, NEW p \in Pids, Fork(p)
      PROVE  TableFork(p)
  <2>1. p \notin Children
    BY <1>2 DEF Fork, Children
  <2> QED
    BY <1>2, <2>1, UsersAreChildren DEF Fork, TableFork
<1>3. ASSUME TableInv, NEW p \in Pids, Reap(p)
      PROVE  TableReap(p)
  <2>1. /\ p \in Children
        /\ sub_process[p] \in 0 .. user_count - 1
        /\ users[sub_process[p]] = p
    BY <1>3 DEF TableInv, SlotsMatch, Reap, Children
  <2>2. ~(sub_process[p] < 0 \/ sub_process[p] > USER_LIMIT)
    BY <1>3, <2>1, LimitAssumption DEF TableInv, TableType
  <2>3. /\ users' = [users EXCEPT ![sub_process[p]] = users[user_count - 1], ![user_count - 1] = NULL]
        /\ user_count' = user_count - 1
        /\ idx' = [idx EXCEPT ![p] = 0]
    BY <1>3, <2>2 DEF Reap
  <2>4. p \in Users
    BY <1>3, <2>1, UsersAreChildren
  <2> QED
    BY <2>1, <2>3, <2>4 DEF TableReap
<1>4. TableInv /\ [Next]_vars => [TablesNext]_<<users, user_count, idx>>
  <2> SUFFICES ASSUME TableInv, [Next]_vars
               PROVE  TablesNext \/ UNCHANGED <<users, user_count, idx>>
    OBVIOUS
  <2>1. CASE \E p \in Pids : Fork(p)
    BY <1>2, <2>1 DEF TablesNext
  <2>2. CASE \E p \in Pids : Reap(p)
    BY <1>3, <2>2 DEF TablesNext
  <2>3. CASE \/ Terminate \/ ChldDelivered \/ EpollWait \/ Refuse \/ SignalEvent
             \/ CaseChld \/ ReapedAll \/ CaseTermAlone \/ CaseTerm \/ NextIteration
             \/ \E p \in Pids : ChildRuns(p) \/ ChildEvent(p) \/ ChildHangup(p)
             \/ UNCHANGED vars
    BY <2>3 DEF Terminate, ChldDelivered, EpollWait, Refuse, SignalEvent, CaseChld,
                ReapedAll, CaseTermAlone, CaseTerm, NextIteration, ChildRuns, ChildStarts,
                ChildExits, ChildEvent, ChildHangup, ChildGoes, vars, tableVars, childVars
  <2> QED
    BY <2>1, <2>2, <2>3 DEF Next, Server
<1> QED
  BY <1>1, <1>4, TableInit, TableStep, PTL DEF Spec, TablesSpec
-------------------------------------------------------------------------------
\* The types of the variables of the loop; a reported signal pipe has bytes.
LoopType ==
  /\ terminate \in BOOLEAN /\ stop_server \in BOOLEAN
  /\ pc \in {"wait", "handle", "signal", "reap", "exit"}
  /\ sig \in {"SIGCHLD", "SIGTERM", NULL}
  /\ left \in Nat
  /\ pc \in {"signal", "reap"} <=> left > 0
  /\ edge \in BOOLEAN
  /\ batch \in SUBSET {"listenfd", "sigpipe"}
  /\ "sigpipe" \in batch => sigpipe # <<>>
  /\ terms \in Int
  /\ chldPending \in BOOLEAN
  /\ sigpipe \in Seq({"SIGCHLD", "SIGTERM"})
  /\ stop_child \in [Pids -> BOOLEAN]
  /\ skipped \in BOOLEAN /\ missed \in BOOLEAN

\* The SIGTERMs that forked children send back are finitely many.
LEMMA SentBackIsFinite == TableType => Cardinality(SentBack) \in Nat
<1> SUFFICES ASSUME TableType PROVE Cardinality(SentBack) \in Nat
  OBVIOUS
<1> DEFINE live == 0 .. user_count - 1
           pid == [i \in live |-> users[i]]
<1>1. IsFiniteSet(live)
  <2>1. user_count - 1 \in Int /\ 0 \in Int
    BY DEF TableType
  <2> QED
    BY <2>1, FS_Interval
<1>2. pid \in Surjection(live, Users)
  BY DEF Surjection, Users
<1>3. IsFiniteSet(Users)
  BY <1>1, <1>2, FS_Surjection
<1>4. SentBack \subseteq Users
  BY DEF SentBack
<1> QED
  BY <1>3, <1>4, FS_Subset, FS_CardinalityType

\* Handling one byte takes the loop over the signals one further, or ends it.
LEMMA NextSignalTypes ==
  ASSUME LoopType, pc \in {"signal", "reap"}, NextSignal
  PROVE  /\ left' \in Nat
         /\ pc' \in {"handle", "signal"}
         /\ pc' \in {"signal", "reap"} <=> left' > 0
         /\ sig' \in {"SIGCHLD", "SIGTERM", NULL}
         /\ UNCHANGED <<batch, terms, chldPending>>
BY DEF LoopType, NextSignal

LEMMA LoopInit == Init => LoopType
<1> SUFFICES ASSUME Init PROVE LoopType
  OBVIOUS
<1>1. sigpipe \in Seq({"SIGCHLD", "SIGTERM"}) /\ terms \in Int
  BY MaxTermsAssumption DEF Init
<1>2. stop_child \in [Pids -> BOOLEAN] /\ skipped \in BOOLEAN /\ missed \in BOOLEAN
  BY DEF Init
<1>3. pc = "wait" /\ left = 0 /\ sig = NULL /\ batch = {}
  BY DEF Init
<1>4. edge \in BOOLEAN /\ chldPending \in BOOLEAN /\ terminate \in BOOLEAN /\ stop_server \in BOOLEAN
  BY DEF Init
<1> QED
  BY <1>1, <1>2, <1>3, <1>4 DEF LoopType

LEMMA LoopStep == TableType /\ LoopType /\ [Next]_vars => LoopType'
<1> SUFFICES ASSUME TableType, LoopType, [Next]_vars PROVE LoopType'
  OBVIOUS
<1> DEFINE Sigs == {"SIGCHLD", "SIGTERM"}
<1>1. CASE UNCHANGED vars
  BY <1>1 DEF LoopType, vars, loopVars, childVars, envVars, history
<1>2. ASSUME NEW s \in Sigs, SigHandler(s)
      PROVE  sigpipe' \in Seq(Sigs) /\ sigpipe' # <<>> /\ edge' \in BOOLEAN
  BY <1>2 DEF LoopType, SigHandler
<1>3. CASE Terminate
  BY <1>2, <1>3 DEF Terminate, LoopType, loopVars, childVars, history
<1>4. CASE ChldDelivered
  BY <1>2, <1>4 DEF ChldDelivered, LoopType, loopVars, childVars, history
<1>5. CASE \E p \in Pids : ChildRuns(p) \/ ChildEvent(p) \/ ChildHangup(p)
  BY <1>5 DEF ChildRuns, ChildStarts, ChildExits, ChildEvent, ChildHangup, ChildGoes,
              LoopType, loopVars, envVars, history
<1>6. CASE EpollWait
  BY <1>6 DEF EpollWait, LoopType, childVars, history
<1>7. CASE Refuse
  BY <1>7 DEF Refuse, AcceptEvent, LoopType, childVars, envVars
<1>8. ASSUME NEW p \in Pids, Fork(p)
      PROVE  LoopType'
  <2>1. stop_child' \in [Pids -> BOOLEAN] /\ missed' \in BOOLEAN
    BY <1>8, HistoryAssumption DEF Fork, LoopType
  <2> QED
    BY <1>8, <2>1 DEF Fork, AcceptEvent, LoopType, envVars
<1>9. CASE SignalEvent
  <2>1. sigpipe # <<>> /\ sigpipe \in Seq(Sigs)
    BY <1>9 DEF SignalEvent, LoopType
  <2>2. Head(sigpipe) \in Sigs /\ Len(sigpipe) \in Nat /\ Len(sigpipe) > 0
    BY <2>1
  <2>3. skipped' \in BOOLEAN
    BY <1>9, HistoryAssumption DEF SignalEvent, LoopType
  <2> QED
    BY <1>9, <2>2, <2>3 DEF SignalEvent, LoopType, childVars
<1>10. CASE CaseChld
  BY <1>10 DEF CaseChld, LoopType, childVars, envVars, history
<1>11. ASSUME NEW p \in Pids, Reap(p)
       PROVE  LoopType'
  BY <1>11 DEF Reap, LoopType, loopVars, envVars, history
<1>12. CASE ReapedAll \/ CaseTermAlone
  <2>1. stop_server' \in BOOLEAN /\ pc \in {"signal", "reap"} /\ NextSignal
    BY <1>12 DEF ReapedAll, CaseTermAlone, LoopType
  <2> QED
    BY <1>12, <2>1, NextSignalTypes DEF ReapedAll, CaseTermAlone, LoopType, childVars, history
<1>13. CASE CaseTerm
  <2>1. Cardinality(SentBack) \in Nat
    BY SentBackIsFinite
  <2>2. [i \in 1 .. Cardinality(SentBack) |-> "SIGTERM"] \in Seq(Sigs)
    BY <2>1
  <2>3. sigpipe' \in Seq(Sigs) /\ (sigpipe # <<>> => sigpipe' # <<>>)
    BY <1>13, <2>2 DEF CaseTerm, LoopType
  <2>4. edge' \in BOOLEAN /\ missed' \in BOOLEAN /\ stop_child' \in [Pids -> BOOLEAN]
    BY <1>13, HistoryAssumption DEF CaseTerm, LoopType
  <2>5. pc \in {"signal", "reap"} /\ NextSignal
    BY <1>13 DEF CaseTerm
  <2> QED
    BY <1>13, <2>3, <2>4, <2>5, NextSignalTypes DEF CaseTerm, LoopType
<1>14. CASE NextIteration
  BY <1>14 DEF NextIteration, LoopType, childVars, envVars, history
<1> QED
  BY <1>1, <1>3, <1>4, <1>5, <1>6, <1>7, <1>8, <1>9, <1>10, <1>11, <1>12, <1>13, <1>14
     DEF Next, Server

\* The tables stay within USER_LIMIT, the loop over the signals of one recv ends exactly
\* when its last byte was looked at, and it never looks at a byte that was not sent.
THEOREM TypeCorrect == Spec => []TypeOK
<1>1. TableInv /\ LoopType => TypeOK
  BY DEF TableInv, TableType, LoopType, TypeOK
<1>2. TableInv /\ LoopType /\ [Next]_vars => LoopType'
  BY LoopStep DEF TableInv
<1> QED
  BY <1>1, <1>2, TableInit, TableStep, LoopInit, PTL DEF Spec

-------------------------------------------------------------------------------
(* The texts. *)

\* users[] holds each child once.
UsersOnce ==
  /\ users \in [Slots -> Pids \cup {NULL}]
  /\ user_count \in 0 .. USER_LIMIT
  /\ idx \in [Pids -> Slots]
  /\ \A i \in 0 .. user_count - 1 : users[i] \in Pids
  /\ \A i, j \in 0 .. user_count - 1 : users[i] = users[j] => i = j

\* The users of the tables are the children that were not waited for.
UsersLive == \A p \in Pids : p \in Users <=> childPc[p] # "none"

\* Nothing is left of a child that was waited for, and no event is handled by one that ended.
GoneAreEmpty ==
  \A p \in Pids :
    /\ childPc[p] = "none" => up[p] = 0 /\ down[p] = <<>>
    /\ childPc[p] \in {"none", "zombie"} => events[p] = {}

\* The author of what a segment holds is a child with that segment.
AuthorsOwn == \A s \in Slots : text[s] # NULL => text[s] \in Users /\ idx[text[s]] = s

\* Texts are due to other clients that are there, from clients that are there.
DueToOthers == \A d \in due : d[1] \in Users /\ d[2] \in Users /\ d[1] # d[2]

\* Children with a segment in common are known.
TwinsKnown == \A p, q \in Users : p # q /\ idx[p] = idx[q] => p \in twins

\* Every event of a child's pipe has a number of its own.
PipesCovered ==
  \A p \in Pids : /\ "pipe" \in ready[p] \cup events[p] => Len(down[p]) >= 1
                  /\ "pipe" \in ready[p] \cap events[p] => Len(down[p]) >= 2

RelayInv ==
  /\ RelayTypeOK
  /\ UsersOnce /\ UsersLive /\ GoneAreEmpty
  /\ AuthorsOwn /\ DueToOthers /\ TwinsKnown /\ PipesCovered

-------------------------------------------------------------------------------
(* The tables. *)

\* The new child takes the first slot that is not live, and its number.
LEMMA ForkOnce ==
  ASSUME UsersOnce, NEW p \in Pids, TableFork(p)
  PROVE  /\ UsersOnce'
         /\ Users' = Users \cup {p}
         /\ user_count \in Slots
         /\ idx' = [idx EXCEPT ![p] = user_count]
<1> USE LimitAssumption DEF UsersOnce, Slots
<1>1. user_count \in Slots /\ user_count' = user_count + 1
  BY DEF TableFork
<1>2. /\ users' = [users EXCEPT ![user_count] = p]
      /\ idx' = [idx EXCEPT ![p] = user_count]
      /\ p \notin Users
  BY DEF TableFork
<1>3. \A i \in 0 .. user_count - 1 : users'[i] = users[i]
  BY <1>1, <1>2
<1>4. users'[user_count] = p
  BY <1>1, <1>2
<1>5. \A i \in 0 .. user_count' - 1 : i = user_count \/ i \in 0 .. user_count - 1
  BY <1>1
<1>6. Users' = Users \cup {p}
  BY <1>1, <1>3, <1>4, <1>5 DEF Users
<1>7. UsersOnce'
  <2>1. users' \in [Slots -> Pids \cup {NULL}] /\ user_count' \in 0 .. USER_LIMIT
    BY <1>1, <1>2 DEF TableFork
  <2>2. idx' \in [Pids -> Slots]
    BY <1>1, <1>2
  <2>3. \A i \in 0 .. user_count' - 1 : users'[i] \in Pids
    BY <1>3, <1>4, <1>5
  <2>4. \A i, j \in 0 .. user_count' - 1 : users'[i] = users'[j] => i = j
    BY <1>2, <1>3, <1>4, <1>5 DEF Users
  <2> QED
    BY <2>1, <2>2, <2>3, <2>4
<1> QED
  BY <1>1, <1>2, <1>6, <1>7

\* The last user is moved to the slot that becomes free, and nobody else is lost.
LEMMA ReapOnce ==
  ASSUME UsersOnce, NEW p \in Pids, TableReap(p)
  PROVE  /\ UsersOnce'
         /\ Users' = Users \ {p}
         /\ idx' = [idx EXCEPT ![p] = 0]
<1> USE LimitAssumption DEF UsersOnce, Slots
<1> DEFINE end == user_count - 1
           live == 0 .. end
<1>1. PICK slot \in live :
        /\ users[slot] = p
        /\ users' = [users EXCEPT ![slot] = users[end], ![end] = NULL]
  BY DEF TableReap
<1>2. user_count' = end /\ idx' = [idx EXCEPT ![p] = 0]
  BY DEF TableReap
<1>3. end \in Slots /\ slot \in Slots /\ live \subseteq Slots
  BY <1>1
<1>4. \A i \in 0 .. user_count' - 1 :
        /\ i \in live /\ i # end
        /\ users'[i] = IF i = slot THEN users[end] ELSE users[i]
  BY <1>1, <1>2, <1>3
<1>5. UsersOnce'
  <2>1. users[end] \in Pids
    BY <1>3
  <2>2. users' \in [Slots -> Pids \cup {NULL}] /\ user_count' \in 0 .. USER_LIMIT
    BY <1>1, <1>2, <1>3, <2>1
  <2>3. idx' \in [Pids -> Slots]
    BY <1>2
  <2>4. \A i \in 0 .. user_count' - 1 : users'[i] \in Pids
    BY <1>4, <2>1
  <2>5. \A i, j \in 0 .. user_count' - 1 : users'[i] = users'[j] => i = j
    BY <1>3, <1>4
  <2> QED
    BY <2>2, <2>3, <2>4, <2>5
<1>6. ASSUME NEW q \in Users' PROVE q \in Users \ {p}
  <2>1. PICK i \in 0 .. user_count' - 1 : users'[i] = q
    BY <1>6 DEF Users
  <2> QED
    BY <1>1, <1>3, <1>4, <2>1 DEF Users
<1>7. ASSUME NEW q \in Users, q # p PROVE q \in Users'
  <2>1. PICK i \in live : users[i] = q
    BY <1>7 DEF Users
  <2>2. CASE i = end
    <3>0. slot # end
      BY <1>1, <1>7, <2>1, <2>2
    <3>1. slot \in 0 .. user_count' - 1
      BY <1>2, <3>0
    <3>2. users'[slot] = q
      BY <1>4, <2>1, <2>2, <3>1
    <3> QED
      BY <3>1, <3>2 DEF Users
  <2>3. CASE i # end
    <3>1. i \in 0 .. user_count' - 1 /\ users'[i] = q
      BY <1>1, <1>2, <1>3, <1>7, <2>1, <2>3
    <3> QED
      BY <3>1 DEF Users
  <2> QED
    BY <2>2, <2>3
<1> QED
  BY <1>2, <1>5, <1>6, <1>7

-------------------------------------------------------------------------------
LEMMA RelayInvInit == RelayInit => RelayInv
<1> SUFFICES ASSUME RelayInit PROVE RelayInv
  OBVIOUS
<1> USE LimitAssumption
<1>1. RelayTypeOK
  <2>1. <<>> \in Seq(Slots)
    OBVIOUS
  <2>2. down \in [Pids -> Seq(Slots)]
    BY <2>1 DEF RelayInit
  <2>3. unread \in [Pids -> BOOLEAN] /\ fin \in [Pids -> BOOLEAN] /\ stale \in BOOLEAN
    BY DEF RelayInit
  <2>4. up \in [Pids -> Nat]
    BY DEF RelayInit
  <2>5. ready \in [Pids -> SUBSET {"conn", "pipe"}] /\ events \in [Pids -> SUBSET {"conn", "pipe"}]
    BY DEF RelayInit
  <2> QED
    BY <2>2, <2>3, <2>4, <2>5 DEF RelayInit, RelayTypeOK
<1>2. UsersOnce /\ Users = {}
  BY DEF RelayInit, UsersOnce, TablesInit, Users, Slots
<1> QED
  BY <1>1, <1>2 DEF RelayInit, RelayInv, UsersLive, GoneAreEmpty, AuthorsOwn, DueToOthers, TwinsKnown,
                    PipesCovered

\* A step that leaves the tables alone, and ends no child and begins none.
LEMMA OnceKept ==
  ASSUME UsersOnce, UsersLive, TwinsKnown,
         UNCHANGED tables,
         \A p \in Pids : childPc'[p] # "none" <=> childPc[p] # "none"
  PROVE  UsersOnce' /\ UsersLive' /\ TwinsKnown' /\ Users' = Users
<1>1. Users' = Users
  BY DEF tables, Users
<1> QED
  BY <1>1 DEF UsersOnce, UsersLive, TwinsKnown, tables, Slots

\* The parts of TypeOK.
RelayTypes ==
  /\ text \in [Slots -> Pids \cup {NULL}]
  /\ up \in [Pids -> Nat]
  /\ down \in [Pids -> Seq(Slots)]
  /\ due \in SUBSET (Pids \X Pids)
ChildTypes ==
  /\ childPc \in [Pids -> {"none", "run", "cleared", "stop", "zombie"}]
  /\ ready \in [Pids -> SUBSET {"conn", "pipe"}]
  /\ events \in [Pids -> SUBSET {"conn", "pipe"}]
ClientTypes == unread \in [Pids -> BOOLEAN] /\ fin \in [Pids -> BOOLEAN]
ServerTypes == serverReady \in SUBSET Pids /\ serverBatch \in SUBSET Pids /\ stale \in BOOLEAN
TwinTypes == twins \in SUBSET Pids

\* TypeOK has these parts, and each depends on variables of its own.
LEMMA RelayTypeParts ==
  /\ RelayTypeOK <=> RelayTypes /\ ChildTypes /\ ClientTypes /\ ServerTypes /\ TwinTypes
  /\ RelayTypeOK' <=> RelayTypes' /\ ChildTypes' /\ ClientTypes' /\ ServerTypes' /\ TwinTypes'
  /\ RelayTypes /\ UNCHANGED textVars => RelayTypes'
  /\ ChildTypes /\ UNCHANGED epollVars => ChildTypes'
  /\ ClientTypes /\ UNCHANGED clientVars => ClientTypes'
  /\ ServerTypes /\ UNCHANGED serverVars => ServerTypes'
  /\ TwinTypes /\ UNCHANGED tables => TwinTypes'
<1>1. RelayTypeOK <=> RelayTypes /\ ChildTypes /\ ClientTypes /\ ServerTypes /\ TwinTypes
  BY Zenon DEF RelayTypeOK, RelayTypes, ChildTypes, ClientTypes, ServerTypes, TwinTypes
<1>2. RelayTypeOK' <=> RelayTypes' /\ ChildTypes' /\ ClientTypes' /\ ServerTypes' /\ TwinTypes'
  BY Zenon DEF RelayTypeOK, RelayTypes, ChildTypes, ClientTypes, ServerTypes, TwinTypes
<1>3. Slots' = Slots
  BY DEF Slots
<1>4. RelayTypes /\ UNCHANGED textVars => RelayTypes'
  BY <1>3, Zenon DEF RelayTypes, textVars
<1>5. ChildTypes /\ UNCHANGED epollVars => ChildTypes'
  BY Zenon DEF ChildTypes, epollVars
<1>6. ClientTypes /\ UNCHANGED clientVars => ClientTypes'
  BY Zenon DEF ClientTypes, clientVars
<1>7. ServerTypes /\ UNCHANGED serverVars => ServerTypes'
  BY Zenon DEF ServerTypes, serverVars
<1>8. TwinTypes /\ UNCHANGED tables => TwinTypes'
  BY Zenon DEF TwinTypes, tables
<1> QED
  BY <1>1, <1>2, <1>4, <1>5, <1>6, <1>7, <1>8

\* Putting an event on a child's list, or clearing the list, leaves it a list of events.
LEMMA EventListTypes ==
  ASSUME NEW f \in [Pids -> SUBSET {"conn", "pipe"}], NEW p \in Pids,
         NEW S \in SUBSET {"conn", "pipe"}
  PROVE  /\ [f EXCEPT ![p] = S] \in [Pids -> SUBSET {"conn", "pipe"}]
         /\ [f EXCEPT ![p] = @ \cup S] \in [Pids -> SUBSET {"conn", "pipe"}]
         /\ [f EXCEPT ![p] = @ \ S] \in [Pids -> SUBSET {"conn", "pipe"}]
<1>1. f[p] \cup S \in SUBSET {"conn", "pipe"} /\ f[p] \ S \in SUBSET {"conn", "pipe"}
  OBVIOUS
<1> QED
  BY <1>1

\* Clients write to their sockets only.
LEMMA ClientStep ==
  ASSUME RelayInv, NEW p \in Pids, Write(p) \/ Leave(p)
  PROVE  RelayInv'
<1>1. UNCHANGED <<tables, textVars, childPc, events, serverVars>>
  BY DEF Write, Leave
<1>2. ready' = [ready EXCEPT ![p] = @ \cup {"conn"}]
  BY DEF Write, Leave, Edge
<1>3. UsersOnce' /\ UsersLive' /\ TwinsKnown' /\ Users' = Users
  BY <1>1, OnceKept DEF RelayInv
<1>4. RelayTypeOK'
  <2>1. unread' \in [Pids -> BOOLEAN] /\ fin' \in [Pids -> BOOLEAN]
    <3>1. unread \in [Pids -> BOOLEAN] /\ fin \in [Pids -> BOOLEAN]
      BY DEF RelayInv, RelayTypeOK
    <3>2. /\ unread' = unread \/ unread' = [unread EXCEPT ![p] = TRUE]
          /\ fin' = fin \/ fin' = [fin EXCEPT ![p] = TRUE]
      BY DEF Write, Leave
    <3> QED
      BY <3>1, <3>2
  <2>2. ready' \in [Pids -> SUBSET {"conn", "pipe"}]
    <3>1. ready \in [Pids -> SUBSET {"conn", "pipe"}]
      BY DEF RelayInv, RelayTypeOK
    <3> QED
      BY <1>2, <3>1, EventListTypes
  <2>3. ChildTypes'
    BY <1>1, <2>2, RelayTypeParts DEF RelayInv, ChildTypes
  <2>4. ClientTypes'
    BY <2>1 DEF ClientTypes
  <2> QED
    BY <1>1, <2>3, <2>4, RelayTypeParts DEF RelayInv
<1>5. GoneAreEmpty'
  BY <1>1 DEF RelayInv, GoneAreEmpty, textVars
<1>6. AuthorsOwn' /\ DueToOthers'
  BY <1>1, <1>3 DEF RelayInv, AuthorsOwn, DueToOthers, textVars, tables, Slots
<1>7. PipesCovered'
  BY <1>1, <1>2 DEF RelayInv, RelayTypeOK, PipesCovered, textVars
<1> QED
  BY <1>3, <1>4, <1>5, <1>6, <1>7 DEF RelayInv

\* epoll_wait of a child, recv where it ends the connection, and exit.
LEMMA ChildLoopStep ==
  ASSUME RelayInv, NEW p \in Pids, ChildWait(p) \/ Ended(p) \/ Exit(p)
  PROVE  RelayInv'
<1>0. /\ ready \in [Pids -> SUBSET {"conn", "pipe"}]
      /\ events \in [Pids -> SUBSET {"conn", "pipe"}]
      /\ childPc \in [Pids -> {"none", "run", "cleared", "stop", "zombie"}]
  BY DEF RelayInv, RelayTypeOK
<1>1. UNCHANGED <<tables, textVars, clientVars, serverBatch, stale>>
  BY DEF ChildWait, Ended, Exit, serverVars
<1>2. \/ /\ childPc[p] = "run" /\ events[p] = {} /\ childPc' = childPc
         /\ ready' = [ready EXCEPT ![p] = {}]
         /\ \E S \in SUBSET ready[p] : /\ events' = [events EXCEPT ![p] = S]
                                       /\ "pipe" \in S => down[p] # <<>>
      \/ /\ childPc[p] \in {"cleared", "stop"}
         /\ UNCHANGED <<ready, events>>
         /\ \/ childPc' = [childPc EXCEPT ![p] = "stop"]
            \/ childPc' = [childPc EXCEPT ![p] = "zombie"] /\ events[p] = {}
  BY DEF ChildWait, Ended, Exit
<1>3. \A q \in Pids : childPc'[q] # "none" <=> childPc[q] # "none"
  BY <1>0, <1>2
<1>4. UsersOnce' /\ UsersLive' /\ TwinsKnown' /\ Users' = Users
  BY <1>1, <1>3, OnceKept DEF RelayInv
<1>5. RelayTypeOK'
  <2>1. ready' \in [Pids -> SUBSET {"conn", "pipe"}] /\ events' \in [Pids -> SUBSET {"conn", "pipe"}]
    <3>1. ready[p] \in SUBSET {"conn", "pipe"}
      BY <1>0
    <3>2. ready' \in [Pids -> SUBSET {"conn", "pipe"}]
      <4>1. ready' = [ready EXCEPT ![p] = {}] \/ ready' = ready
        BY <1>2
      <4> QED
        BY <1>0, <4>1, EventListTypes
    <3>3. events' \in [Pids -> SUBSET {"conn", "pipe"}]
      <4>1. (\E S \in SUBSET ready[p] : events' = [events EXCEPT ![p] = S]) \/ events' = events
        BY <1>2
      <4>2. ASSUME NEW S \in SUBSET ready[p]
            PROVE  [events EXCEPT ![p] = S] \in [Pids -> SUBSET {"conn", "pipe"}]
        BY <1>0, <3>1, EventListTypes
      <4> QED
        BY <1>0, <4>1, <4>2
    <3> QED
      BY <3>2, <3>3
  <2>2. childPc' \in [Pids -> {"none", "run", "cleared", "stop", "zombie"}]
    BY <1>0, <1>2
  <2>3. serverReady' \in SUBSET Pids
    BY DEF ChildWait, Ended, Exit, serverVars, RelayInv, RelayTypeOK
  <2>4. ChildTypes' /\ ServerTypes'
    BY <1>1, <2>1, <2>2, <2>3, RelayTypeParts DEF RelayInv, ChildTypes, ServerTypes
  <2> QED
    BY <1>1, <2>4, RelayTypeParts DEF RelayInv
<1>6. GoneAreEmpty'
  BY <1>0, <1>1, <1>2 DEF RelayInv, GoneAreEmpty, textVars
<1>7. AuthorsOwn' /\ DueToOthers'
  BY <1>1, <1>4 DEF RelayInv, AuthorsOwn, DueToOthers, textVars, tables, Slots
<1>8. PipesCovered'
  BY <1>0, <1>1, <1>2 DEF RelayInv, PipesCovered, textVars
<1> QED
  BY <1>4, <1>5, <1>6, <1>7, <1>8 DEF RelayInv

\* memset: the segment is nobody's.
LEMMA ClearStep ==
  ASSUME RelayInv, NEW p \in Pids, Clear(p)
  PROVE  RelayInv'
<1> USE DEF Clear, Handle
<1>1. UsersOnce' /\ UsersLive' /\ TwinsKnown' /\ Users' = Users
  BY OnceKept DEF RelayInv, RelayTypeOK
<1>2. RelayTypeOK'
  BY DEF RelayInv, RelayTypeOK, serverVars, clientVars, tables, Slots
<1>3. GoneAreEmpty' /\ DueToOthers'
  BY <1>1 DEF RelayInv, RelayTypeOK, GoneAreEmpty, DueToOthers
<1>4. AuthorsOwn'
  BY <1>1 DEF RelayInv, RelayTypeOK, UsersOnce, AuthorsOwn, tables, Slots
<1>5. PipesCovered'
  BY DEF RelayInv, RelayTypeOK, PipesCovered
<1> QED
  BY <1>1, <1>2, <1>3, <1>4, <1>5 DEF RelayInv

\* recv: the segment is the author's.
LEMMA ReceivedStep ==
  ASSUME RelayInv, NEW p \in Pids, Received(p)
  PROVE  RelayInv'
<1> USE DEF Received
<1>0. p \in Users /\ idx[p] \in Slots
  BY DEF RelayInv, UsersLive, UsersOnce
<1>1. UsersOnce' /\ UsersLive' /\ TwinsKnown' /\ Users' = Users
  BY OnceKept DEF RelayInv, RelayTypeOK
<1>2. Users \subseteq Pids
  BY DEF RelayInv, UsersOnce, Users
<1>3. RelayTypeOK'
  <2>1. due' \in SUBSET (Pids \X Pids)
    <3>1. due \in SUBSET (Pids \X Pids)
      BY DEF RelayInv, RelayTypeOK
    <3>2. (Users \ {p}) \X {p} \subseteq Pids \X Pids
      BY <1>2
    <3> QED
      BY <3>1, <3>2
  <2>2. text' \in [Slots -> Pids \cup {NULL}]
    <3>1. text \in [Slots -> Pids \cup {NULL}] /\ text' = [text EXCEPT ![idx[p]] = p]
      BY DEF RelayInv, RelayTypeOK
    <3> QED
      BY <3>1
  <2>3. up' \in [Pids -> Nat]
    BY DEF RelayInv, RelayTypeOK
  <2> QED
    BY <2>1, <2>2, <2>3 DEF RelayInv, RelayTypeOK, tables, Slots
<1>4. GoneAreEmpty' /\ PipesCovered'
  BY DEF RelayInv, RelayTypeOK, GoneAreEmpty, PipesCovered
<1>5. DueToOthers'
  BY <1>0, <1>1, <1>2 DEF RelayInv, DueToOthers
<1>6. AuthorsOwn'
  BY <1>0, <1>1 DEF RelayInv, RelayTypeOK, AuthorsOwn, tables, Slots
<1> QED
  BY <1>1, <1>3, <1>4, <1>5, <1>6 DEF RelayInv

\* A number is taken off a child's pipe, and its segment is sent.
LEMMA DeliverStep ==
  ASSUME RelayInv, NEW p \in Pids, Deliver(p)
  PROVE  RelayInv'
<1>0. /\ ready \in [Pids -> SUBSET {"conn", "pipe"}]
      /\ events \in [Pids -> SUBSET {"conn", "pipe"}]
      /\ down \in [Pids -> Seq(Slots)]
  BY DEF RelayInv, RelayTypeOK
<1>1. UNCHANGED <<tables, text, up, childPc, clientVars, serverVars>>
  BY DEF Deliver
<1>2. /\ "pipe" \in events[p]
      /\ events' = [events EXCEPT ![p] = @ \ {"pipe"}]
      /\ down' = [down EXCEPT ![p] = Tail(@)]
      /\ due' \subseteq due
      /\ childPc[p] \in {"run", "stop"}
  BY DEF Deliver, Handle
<1>3. ready' = ready \/ ready' = [ready EXCEPT ![p] = @ \cup {"conn"}]
  BY DEF Deliver, SendTo, Edge
<1>4. UsersOnce' /\ UsersLive' /\ TwinsKnown' /\ Users' = Users
  BY <1>1, OnceKept DEF RelayInv
<1>5. Len(down[p]) >= 1 /\ down[p] \in Seq(Slots)
  BY <1>0, <1>2 DEF RelayInv, PipesCovered
<1>6. Tail(down[p]) \in Seq(Slots) /\ Len(Tail(down[p])) = Len(down[p]) - 1
  <2>1. down[p] # <<>>
    BY <1>5
  <2> QED
    BY <1>5, <2>1, HeadTailProperties
<1>7. RelayTypeOK'
  <2>1. ready' \in [Pids -> SUBSET {"conn", "pipe"}]
    <3>1. CASE ready' = ready
      BY <1>0, <3>1
    <3>2. CASE ready' = [ready EXCEPT ![p] = @ \cup {"conn"}]
      BY <1>0, <3>2, EventListTypes
    <3> QED
      BY <1>3, <3>1, <3>2
  <2>2. events' \in [Pids -> SUBSET {"conn", "pipe"}]
    BY <1>0, <1>2, EventListTypes
  <2>3. down' \in [Pids -> Seq(Slots)]
    BY <1>0, <1>2, <1>6
  <2>4. RelayTypes'
    BY <1>1, <1>2, <2>3 DEF RelayInv, RelayTypeOK, RelayTypes, Slots
  <2>5. ChildTypes'
    BY <1>1, <2>1, <2>2 DEF RelayInv, RelayTypeOK, ChildTypes
  <2> QED
    BY <1>1, <2>4, <2>5, RelayTypeParts DEF RelayInv
<1>8. GoneAreEmpty'
  BY <1>0, <1>1, <1>2 DEF RelayInv, GoneAreEmpty
<1>9. AuthorsOwn' /\ DueToOthers'
  BY <1>1, <1>2, <1>4 DEF RelayInv, AuthorsOwn, DueToOthers, tables, Slots
<1>10. PipesCovered'
  <2>1. ASSUME NEW q \in Pids
        PROVE  /\ "pipe" \in ready'[q] \cup events'[q] => Len(down'[q]) >= 1
               /\ "pipe" \in ready'[q] \cap events'[q] => Len(down'[q]) >= 2
    <3>1. "pipe" \in ready'[q] <=> "pipe" \in ready[q]
      BY <1>0, <1>3
    <3>2. CASE q = p
      BY <1>0, <1>2, <1>5, <1>6, <3>1, <3>2 DEF RelayInv, PipesCovered
    <3>3. CASE q # p
      BY <1>0, <1>2, <3>1, <3>3 DEF RelayInv, PipesCovered
    <3> QED
      BY <3>2, <3>3
  <2> QED
    BY <2>1 DEF PipesCovered
<1> QED
  BY <1>4, <1>7, <1>8, <1>9, <1>10 DEF RelayInv

\* A number goes to the pipes of the others that have not ended.
LEMMA RelayStep ==
  ASSUME RelayInv, NEW p \in Pids, Relay(p)
  PROVE  RelayInv'
<1>0. /\ ready \in [Pids -> SUBSET {"conn", "pipe"}]
      /\ down \in [Pids -> Seq(Slots)]
      /\ up \in [Pids -> Nat]
      /\ idx[p] \in Slots
  BY DEF RelayInv, RelayTypeOK, UsersOnce
<1>1. UNCHANGED <<tables, text, due, childPc, events, clientVars, serverReady, stale>>
  BY DEF Relay
<1>2. /\ up[p] > 0 /\ up' = [up EXCEPT ![p] = @ - 1]
      /\ down' = [r \in Pids |-> IF r \in Others(p) THEN Append(down[r], idx[p]) ELSE down[r]]
      /\ ready' = [r \in Pids |-> IF r \in Others(p) THEN ready[r] \cup {"pipe"} ELSE ready[r]]
      /\ serverBatch' = serverBatch \ {p}
  BY DEF Relay
<1>3. \A r \in Others(p) : childPc[r] # "none"
  BY DEF Others, Alive
<1>4. UsersOnce' /\ UsersLive' /\ TwinsKnown' /\ Users' = Users
  BY <1>1, OnceKept DEF RelayInv
<1>5. \A r \in Pids : /\ Append(down[r], idx[p]) \in Seq(Slots)
                      /\ Len(Append(down[r], idx[p])) = Len(down[r]) + 1
                      /\ Len(down[r]) \in Nat
  BY <1>0
<1>6. RelayTypeOK'
  <2>1. ready' \in [Pids -> SUBSET {"conn", "pipe"}]
    <3>1. \A r \in Pids : ready'[r] \in SUBSET {"conn", "pipe"}
      BY <1>0, <1>2
    <3> QED
      BY <1>2, <3>1
  <2>2. down' \in [Pids -> Seq(Slots)]
    BY <1>0, <1>2, <1>5
  <2>3. up' \in [Pids -> Nat]
    BY <1>0, <1>2
  <2>4. RelayTypes'
    BY <1>1, <2>2, <2>3 DEF RelayInv, RelayTypeOK, RelayTypes, Slots
  <2>5. ChildTypes'
    BY <1>1, <2>1 DEF RelayInv, RelayTypeOK, ChildTypes
  <2>6. ServerTypes'
    BY <1>1, <1>2, Zenon DEF RelayInv, RelayTypeOK, ServerTypes
  <2> QED
    BY <1>1, <2>4, <2>5, <2>6, RelayTypeParts DEF RelayInv
<1>7. GoneAreEmpty'
  BY <1>1, <1>2, <1>3 DEF RelayInv, GoneAreEmpty
<1>8. AuthorsOwn' /\ DueToOthers'
  BY <1>1, <1>4 DEF RelayInv, AuthorsOwn, DueToOthers, tables, Slots
<1>9. PipesCovered'
  <2>1. ASSUME NEW q \in Pids
        PROVE  /\ "pipe" \in ready'[q] \cup events'[q] => Len(down'[q]) >= 1
               /\ "pipe" \in ready'[q] \cap events'[q] => Len(down'[q]) >= 2
    <3>1. CASE q \in Others(p)
      BY <1>1, <1>2, <1>5, <3>1 DEF RelayInv, PipesCovered
    <3>2. CASE q \notin Others(p)
      BY <1>1, <1>2, <3>2 DEF RelayInv, PipesCovered
    <3> QED
      BY <3>1, <3>2
  <2> QED
    BY <2>1 DEF PipesCovered
<1> QED
  BY <1>4, <1>6, <1>7, <1>8, <1>9 DEF RelayInv

\* epoll_wait of the server, and a read that finds no number.
LEMMA ServerLoopStep ==
  ASSUME RelayInv, ServerWait \/ \E p \in Pids : NoNumber(p)
  PROVE  RelayInv'
<1>1. UNCHANGED <<tables, textVars, epollVars, clientVars>>
  BY DEF ServerWait, NoNumber
<1>2. serverReady' \in SUBSET Pids /\ serverBatch' \in SUBSET Pids /\ stale' \in BOOLEAN
  BY Zenon DEF ServerWait, NoNumber, RelayInv, RelayTypeOK
<1>3. UsersOnce' /\ UsersLive' /\ TwinsKnown' /\ Users' = Users
  BY <1>1, OnceKept DEF RelayInv, epollVars
<1>4. RelayTypeOK'
  BY <1>1, <1>2, RelayTypeParts DEF RelayInv, ServerTypes
<1>5. GoneAreEmpty' /\ PipesCovered'
  BY <1>1 DEF RelayInv, GoneAreEmpty, PipesCovered, epollVars, textVars
<1>6. AuthorsOwn' /\ DueToOthers'
  BY <1>1, <1>3 DEF RelayInv, AuthorsOwn, DueToOthers, tables, textVars, Slots
<1> QED
  BY <1>3, <1>4, <1>5, <1>6 DEF RelayInv

\* accept and fork: the child's segment can be another's, whose texts stay what they are.
LEMMA AcceptStep ==
  ASSUME RelayInv, NEW p \in Pids, Accept(p)
  PROVE  RelayInv'
<1> DEFINE others == {q \in Users : idx[q] = user_count}
<1>0. /\ childPc \in [Pids -> {"none", "run", "cleared", "stop", "zombie"}]
      /\ idx \in [Pids -> Slots]
  BY DEF RelayInv, RelayTypeOK, UsersOnce
<1>1. UNCHANGED <<textVars, ready, events, clientVars, serverReady, stale>>
  BY DEF Accept
<1>2. /\ childPc[p] = "none" /\ childPc' = [childPc EXCEPT ![p] = "run"]
      /\ TableFork(p)
      /\ twins' = twins \cup (IF others = {} THEN {} ELSE others \cup {p})
  BY DEF Accept
<1>3. /\ UsersOnce' /\ Users' = Users \cup {p}
      /\ idx' = [idx EXCEPT ![p] = user_count]
  BY <1>2, ForkOnce DEF RelayInv
<1>4. Users \subseteq Pids /\ p \notin Users
  BY <1>2 DEF RelayInv, UsersOnce, Users, UsersLive
<1>5. RelayTypeOK'
  <2>1. serverBatch' \in SUBSET Pids
    BY DEF Accept, RelayInv, RelayTypeOK
  <2>2. ServerTypes'
    BY <1>1, <2>1, Zenon DEF RelayInv, RelayTypeOK, ServerTypes
  <2>3. ChildTypes'
    BY <1>0, <1>1, <1>2 DEF RelayInv, RelayTypeOK, ChildTypes
  <2>4. TwinTypes'
    BY <1>2, <1>4 DEF RelayInv, RelayTypeOK, TwinTypes
  <2> QED
    BY <1>1, <2>2, <2>3, <2>4, RelayTypeParts DEF RelayInv
<1>6. UsersLive'
  BY <1>0, <1>2, <1>3 DEF RelayInv, UsersLive
<1>7. GoneAreEmpty'
  BY <1>0, <1>1, <1>2 DEF RelayInv, GoneAreEmpty, textVars
<1>8. AuthorsOwn'
  <2>1. ASSUME NEW s \in Slots, text[s] # NULL
        PROVE  text[s] \in Users' /\ idx'[text[s]] = s
    <3>1. text[s] \in Users /\ idx[text[s]] = s
      BY <2>1 DEF RelayInv, AuthorsOwn
    <3> QED
      BY <1>0, <1>3, <1>4, <3>1
  <2> QED
    BY <1>1, <2>1 DEF AuthorsOwn, textVars, Slots
<1>9. DueToOthers'
  BY <1>1, <1>3 DEF RelayInv, DueToOthers, textVars
<1>10. TwinsKnown'
  <2>1. ASSUME NEW q \in Users', NEW r \in Users', q # r, idx'[q] = idx'[r]
        PROVE  q \in twins'
    <3>1. CASE q = p
      <4>1. r \in others
        BY <1>0, <1>3, <1>4, <2>1, <3>1
      <4> QED
        BY <1>2, <3>1, <4>1
    <3>2. CASE r = p
      <4>1. q \in others
        BY <1>0, <1>3, <1>4, <2>1, <3>2
      <4> QED
        BY <1>2, <4>1
    <3>3. CASE q # p /\ r # p
      <4>1. q \in Users /\ r \in Users /\ idx[q] = idx[r]
        BY <1>0, <1>3, <1>4, <2>1, <3>3
      <4> QED
        BY <1>2, <2>1, <4>1 DEF RelayInv, TwinsKnown
    <3> QED
      BY <3>1, <3>2, <3>3
  <2> QED
    BY <2>1 DEF TwinsKnown
<1>11. PipesCovered'
  BY <1>1 DEF RelayInv, PipesCovered, textVars
<1> QED
  BY <1>3, <1>5, <1>6, <1>7, <1>8, <1>9, <1>10, <1>11 DEF RelayInv

\* waitpid: the child's pipe, its texts and what was due to it are gone with it.
LEMMA WaitStep ==
  ASSUME RelayInv, NEW p \in Pids, Wait(p)
  PROVE  RelayInv'
<1>0. /\ childPc \in [Pids -> {"none", "run", "cleared", "stop", "zombie"}]
      /\ ready \in [Pids -> SUBSET {"conn", "pipe"}]
      /\ down \in [Pids -> Seq(Slots)]
      /\ idx \in [Pids -> Slots]
      /\ text \in [Slots -> Pids \cup {NULL}]
      /\ up \in [Pids -> Nat]
  BY DEF RelayInv, RelayTypeOK, UsersOnce
<1>1. /\ childPc[p] = "zombie" /\ childPc' = [childPc EXCEPT ![p] = "none"]
      /\ TableReap(p)
      /\ text' = [s \in Slots |-> IF text[s] = p THEN NULL ELSE text[s]]
      /\ up' = [up EXCEPT ![p] = 0]
      /\ down' = [down EXCEPT ![p] = <<>>]
      /\ ready' = [ready EXCEPT ![p] = {}]
      /\ events' = events
      /\ due' = {d \in due : p # d[1] /\ p # d[2]}
      /\ twins' = twins \ {p}
  BY DEF Wait
<1>2. /\ UsersOnce' /\ Users' = Users \ {p}
      /\ idx' = [idx EXCEPT ![p] = 0]
  BY <1>1, ReapOnce DEF RelayInv
<1>3. RelayTypeOK'
  <2>1. RelayTypes'
    <3>1. up' \in [Pids -> Nat]
      <4>1. up \in [Pids -> Nat] /\ up' = [up EXCEPT ![p] = 0]
        BY DEF Wait, RelayInv, RelayTypeOK
      <4> QED
        BY <4>1
    <3>2. down' \in [Pids -> Seq(Slots)]
      <4>1. <<>> \in Seq(Slots)
        OBVIOUS
      <4> QED
        BY <1>0, <1>1, <4>1
    <3>3. text' \in [Slots -> Pids \cup {NULL}]
      BY <1>0, <1>1
    <3>4. due' \in SUBSET (Pids \X Pids)
      BY <1>1 DEF RelayInv, RelayTypeOK
    <3> QED
      BY <3>1, <3>2, <3>3, <3>4 DEF RelayTypes, Slots
  <2>2. ready' \in [Pids -> SUBSET {"conn", "pipe"}]
    BY <1>0, <1>1, EventListTypes
  <2>3. ChildTypes'
    BY <1>0, <1>1, <2>2 DEF RelayInv, RelayTypeOK, ChildTypes
  <2>4. unread' \in [Pids -> BOOLEAN] /\ fin' \in [Pids -> BOOLEAN]
    <3>1. /\ unread \in [Pids -> BOOLEAN] /\ unread' = [unread EXCEPT ![p] = FALSE]
          /\ fin \in [Pids -> BOOLEAN] /\ fin' = [fin EXCEPT ![p] = FALSE]
      BY DEF Wait, RelayInv, RelayTypeOK
    <3> QED
      BY <3>1
  <2>5. serverReady' \in SUBSET Pids /\ serverBatch' \in SUBSET Pids /\ stale' \in BOOLEAN
    BY Zenon DEF Wait, RelayInv, RelayTypeOK
  <2>6. TwinTypes'
    BY <1>1 DEF RelayInv, RelayTypeOK, TwinTypes
  <2> QED
    BY <2>1, <2>3, <2>4, <2>5, <2>6, RelayTypeParts DEF ClientTypes, ServerTypes
<1>4. UsersLive'
  BY <1>0, <1>1, <1>2 DEF RelayInv, UsersLive
<1>5. GoneAreEmpty'
  BY <1>0, <1>1 DEF RelayInv, GoneAreEmpty
<1>6. AuthorsOwn'
  <2>1. ASSUME NEW s \in Slots, text'[s] # NULL
        PROVE  text'[s] \in Users' /\ idx'[text'[s]] = s
    <3>1. text'[s] = text[s] /\ text[s] # p /\ text[s] # NULL
      BY <1>1, <2>1
    <3>2. text[s] \in Users /\ idx[text[s]] = s
      BY <3>1 DEF RelayInv, AuthorsOwn
    <3> QED
      BY <1>0, <1>2, <3>1, <3>2
  <2> QED
    BY <2>1 DEF AuthorsOwn, Slots
<1>7. DueToOthers'
  BY <1>1, <1>2 DEF RelayInv, DueToOthers
<1>8. TwinsKnown'
  BY <1>0, <1>1, <1>2 DEF RelayInv, TwinsKnown
<1>9. PipesCovered'
  <2>1. events[p] = {}
    BY <1>1 DEF RelayInv, GoneAreEmpty
  <2> QED
    BY <1>0, <1>1, <2>1 DEF RelayInv, PipesCovered
<1> QED
  BY <1>2, <1>3, <1>4, <1>5, <1>6, <1>7, <1>8, <1>9 DEF RelayInv

LEMMA RelayInvStep == RelayInv /\ [RelayNext]_relayVars => RelayInv'
<1> SUFFICES ASSUME RelayInv, [RelayNext]_relayVars PROVE RelayInv'
  OBVIOUS
<1>1. CASE ServerWait \/ \E p \in Pids : NoNumber(p)
  BY <1>1, ServerLoopStep
<1>2. ASSUME NEW p \in Pids, Accept(p) \/ Wait(p) \/ Relay(p)
      PROVE  RelayInv'
  BY <1>2, AcceptStep, WaitStep, RelayStep
<1>3. ASSUME NEW p \in Pids, Write(p) \/ Leave(p)
      PROVE  RelayInv'
  BY <1>3, ClientStep
<1>4. ASSUME NEW p \in Pids, Child(p)
      PROVE  RelayInv'
  BY <1>4, ChildLoopStep, ClearStep, ReceivedStep, DeliverStep DEF Child
<1>5. CASE UNCHANGED relayVars
  <2>1. UNCHANGED <<tables, textVars, epollVars, clientVars, serverVars>>
    BY <1>5 DEF relayVars
  <2>2. UsersOnce' /\ UsersLive' /\ TwinsKnown' /\ Users' = Users
    BY <2>1, OnceKept DEF RelayInv, epollVars
  <2>3. RelayTypeOK'
    BY <2>1, RelayTypeParts DEF RelayInv
  <2>4. GoneAreEmpty' /\ PipesCovered'
    BY <2>1 DEF RelayInv, GoneAreEmpty, PipesCovered, epollVars, textVars
  <2>5. AuthorsOwn' /\ DueToOthers'
    BY <2>1, <2>2 DEF RelayInv, AuthorsOwn, DueToOthers, tables, textVars, Slots
  <2> QED
    BY <2>2, <2>3, <2>4, <2>5 DEF RelayInv
<1> QED
  BY <1>1, <1>2, <1>3, <1>4, <1>5 DEF RelayNext, RelayServer

-------------------------------------------------------------------------------
(* Whose segments are read and written. *)

\* Where a number can be after a step.
NotTold == \A p \in Users \ twins : ~On(idx[p], down[p])

\* A number stays out of a child's pipe if the step puts none there but another child's.
LEMMA NotToldStep == RelayInv /\ NotTold /\ [RelayNext]_relayVars => NotTold'
<1> SUFFICES ASSUME RelayInv, NotTold, [RelayNext]_relayVars PROVE NotTold'
  OBVIOUS
<1>0. /\ down \in [Pids -> Seq(Slots)] /\ idx \in [Pids -> Slots] /\ up \in [Pids -> Nat]
      /\ Users \subseteq Pids
  BY DEF RelayInv, RelayTypeOK, UsersOnce, Users
<1>1. CASE UNCHANGED <<tables, down>>
  <2>1. Users' = Users
    BY <1>1 DEF tables, Users
  <2> QED
    BY <1>1, <2>1 DEF NotTold, On, tables
<1>2. ASSUME NEW p \in Pids, Deliver(p)
      PROVE  NotTold'
  <2>1. UNCHANGED tables /\ down' = [down EXCEPT ![p] = Tail(@)] /\ "pipe" \in events[p]
    BY <1>2 DEF Deliver, Handle
  <2>2. Users' = Users
    BY <2>1 DEF tables, Users
  <2>3. down[p] # <<>> /\ down[p] \in Seq(Slots)
    BY <1>0, <2>1 DEF RelayInv, PipesCovered
  <2>4. \A s : On(s, Tail(down[p])) => On(s, down[p])
    <3> DEFINE q == down[p]
    <3>1. /\ Tail(q) \in Seq(Slots) /\ Len(Tail(q)) = Len(q) - 1
          /\ \A i \in 1 .. Len(Tail(q)) : Tail(q)[i] = q[i + 1]
      BY <2>3, HeadTailProperties
    <3>2. DOMAIN Tail(q) = 1 .. Len(Tail(q)) /\ DOMAIN q = 1 .. Len(q) /\ Len(q) \in Nat
      BY <2>3, <3>1
    <3> HIDE DEF q
    <3> QED
      BY <3>1, <3>2 DEF On, q
  <2>5. \A r \in Pids : \A s : On(s, down'[r]) => On(s, down[r])
    BY <1>0, <2>1, <2>4
  <2> QED
    BY <1>0, <2>1, <2>2, <2>5 DEF NotTold, tables
<1>3. ASSUME NEW p \in Pids, Relay(p)
      PROVE  NotTold'
  <2>1. /\ UNCHANGED tables /\ up[p] > 0
        /\ down' = [r \in Pids |-> IF r \in Others(p) THEN Append(down[r], idx[p]) ELSE down[r]]
    BY <1>3 DEF Relay
  <2>2. Users' = Users
    BY <2>1 DEF tables, Users
  <2>3. p \in Users
    BY <2>1 DEF RelayInv, UsersLive, GoneAreEmpty
  <2>4. ASSUME NEW r \in Users \ twins
        PROVE  ~On(idx[r], down'[r])
    <3>1. ~On(idx[r], down[r]) /\ r \in Pids
      BY <1>0 DEF NotTold
    <3>2. CASE r \in Others(p)
      <4>1. idx[r] # idx[p]
        BY <2>3, <3>2 DEF Others, RelayInv, TwinsKnown
      <4>2. down[r] \in Seq(Slots) /\ down'[r] = Append(down[r], idx[p])
        BY <1>0, <2>1, <3>1, <3>2
      <4> QED
        BY <3>1, <4>1, <4>2 DEF On
    <3>3. CASE r \notin Others(p)
      BY <2>1, <3>1, <3>3
    <3> QED
      BY <3>2, <3>3
  <2> QED
    BY <2>1, <2>2, <2>4 DEF NotTold, tables
<1>4. ASSUME NEW p \in Pids, Accept(p)
      PROVE  NotTold'
  <2>1. down' = down /\ childPc[p] = "none" /\ TableFork(p) /\ twins \subseteq twins'
    BY <1>4 DEF Accept, textVars
  <2>2. Users' = Users \cup {p} /\ idx' = [idx EXCEPT ![p] = user_count]
    BY <2>1, ForkOnce DEF RelayInv
  <2>3. down[p] = <<>>
    BY <2>1 DEF RelayInv, GoneAreEmpty
  <2> QED
    BY <1>0, <2>1, <2>2, <2>3 DEF NotTold, On
<1>5. ASSUME NEW p \in Pids, Wait(p)
      PROVE  NotTold'
  <2>1. down' = [down EXCEPT ![p] = <<>>] /\ TableReap(p) /\ twins' = twins \ {p}
    BY <1>5 DEF Wait
  <2>2. Users' = Users \ {p} /\ idx' = [idx EXCEPT ![p] = 0]
    BY <2>1, ReapOnce DEF RelayInv
  <2> QED
    BY <1>0, <2>1, <2>2 DEF NotTold
<1>6. CASE ServerWait \/ \E p \in Pids : NoNumber(p)
  BY <1>1, <1>6 DEF ServerWait, NoNumber, textVars
<1>7. ASSUME NEW p \in Pids, Write(p) \/ Leave(p) \/ ChildWait(p) \/ Clear(p) \/ Received(p)
                             \/ Ended(p) \/ Exit(p)
      PROVE  NotTold'
  BY <1>1, <1>7 DEF Write, Leave, ChildWait, Clear, Received, Ended, Exit, textVars
<1>8. CASE UNCHANGED relayVars
  BY <1>1, <1>8 DEF relayVars, textVars
<1> QED
  BY <1>2, <1>3, <1>4, <1>5, <1>6, <1>7, <1>8 DEF RelayNext, RelayServer, Child

\* A child whose segment was never another's is not told of its own text, and nobody else
\* writes to its segment (src/IPC/SHM/serv.c:115-145, with the number of the segment handed on at 327-344).
THEOREM SegmentsAreOwnCorrect == RelaySpec => []SegmentsAreOwn
<1>1. RelayInit => NotTold
  <2> SUFFICES ASSUME RelayInit PROVE Users = {}
    BY DEF NotTold
  <2> QED
    BY DEF RelayInit, TablesInit, Users
<1>2. RelayInv /\ NotTold => SegmentsAreOwn
  <2> SUFFICES ASSUME RelayInv, NotTold, NEW p \in Users \ twins
               PROVE  text[idx[p]] \in {p, NULL}
    BY DEF SegmentsAreOwn, NotTold
  <2>1. idx[p] \in Slots
    BY DEF RelayInv, UsersOnce, Users
  <2> QED
    BY <2>1 DEF RelayInv, AuthorsOwn, TwinsKnown
<1> QED
  BY <1>1, <1>2, RelayInvInit, RelayInvStep, NotToldStep, PTL DEF RelaySpec

-------------------------------------------------------------------------------
(* What has to be sent. *)

Announced(r, a) == text[idx[a]] = a => up[a] > 0 \/ On(idx[a], down[r])
DueAreAnnounced == \A d \in due : Alive(d[1]) => Announced(d[1], d[2])

\* A step keeps what is due announced if it takes back neither the texts of the clients that
\* are there, nor the numbers that tell of them, and ends no child.
LEMMA AnnouncedKept ==
  ASSUME RelayInv, DueAreAnnounced, due' \subseteq due,
         \A d \in due' : /\ Alive(d[1])' => Alive(d[1])
                         /\ idx'[d[2]] = idx[d[2]]
                         /\ text'[idx[d[2]]] = d[2] => text[idx[d[2]]] = d[2]
                         /\ up[d[2]] > 0 => up'[d[2]] > 0 \/ On(idx[d[2]], down'[d[1]])
                         /\ down'[d[1]] = down[d[1]]
  PROVE  DueAreAnnounced'
<1> SUFFICES ASSUME NEW d \in due', Alive(d[1])', text'[idx'[d[2]]] = d[2]
             PROVE  up'[d[2]] > 0 \/ On(idx'[d[2]], down'[d[1]])
  BY DEF DueAreAnnounced, Announced, On
<1>1. Alive(d[1]) /\ text[idx[d[2]]] = d[2] /\ d \in due /\ idx'[d[2]] = idx[d[2]]
  OBVIOUS
<1>2. up[d[2]] > 0 \/ On(idx[d[2]], down[d[1]])
  BY <1>1 DEF DueAreAnnounced, Announced
<1> QED
  BY <1>1, <1>2

\* The number of a segment is sent when the segment is, unless it holds another's text by then.
LEMMA AnnouncedStep == RelayInv /\ DueAreAnnounced /\ [RelayNext]_relayVars => DueAreAnnounced'
<1> SUFFICES ASSUME RelayInv, DueAreAnnounced, [RelayNext]_relayVars PROVE DueAreAnnounced'
  OBVIOUS
<1>0. /\ down \in [Pids -> Seq(Slots)] /\ idx \in [Pids -> Slots] /\ up \in [Pids -> Nat]
      /\ text \in [Slots -> Pids \cup {NULL}]
      /\ childPc \in [Pids -> {"none", "run", "cleared", "stop", "zombie"}]
      /\ Users \subseteq Pids
      /\ \A d \in due : d[1] \in Users /\ d[2] \in Users /\ d[1] # d[2] /\ idx[d[2]] \in Slots
  <2>1. Users \subseteq Pids /\ idx \in [Pids -> Slots]
    BY DEF RelayInv, UsersOnce, Users
  <2>2. \A d \in due : d[1] \in Users /\ d[2] \in Users /\ d[1] # d[2]
    BY DEF RelayInv, DueToOthers
  <2> QED
    BY <2>1, <2>2 DEF RelayInv, RelayTypeOK
<1>1. CASE /\ UNCHANGED <<tables, textVars>>
           /\ \A p \in Pids : Alive(p)' => Alive(p)
  BY <1>0, <1>1, AnnouncedKept DEF tables, textVars
<1>2. ASSUME NEW p \in Pids, Clear(p)
      PROVE  DueAreAnnounced'
  <2>1. /\ UNCHANGED <<tables, up, down, due>>
        /\ text' = [text EXCEPT ![idx[p]] = NULL]
        /\ childPc' = [childPc EXCEPT ![p] = "cleared"] /\ childPc[p] = "run"
    BY <1>2 DEF Clear
  <2>2. \A d \in due : text'[idx[d[2]]] = d[2] => text[idx[d[2]]] = d[2]
    BY <1>0, <2>1, NULLAssumption
  <2>3. \A r \in Pids : Alive(r)' => Alive(r)
    BY <1>0, <2>1 DEF Alive
  <2> QED
    BY <1>0, <2>1, <2>2, <2>3, AnnouncedKept DEF tables
<1>3. ASSUME NEW p \in Pids, Received(p)
      PROVE  DueAreAnnounced'
  <2>1. /\ UNCHANGED <<tables, down>>
        /\ text' = [text EXCEPT ![idx[p]] = p]
        /\ due' = due \cup ((Users \ {p}) \X {p})
        /\ up' = [up EXCEPT ![p] = @ + 1]
        /\ childPc' = [childPc EXCEPT ![p] = "run"] /\ childPc[p] = "cleared"
    BY <1>3 DEF Received
  <2>2. \A r \in Pids : Alive(r)' => Alive(r)
    BY <1>0, <2>1 DEF Alive
  <2>3. ASSUME NEW d \in due', Alive(d[1])', text'[idx[d[2]]] = d[2]
        PROVE  up'[d[2]] > 0 \/ On(idx[d[2]], down[d[1]])
    <3>1. CASE d[2] = p
      BY <1>0, <2>1, <3>1
    <3>2. CASE d[2] # p
      <4>1. d \in due
        BY <2>1, <2>3, <3>2
      <4>2. Alive(d[1]) /\ text[idx[d[2]]] = d[2] /\ up'[d[2]] = up[d[2]]
        BY <1>0, <2>1, <2>2, <2>3, <3>2, <4>1
      <4> QED
        BY <4>1, <4>2 DEF DueAreAnnounced, Announced
    <3> QED
      BY <3>1, <3>2
  <2>4. idx' = idx /\ down' = down
    BY <2>1 DEF tables
  <2> QED
    BY <2>3, <2>4 DEF DueAreAnnounced, Announced, On
<1>4. ASSUME NEW p \in Pids, Deliver(p)
      PROVE  DueAreAnnounced'
  <2>1. /\ UNCHANGED <<tables, text, up, childPc>> /\ "pipe" \in events[p]
        /\ down' = [down EXCEPT ![p] = Tail(@)]
        /\ due' = due \ {<<p, text[Head(down[p])]>>}
    BY <1>4 DEF Deliver, Handle
  <2>2. down[p] # <<>> /\ down[p] \in Seq(Slots)
    BY <1>0, <2>1 DEF RelayInv, PipesCovered
  <2>3. \A s : On(s, down[p]) => s = Head(down[p]) \/ On(s, Tail(down[p]))
    <3> DEFINE q == down[p]
    <3>1. /\ Tail(q) \in Seq(Slots) /\ Len(Tail(q)) = Len(q) - 1 /\ Head(q) = q[1]
          /\ \A i \in 1 .. Len(Tail(q)) : Tail(q)[i] = q[i + 1]
      BY <2>2, HeadTailProperties
    <3>2. DOMAIN Tail(q) = 1 .. Len(Tail(q)) /\ DOMAIN q = 1 .. Len(q) /\ Len(q) \in Nat
      BY <2>2, <3>1
    <3> HIDE DEF q
    <3>3. \A i \in 1 .. Len(q) : i = 1 \/ (i - 1 \in 1 .. Len(Tail(q)) /\ Tail(q)[i - 1] = q[i])
      BY <3>1, <3>2
    <3> QED
      BY <3>1, <3>2, <3>3 DEF On, q
  <2>4. ASSUME NEW d \in due', Alive(d[1])', text'[idx'[d[2]]] = d[2]
        PROVE  up'[d[2]] > 0 \/ On(idx'[d[2]], down'[d[1]])
    <3>1. /\ Alive(d[1]) /\ text[idx[d[2]]] = d[2] /\ d \in due
          /\ idx' = idx /\ up' = up
      BY <2>1, <2>4 DEF Alive, tables
    <3>2. up[d[2]] > 0 \/ On(idx[d[2]], down[d[1]])
      BY <3>1 DEF DueAreAnnounced, Announced
    <3>3. CASE d[1] = p
      <4>1. d = <<d[1], d[2]>>
        BY <3>1 DEF RelayInv, RelayTypeOK
      <4>2. idx[d[2]] # Head(down[p])
        BY <2>1, <2>4, <3>1, <3>3, <4>1
      <4> QED
        BY <1>0, <2>1, <2>3, <3>1, <3>2, <3>3, <4>2
    <3>4. CASE d[1] # p
      BY <1>0, <2>1, <3>1, <3>2, <3>4
    <3> QED
      BY <3>3, <3>4
  <2> QED
    BY <2>4 DEF DueAreAnnounced, Announced, On
<1>5. ASSUME NEW p \in Pids, Relay(p)
      PROVE  DueAreAnnounced'
  <2>1. /\ UNCHANGED <<tables, text, due, childPc>> /\ up' = [up EXCEPT ![p] = @ - 1]
        /\ down' = [r \in Pids |-> IF r \in Others(p) THEN Append(down[r], idx[p]) ELSE down[r]]
    BY <1>5 DEF Relay
  <2>2. ASSUME NEW d \in due', Alive(d[1])', text'[idx'[d[2]]] = d[2]
        PROVE  up'[d[2]] > 0 \/ On(idx'[d[2]], down'[d[1]])
    <3>1. /\ Alive(d[1]) /\ text[idx[d[2]]] = d[2] /\ d \in due /\ idx' = idx
      BY <2>1, <2>2 DEF Alive, tables
    <3>2. up[d[2]] > 0 \/ On(idx[d[2]], down[d[1]])
      BY <3>1 DEF DueAreAnnounced, Announced
    <3>3. \A s, q, x : q \in Seq(Slots) =>
            (On(s, Append(q, x)) <=> On(s, q) \/ s = x)
      <4> SUFFICES ASSUME NEW s, NEW q \in Seq(Slots), NEW x
                   PROVE  On(s, Append(q, x)) <=> On(s, q) \/ s = x
        OBVIOUS
      <4>1. /\ DOMAIN Append(q, x) = 1 .. Len(q) + 1 /\ DOMAIN q = 1 .. Len(q) /\ Len(q) \in Nat
            /\ \A i \in 1 .. Len(q) : Append(q, x)[i] = q[i]
            /\ Append(q, x)[Len(q) + 1] = x
        OBVIOUS
      <4>2. \A i \in 1 .. Len(q) + 1 : i = Len(q) + 1 \/ i \in 1 .. Len(q)
        BY <4>1
      <4>3. Len(q) + 1 \in 1 .. Len(q) + 1 /\ 1 .. Len(q) \subseteq 1 .. Len(q) + 1
        BY <4>1
      <4> QED
        BY <4>1, <4>2, <4>3 DEF On
    <3>4. d[1] \in Pids /\ d[2] \in Pids /\ d[1] \in Users /\ d[1] # d[2] /\ down[d[1]] \in Seq(Slots)
      BY <1>0, <3>1
    <3>5. CASE d[2] = p
      <4>1. d[1] \in Others(p)
        BY <3>1, <3>4, <3>5 DEF Others
      <4>2. down'[d[1]] = Append(down[d[1]], idx[p])
        BY <2>1, <3>4, <4>1
      <4> QED
        BY <3>1, <3>3, <3>4, <3>5, <4>2
    <3>6. CASE d[2] # p
      <4>1. up'[d[2]] = up[d[2]]
        BY <1>0, <2>1, <3>4, <3>6
      <4>2. On(idx[d[2]], down[d[1]]) => On(idx[d[2]], down'[d[1]])
        BY <2>1, <3>3, <3>4
      <4> QED
        BY <3>1, <3>2, <4>1, <4>2
    <3> QED
      BY <3>5, <3>6
  <2> QED
    BY <2>2 DEF DueAreAnnounced, Announced, On
<1>6. ASSUME NEW p \in Pids, Accept(p)
      PROVE  DueAreAnnounced'
  <2>1. /\ UNCHANGED textVars /\ childPc[p] = "none" /\ TableFork(p)
        /\ childPc' = [childPc EXCEPT ![p] = "run"]
    BY <1>6 DEF Accept
  <2>2. idx' = [idx EXCEPT ![p] = user_count]
    BY <2>1, ForkOnce DEF RelayInv
  <2>3. p \notin Users
    BY <2>1 DEF RelayInv, UsersLive
  <2>4. \A d \in due : d[1] # p /\ d[2] # p /\ d[1] \in Pids /\ d[2] \in Pids
    BY <1>0, <2>3
  <2>5. \A d \in due : /\ idx'[d[2]] = idx[d[2]]
                       /\ Alive(d[1])' => Alive(d[1])
    BY <1>0, <2>1, <2>2, <2>4 DEF Alive
  <2> QED
    BY <2>1, <2>5, AnnouncedKept DEF textVars
<1>7. ASSUME NEW p \in Pids, Wait(p)
      PROVE  DueAreAnnounced'
  <2>1. /\ TableReap(p) /\ childPc' = [childPc EXCEPT ![p] = "none"]
        /\ text' = [s \in Slots |-> IF text[s] = p THEN NULL ELSE text[s]]
        /\ up' = [up EXCEPT ![p] = 0] /\ down' = [down EXCEPT ![p] = <<>>]
        /\ due' = {d \in due : p # d[1] /\ p # d[2]}
    BY <1>7 DEF Wait
  <2>2. idx' = [idx EXCEPT ![p] = 0]
    BY <2>1, ReapOnce DEF RelayInv
  <2>3. \A d \in due' : d \in due /\ d[1] # p /\ d[2] # p /\ d[1] \in Pids /\ d[2] \in Pids
    BY <1>0, <2>1
  <2>4. \A d \in due' : /\ idx'[d[2]] = idx[d[2]] /\ up'[d[2]] = up[d[2]]
                        /\ down'[d[1]] = down[d[1]]
                        /\ Alive(d[1])' => Alive(d[1])
    BY <1>0, <2>1, <2>2, <2>3 DEF Alive
  <2>5. \A d \in due' : text'[idx[d[2]]] = d[2] => text[idx[d[2]]] = d[2]
    BY <1>0, <2>1, <2>3, NULLAssumption
  <2> QED
    BY <2>3, <2>4, <2>5, AnnouncedKept
<1>8. CASE ServerWait \/ \E p \in Pids : NoNumber(p)
  BY <1>1, <1>8 DEF ServerWait, NoNumber, epollVars, Alive
<1>9. ASSUME NEW p \in Pids, Write(p) \/ Leave(p) \/ ChildWait(p) \/ Ended(p) \/ Exit(p)
      PROVE  DueAreAnnounced'
  <2>1. \A r \in Pids : Alive(r)' => Alive(r)
    BY <1>0, <1>9 DEF Write, Leave, ChildWait, Ended, Exit, Alive
  <2> QED
    BY <1>1, <1>9, <2>1 DEF Write, Leave, ChildWait, Ended, Exit
<1>10. CASE UNCHANGED relayVars
  BY <1>1, <1>10 DEF relayVars, epollVars, Alive
<1> QED
  BY <1>2, <1>3, <1>4, <1>5, <1>6, <1>7, <1>8, <1>9, <1>10 DEF RelayNext, RelayServer, Child

\* Every other client that has not got a client's latest text yet will hear of it for as
\* long as the segment holds it (src/IPC/SHM/serv.c:128-131, 327-344 and 132-145).
THEOREM AnnouncedWhileStoredCorrect == RelaySpec => []AnnouncedWhileStored
<1>1. RelayInit => DueAreAnnounced
  BY DEF RelayInit, DueAreAnnounced
<1>2. RelayInv /\ DueAreAnnounced => AnnouncedWhileStored
  BY DEF RelayInv, DueAreAnnounced, Announced, AnnouncedWhileStored
<1> QED
  BY <1>1, <1>2, RelayInvInit, RelayInvStep, AnnouncedStep, PTL DEF RelaySpec

-------------------------------------------------------------------------------
(* How many numbers are read. *)

\* The intersection with a singleton counts one or none.
LEMMA PipeIn ==
  ASSUME NEW S
  PROVE  Cardinality({"pipe"} \cap S) = IF "pipe" \in S THEN 1 ELSE 0
<1>1. CASE "pipe" \in S
  <2>1. {"pipe"} \cap S = {"pipe"}
    BY <1>1
  <2> QED
    BY <1>1, <2>1, FS_Singleton
<1>2. CASE "pipe" \notin S
  <2>1. {"pipe"} \cap S = {}
    BY <1>2
  <2> QED
    BY <1>2, <2>1, FS_EmptySet
<1> QED
  BY <1>1, <1>2

\* The events of a child's pipe, before and after a step.
LEMMA DownEdgesCount ==
  ASSUME NEW p
  PROVE  /\ DownEdges(p) =
              (IF "pipe" \in ready[p] THEN 1 ELSE 0) + (IF "pipe" \in events[p] THEN 1 ELSE 0)
         /\ DownEdges(p)' =
              (IF "pipe" \in ready'[p] THEN 1 ELSE 0) + (IF "pipe" \in events'[p] THEN 1 ELSE 0)
  BY PipeIn DEF DownEdges

\* What a step does to the pipe of a child.
PipeKept(p) ==
  /\ down'[p] = down[p]
  /\ "pipe" \in ready'[p] <=> "pipe" \in ready[p]
  /\ "pipe" \in events'[p] <=> "pipe" \in events[p]

\* A step puts a number into a pipe, takes one, closes the pipe, has its event handed out
\* by epoll_wait, which finds a number, or leaves it alone.
LEMMA PipeStep ==
  ASSUME RelayInv, [RelayNext]_relayVars, NEW p \in Pids
  PROVE  \/ /\ Len(down'[p]) = Len(down[p]) + 1
            /\ "pipe" \in ready'[p] /\ ("pipe" \in events'[p] <=> "pipe" \in events[p])
         \/ /\ "pipe" \in events[p] /\ "pipe" \notin events'[p]
            /\ Len(down[p]) > 0 /\ Len(down'[p]) = Len(down[p]) - 1
            /\ "pipe" \in ready'[p] <=> "pipe" \in ready[p]
         \/ Len(down'[p]) = 0 /\ "pipe" \notin ready'[p] \cup events'[p]
         \/ /\ down'[p] = down[p] /\ "pipe" \notin events[p] /\ "pipe" \notin ready'[p]
            /\ "pipe" \in events'[p] <=> "pipe" \in ready[p]
         \/ PipeKept(p)
<1>0. /\ down \in [Pids -> Seq(Slots)]
      /\ ready \in [Pids -> SUBSET {"conn", "pipe"}]
      /\ events \in [Pids -> SUBSET {"conn", "pipe"}]
  BY DEF RelayInv, RelayTypeOK
<1>1. ASSUME NEW q \in Pids, Relay(q)
      PROVE  \/ /\ Len(down'[p]) = Len(down[p]) + 1
                /\ "pipe" \in ready'[p] /\ ("pipe" \in events'[p] <=> "pipe" \in events[p])
             \/ PipeKept(p)
  <2>1. /\ down' = [r \in Pids |-> IF r \in Others(q) THEN Append(down[r], idx[q]) ELSE down[r]]
        /\ ready' = [r \in Pids |-> IF r \in Others(q) THEN ready[r] \cup {"pipe"} ELSE ready[r]]
        /\ events' = events
    BY <1>1 DEF Relay
  <2>2. Len(Append(down[p], idx[q])) = Len(down[p]) + 1
    BY <1>0
  <2> QED
    BY <2>1, <2>2 DEF PipeKept
<1>2. ASSUME NEW q \in Pids, Deliver(q)
      PROVE  \/ /\ "pipe" \in events[p] /\ "pipe" \notin events'[p]
                /\ Len(down[p]) > 0 /\ Len(down'[p]) = Len(down[p]) - 1
                /\ "pipe" \in ready'[p] <=> "pipe" \in ready[p]
             \/ PipeKept(p)
  <2>1. /\ "pipe" \in events[q] /\ events' = [events EXCEPT ![q] = @ \ {"pipe"}]
        /\ down' = [down EXCEPT ![q] = Tail(@)]
    BY <1>2 DEF Deliver, Handle
  <2>2. ready' = ready \/ ready' = [ready EXCEPT ![q] = @ \cup {"conn"}]
    BY <1>2 DEF Deliver, SendTo, Edge
  <2>3. "pipe" \in ready'[p] <=> "pipe" \in ready[p]
    BY <1>0, <2>2
  <2>4. CASE q = p
    <3>1. Len(down[p]) >= 1 /\ down[p] \in Seq(Slots) /\ down[p] # <<>>
      BY <1>0, <2>1, <2>4 DEF RelayInv, PipesCovered
    <3>2. Len(Tail(down[p])) = Len(down[p]) - 1
      BY <3>1, HeadTailProperties
    <3>3. "pipe" \in events[p] /\ "pipe" \notin events'[p]
      BY <1>0, <2>1, <2>4
    <3>4. down'[p] = Tail(down[p])
      BY <1>0, <2>1, <2>4
    <3>5. Len(down[p]) > 0 /\ Len(down'[p]) = Len(down[p]) - 1
      BY <3>1, <3>2, <3>4
    <3> QED
      BY <2>3, <3>3, <3>5
  <2>5. CASE q # p
    BY <1>0, <2>1, <2>3, <2>5 DEF PipeKept
  <2> QED
    BY <2>4, <2>5
<1>3. ASSUME NEW q \in Pids, Wait(q)
      PROVE  \/ Len(down'[p]) = 0 /\ "pipe" \notin ready'[p] \cup events'[p]
             \/ PipeKept(p)
  <2>1. /\ down' = [down EXCEPT ![q] = <<>>] /\ ready' = [ready EXCEPT ![q] = {}]
        /\ events' = events /\ childPc[q] = "zombie"
    BY <1>3 DEF Wait
  <2>2. events[q] = {}
    BY <2>1 DEF RelayInv, GoneAreEmpty
  <2> QED
    BY <1>0, <2>1, <2>2 DEF PipeKept
<1>4. ASSUME NEW q \in Pids, ChildWait(q)
      PROVE  \/ /\ down'[p] = down[p] /\ "pipe" \notin events[p] /\ "pipe" \notin ready'[p]
                /\ "pipe" \in events'[p] <=> "pipe" \in ready[p]
             \/ PipeKept(p)
  <2>1. /\ ready' = [ready EXCEPT ![q] = {}] /\ down' = down /\ events[q] = {}
        /\ events' = [events EXCEPT ![q] = {what \in ready[q] :
                       IF what = "conn" THEN unread[q] \/ fin[q] ELSE down[q] # <<>>}]
    BY <1>4 DEF ChildWait, textVars
  <2>2. "pipe" \in ready[q] => down[q] # <<>>
    BY <1>0 DEF RelayInv, PipesCovered
  <2> QED
    BY <1>0, <2>1, <2>2 DEF PipeKept
<1>5. ASSUME NEW q \in Pids, Write(q) \/ Leave(q) \/ Clear(q)
      PROVE  PipeKept(p)
  <2>1. /\ down' = down
        /\ ready' = ready \/ ready' = [ready EXCEPT ![q] = @ \cup {"conn"}]
        /\ events' = events \/ events' = [events EXCEPT ![q] = @ \ {"conn"}]
    BY <1>5 DEF Write, Leave, Clear, Edge, Handle, textVars
  <2>2. "pipe" \in ready'[p] <=> "pipe" \in ready[p]
    BY <1>0, <2>1
  <2>3. "pipe" \in events'[p] <=> "pipe" \in events[p]
    BY <1>0, <2>1
  <2> QED
    BY <2>1, <2>2, <2>3 DEF PipeKept
<1>6. ASSUME NEW q \in Pids, Received(q) \/ Ended(q) \/ Exit(q) \/ Accept(q) \/ NoNumber(q)
      PROVE  PipeKept(p)
  BY <1>6 DEF Received, Ended, Exit, Accept, NoNumber, PipeKept, textVars, epollVars
<1>7. CASE ServerWait \/ UNCHANGED relayVars
  BY <1>7 DEF ServerWait, relayVars, PipeKept, textVars, epollVars
<1> QED
  BY <1>1, <1>2, <1>3, <1>4, <1>5, <1>6, <1>7 DEF RelayNext, RelayServer, Child

\* Every event of a child's pipe finds a number and is answered with one segment; numbers
\* that came while it was pending stay behind (src/IPC/SHM/serv.c:132-145).
THEOREM OneNumberPerEventCorrect == RelaySpec => OneNumberPerEvent
<1>1. RelayInv /\ [RelayNext]_relayVars => \A p \in Pids : [Down(p)!Next]_<<Len(down[p]), DownEdges(p)>>
  <2> SUFFICES ASSUME RelayInv, [RelayNext]_relayVars, NEW p \in Pids
               PROVE  Down(p)!Next \/ UNCHANGED <<Len(down[p]), DownEdges(p)>>
    OBVIOUS
  <2> USE DEF Down!Next, Down!Arrive, Down!Take, Down!Reset
  <2>1. CASE /\ Len(down'[p]) = Len(down[p]) + 1
             /\ "pipe" \in ready'[p] /\ ("pipe" \in events'[p] <=> "pipe" \in events[p])
    <3>1. DownEdges(p)' = DownEdges(p) + 1 \/ (DownEdges(p) > 0 /\ DownEdges(p)' = DownEdges(p))
      <4>1. CASE "pipe" \in ready[p] /\ "pipe" \in events[p]
        BY <2>1, <4>1, DownEdgesCount
      <4>2. CASE "pipe" \in ready[p] /\ "pipe" \notin events[p]
        BY <2>1, <4>2, DownEdgesCount
      <4>3. CASE "pipe" \notin ready[p] /\ "pipe" \in events[p]
        BY <2>1, <4>3, DownEdgesCount
      <4>4. CASE "pipe" \notin ready[p] /\ "pipe" \notin events[p]
        BY <2>1, <4>4, DownEdgesCount
      <4> QED
        BY <4>1, <4>2, <4>3, <4>4
    <3> QED
      BY <2>1, <3>1
  <2>2. CASE /\ "pipe" \in events[p] /\ "pipe" \notin events'[p]
             /\ Len(down[p]) > 0 /\ Len(down'[p]) = Len(down[p]) - 1
             /\ "pipe" \in ready'[p] <=> "pipe" \in ready[p]
    BY <2>2, DownEdgesCount
  <2>3. CASE Len(down'[p]) = 0 /\ "pipe" \notin ready'[p] \cup events'[p]
    BY <2>3, DownEdgesCount
  <2>4. CASE /\ down'[p] = down[p] /\ "pipe" \notin events[p] /\ "pipe" \notin ready'[p]
             /\ "pipe" \in events'[p] <=> "pipe" \in ready[p]
    BY <2>4, DownEdgesCount
  <2>5. CASE PipeKept(p)
    BY <2>5, DownEdgesCount DEF PipeKept
  <2> QED
    BY <2>1, <2>2, <2>3, <2>4, <2>5, PipeStep
<1> QED
  BY <1>1, RelayInvInit, RelayInvStep, PTL DEF RelaySpec, OneNumberPerEvent
===============================================================================
