-------------------------------- MODULE ShmTables --------------------------------
(***************************************************************************)
(* What the chat server of src/IPC/SHM/serv.c keeps of its children, seen  *)
(* from outside its loop: users[] with its live part dense, and the        *)
(* segment each child was born with.  The last user is moved to the slot   *)
(* of one that is gone, and keeps its segment, so that a child born later  *)
(* can get the same one.                                                   *)
(***************************************************************************)
EXTENDS Integers

CONSTANTS Pids,        \* bound: pids a child can have (below PROCESS_LIMIT)
          USER_LIMIT,
          NULL

ASSUME NULLAssumption == NULL \notin Pids
ASSUME LimitAssumption == USER_LIMIT \in Nat \ {0}

VARIABLES users,        \* users[i].pid; NULL from user_count on (there the code keeps old
                        \* data, and looks at none of it)
          user_count,
          idx           \* of each child: its segment

Slots == 0 .. USER_LIMIT - 1
Users == {users[i] : i \in 0 .. user_count - 1}

TablesInit ==
  /\ users = [i \in Slots |-> NULL]
  /\ user_count = 0
  /\ idx = [p \in Pids |-> 0]

TableFork(p) ==
  /\ user_count < USER_LIMIT
  /\ p \notin Users
  /\ users' = [users EXCEPT ![user_count] = p]
  /\ user_count' = user_count + 1
  /\ idx' = [idx EXCEPT ![p] = user_count]

TableReap(p) ==
  /\ p \in Users
  /\ \E slot \in 0 .. user_count - 1 :
       /\ users[slot] = p
       /\ users' = [users EXCEPT ![slot] = users[user_count - 1], ![user_count - 1] = NULL]
  /\ user_count' = user_count - 1
  /\ idx' = [idx EXCEPT ![p] = 0]

TablesNext == \E p \in Pids : TableFork(p) \/ TableReap(p)

\* Whatever ends in whichever order, a slot is emptied only for a child that was in it, and
\* the only user that changes its slot is the last, with its segment unchanged.
TablesSpec == TablesInit /\ [][TablesNext]_<<users, user_count, idx>>
===============================================================================
