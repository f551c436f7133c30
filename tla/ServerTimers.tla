----------------------------- MODULE ServerTimers -----------------------------
(***************************************************************************)
(* What the servers of src/TIMER that close inactive connections keep of   *)
(* their timers, whatever structure the timers are in: client_data has a   *)
(* pointer to the timer of the connection, and the timer one back.         *)
(***************************************************************************)
EXTENDS EventLoop

CONSTANTS Addrs,    \* bound: addresses a timer can have
          NULL

ASSUME NULLAssumption == NULL \notin Addrs \cup Fds

VARIABLES user,     \* timer->user_data, as the connection it is for
          timerOf   \* users[fd].timer

NoTimers ==
  /\ user = [t \in Addrs |-> NULL]
  /\ timerOf = [fd \in Fds |-> NULL]
===============================================================================
