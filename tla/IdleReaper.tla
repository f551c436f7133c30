------------------------------ MODULE IdleReaper ------------------------------
(***************************************************************************)
(* What the servers of src/TIMER that close inactive connections promise:  *)
(* a connection is closed because its peer left, or because nothing was    *)
(* heard from it for Limit seconds.  (How soon after that depends on the   *)
(* timer structure.)                                                       *)
(***************************************************************************)
EXTENDS Integers

CONSTANTS Fds,     \* descriptors a connection can have
          Limit    \* seconds of silence after which a connection is closed

VARIABLES open,    \* the connections
          quiet,   \* seconds since a connection was last heard, up to Limit
          left     \* connections whose peer has closed or reset them

vars == <<open, quiet, left>>

Init ==
  /\ open = {}
  /\ quiet = [fd \in Fds |-> 0]
  /\ left = {}

Accept(fd) ==
  /\ fd \notin open
  /\ open' = open \cup {fd}
  /\ quiet' = [quiet EXCEPT ![fd] = 0]
  /\ UNCHANGED left

Hear(fd) ==
  /\ fd \in open
  /\ quiet' = [quiet EXCEPT ![fd] = 0]
  /\ UNCHANGED <<open, left>>

PeerLeaves(fd) ==
  /\ fd \in open
  /\ left' = left \cup {fd}
  /\ UNCHANGED <<open, quiet>>

Hangup(fd) ==
  /\ fd \in open \cap left
  /\ open' = open \ {fd}
  /\ left' = left \ {fd}
  /\ quiet' = [quiet EXCEPT ![fd] = 0]

Idle == {fd \in open : quiet[fd] = Limit}

Sweep(S) ==
  /\ S \subseteq Idle
  /\ open' = open \ S
  /\ left' = left \ S
  /\ quiet' = [fd \in Fds |-> IF fd \in S THEN 0 ELSE quiet[fd]]

Elapse ==
  /\ quiet' = [fd \in Fds |-> IF fd \in open /\ quiet[fd] < Limit
                              THEN quiet[fd] + 1 ELSE quiet[fd]]
  /\ UNCHANGED <<open, left>>

Next ==
  \/ \E fd \in Fds : Accept(fd) \/ Hear(fd) \/ PeerLeaves(fd) \/ Hangup(fd)
  \/ \E S \in SUBSET Idle : Sweep(S)
  \/ Elapse

Spec == Init /\ [][Next]_vars
===============================================================================
