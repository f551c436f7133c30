CONSTANTS
  t1 = t1
  t2 = t2
  t3 = t3
  t4 = t4
  NULL = NULL
  Timers <- MCTimers
  Times <- MCTimes
  InitCap = 1
SPECIFICATION FairSpec
INVARIANTS HoldsExactlyLive TopIsEarliest
PROPERTIES QueueSpec CallsReturn
