CONSTANTS
  t1 = t1
  t2 = t2
  t3 = t3
  NULL = NULL
  Timers <- MCTimers
  MaxTime = 2
  Delays <- ServerDelays
SPECIFICATION ListSpec
INVARIANT EveryTimerInList
SYMMETRY Symmetry
CHECK_DEADLOCK FALSE
