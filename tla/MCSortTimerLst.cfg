CONSTANTS
  t1 = t1
  t2 = t2
  t3 = t3
  NULL = NULL
  Timers <- MCTimers
  MaxTime = 2
  Delays <- MCDelays
SPECIFICATION FairListSpec
INVARIANT SortedList
PROPERTIES TickRunsTheDue WalksEnd
CHECK_DEADLOCK FALSE
