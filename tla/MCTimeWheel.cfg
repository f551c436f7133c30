CONSTANTS
  t1 = t1
  t2 = t2
  t3 = t3
  t4 = t4
  NULL = NULL
  Timers <- MCTimers
  Timeouts <- MCTimeouts
  N = 3
  SI = 1
SPECIFICATION FairSpec
INVARIANT WellLinked
PROPERTIES SlotsSpec CountdownSpec TickReturns
