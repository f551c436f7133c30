CONSTANTS
  f1 = f1
  f2 = f2
  a1 = a1
  a2 = a2
  a3 = a3
  a4 = a4
  NULL = NULL
  Fds <- MCFds
  Addrs <- MCAddrs
  TIMESLOT = 1
  Limit = 3
  Backlog = 1
  MaxUnread = 2
SPECIFICATION Spec
INVARIANTS OneTimerEach EventsAreGood AlarmChain SignalsAreSeen
PROPERTIES ReaperSpec TickLeavesNone
SYMMETRY Symmetry
