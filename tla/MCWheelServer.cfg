CONSTANTS
  f1 = f1
  f2 = f2
  a1 = a1
  a2 = a2
  NULL = NULL
  Fds <- MCFds
  Addrs <- MCAddrs
  TIMESLOT = 1
  COUNT = 1
  Limit = 1
  CacheMax = 0
  PeersGoOn = FALSE
  Backlog = 1
  MaxUnread = 1
SPECIFICATION FairSpec
INVARIANT OneWheelTimerEach
PROPERTIES WheelReaperSpec SilentIsClosed TermStops
