CONSTANTS
  p1 = p1
  p2 = p2
  NULL = NULL
  Pids <- MCPids
  USER_LIMIT = 2
  MaxNumbers = 2
SPECIFICATION RelaySpec
SYMMETRY Symmetry
INVARIANTS AnnouncedWhileStored SegmentsAreOwn
CHECK_DEADLOCK FALSE
