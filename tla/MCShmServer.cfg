CONSTANTS
  p1 = p1
  p2 = p2
  NULL = NULL
  Pids <- MCPids
  USER_LIMIT = 2
  PipeSize = 2
  MaxTerms = 1
  History = TRUE
SPECIFICATION FairSpec
INVARIANT SlotsMatch
PROPERTIES TablesSpec ZombiesAreReaped TermStops
CHECK_DEADLOCK FALSE
