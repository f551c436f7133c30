CONSTANTS
  USER_LIMIT = 2
  NULL = NULL
SPECIFICATION FairSpec
INVARIANTS EntriesMatch ReportsAreHandled TextsAreOthers
PROPERTIES PendingIsSent
