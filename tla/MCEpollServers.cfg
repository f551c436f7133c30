CONSTANTS
  f1 = f1
  f2 = f2
  NULL = NULL
  Fds <- MCFds
  Backlog = 2
  MaxUnread = 2
  Datagrams = 2
SPECIFICATION FairSpec
INVARIANT NothingForgotten
PROPERTIES OnlyLeaversClosed LeaversAreClosed StopsOnTerm
CHECK_DEADLOCK FALSE
