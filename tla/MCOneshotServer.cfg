CONSTANTS
  f1 = f1
  f2 = f2
  w1 = w1
  w2 = w2
  w3 = w3
  NULL = NULL
  Fds <- MCFds
  Workers <- MCWorkers
  Backlog = 2
  MaxUnread = 2
SPECIFICATION FairOneshotSpec
INVARIANTS OneWorkerEach NobodyForgotten
PROPERTY WorkersCloseLeavers
