CONSTANTS
  root = root
  a = a
  b = b
  c = c
  Null = Null
  Fibers = {root, a, b}
  Root = root
  Status = {0, 1}
  SqEntries = 2
  CqEntries = 4
SPECIFICATION FairSpec
PROPERTIES ReadyIsResumed FinishedIsWoken JoinDeadlockTraps
