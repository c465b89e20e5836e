CONSTANTS
  t1 = t1
  t2 = t2
  None = None
  Threads <- MCThreads
  Contract <- MCContract
  MaxTime = 4
  MaxFiles = 3
  MaxOps = 5
SPECIFICATION Spec
INVARIANT NotOrphaned
PROPERTY Recovers
CHECK_DEADLOCK FALSE
