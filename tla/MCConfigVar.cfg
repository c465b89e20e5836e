CONSTANTS
  t1 = t1
  t2 = t2
  x1 = x1
  x2 = x2
  v0 = v0
  v1 = v1
  v2 = v2
  l1 = l1
  l2 = l2
  Null = Null
  Threads <- MCThreads
  Vars <- MCVars
  Values <- MCValues
  Default = v0
  Listeners <- MCListeners
  Contract <- MCContract
  MaxOps = 4
SPECIFICATION FairSpec
INVARIANTS TypeOK ViewsAgree KeyOwned
PROPERTY CallsReturn
CHECK_DEADLOCK FALSE
