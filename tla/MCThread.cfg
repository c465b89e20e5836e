CONSTANTS
  o1 = o1
  o2 = o2
  c1 = c1
  c2 = c2
  Objs <- MCObjs
  Clients <- MCClients
  Names <- MCNames
  Contract <- MCContract
SPECIFICATION FairSpec
INVARIANTS NothingBad LeavesAfterStart ClearedIsDone NoZombie NamesAgree
PROPERTY CallsReturn
CHECK_DEADLOCK FALSE
