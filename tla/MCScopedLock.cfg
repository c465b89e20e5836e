CONSTANTS
  t1 = t1
  t2 = t2
  t3 = t3
  g1 = g1
  g2 = g2
  g3 = g3
  Null = Null
  Threads <- MCThreads
  Guards <- MCGuards
  Kind = "RWMutex"
  Contract <- MCContract
  MaxCount = 3
SPECIFICATION Spec
SYMMETRY Symmetry
INVARIANTS TypeOK FlagsMatchLock MutualExclusion NoLostUpdate
