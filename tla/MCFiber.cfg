CONSTANTS
  t1 = t1
  t2 = t2
  f1 = f1
  f2 = f2
  f3 = f3
  Null = Null
  Threads <- MCThreads
  Fibers <- MCFibers
  Contract <- MCContract
SPECIFICATION FairSpec
INVARIANTS TypeOK NoAbort ContinuationKept CurrentIsRunning NoLeak CountIsLive
PROPERTIES SwapInReturns ImplementsCoroutine
CHECK_DEADLOCK FALSE
