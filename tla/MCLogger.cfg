CONSTANTS
  t1 = t1
  t2 = t2
  root = root
  l1 = l1
  out = out
  a1 = a1
  f0 = f0
  f1 = f1
  Null = Null
  Threads <- MCThreads
  Loggers <- MCLoggers
  Root = root
  Appenders <- MCAppenders
  Stdout = out
  Formats <- MCFormats
  Pattern = f0
  MaxLevel = 2
  Contract <- MCContract
  MaxOps = 5
SPECIFICATION FairSpec
INVARIANTS TypeOK NothingBad WrittenOnce FormattersFollow OwnFormatterKept
PROPERTY CallsReturn
CHECK_DEADLOCK FALSE
