CONSTANTS
  t1 = t1
  t2 = t2
  p0 = p0
  p1 = p1
  p2 = p2
  wrong = wrong
  Empty = Empty
  None = None
  Bad = Bad
  Threads <- MCThreads
  Names <- MCNames
  Root = 1
  ValidPatterns <- MCPatterns
  Pattern = p0
  Texts <- MCTexts
  Docs <- MCDocs
  EventLevels <- MCLevels
  Contract <- MCContract
  MaxOps = 6
SPECIFICATION Spec
INVARIANTS Applied DumpReloads
PROPERTY OnlyBareLose
CHECK_DEADLOCK FALSE
