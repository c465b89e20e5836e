CONSTANTS
  t1 = t1
  t2 = t2
  p0 = p0
  p1 = p1
  p2 = p2
  wrong = wrong
  Empty = Empty
  None = None
  Bad = Bad
  Threads <- MCThreads
  Names <- MCNames
  Root = 1
  ValidPatterns <- MCPatterns
  Pattern = p0
  Texts <- MCTexts
  Docs <- MCDocs
  EventLevels <- MCLevels
  Contract <- Repeating
  MaxOps = 5
SPECIFICATION Spec
INVARIANT NothingBad
CHECK_DEADLOCK FALSE
