CONSTANTS
  Chars <- MCChars
  Patterns <- MCPatterns
  Letters <- MCLetters
  ItemNames <- MCItems
  PatternContract <- MCContract
SPECIFICATION ParserSpec
INVARIANTS ParsedAsMeant AcceptedIsWhole
CHECK_DEADLOCK FALSE
