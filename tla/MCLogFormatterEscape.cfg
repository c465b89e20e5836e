CONSTANTS
  Chars <- MCChars
  Patterns <- MCPatterns
  Letters <- MCLetters
  ItemNames <- MCItems
  PatternContract <- Escapes
SPECIFICATION ParserSpec
INVARIANT ParsedAsMeant
CHECK_DEADLOCK FALSE
