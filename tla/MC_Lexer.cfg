SPECIFICATION LexerSpec
CONSTANTS
  Text <- MCText
  MaxTokens = 14
INVARIANTS
  LongestTokens
  LinesCorrect
  LinesInv
  TokensInv
PROPERTIES
  LexerImplementsVerdict
CHECK_DEADLOCK FALSE
