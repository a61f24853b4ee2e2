SPECIFICATION FairMCSpec
CONSTANTS
  Topic = "texts"
  MaxPieces = 4
  Texts <- MCTexts
  MaxInt = 100
  CodePoints <- MCCodePoints
INVARIANTS
  NoPanic
  TokensInOrder
  Tiled
  PositionsRight
  LexesAsWritten
  NextLineIsRead
PROPERTIES
  LexerTerminates
CHECK_DEADLOCK FALSE
