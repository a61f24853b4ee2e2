SPECIFICATION FairExprSpec
CONSTANTS
  Topic = "broken"
  Sources <- MCSources
  MaxExprDepth = 2
INVARIANTS
  IInv
PROPERTIES
  Terminates
CHECK_DEADLOCK FALSE
