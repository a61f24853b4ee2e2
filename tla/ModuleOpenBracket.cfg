SPECIFICATION ModuleSpec
CONSTANTS
  Topic = "open"
  Sources <- MCSources
  MaxExprDepth = 4
INVARIANTS
  OthersSurvive
CHECK_DEADLOCK FALSE
