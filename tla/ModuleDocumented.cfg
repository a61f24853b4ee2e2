SPECIFICATION ModuleSpec
CONSTANTS
  Topic = "documented"
  Sources <- MCSources
  MaxExprDepth = 4
INVARIANTS
  DocumentedParses
CHECK_DEADLOCK FALSE
