SPECIFICATION FairModuleSpec
CONSTANTS
  Topic = "forms"
  Sources <- MCSources
  MaxExprDepth = 4
INVARIANTS
  ModuleParsesAsWritten
  ModuleKeepsComments
  ModuleBracketsBalanced
PROPERTIES
  ConstructorsKeepApart
  IntactAreRead
  ImplementsOutline
CHECK_DEADLOCK FALSE
