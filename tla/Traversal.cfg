SPECIFICATION TraversalSpec
CONSTANTS
  Trees <- MCTrees
  Roots <- MCRoots
  Overridable = {"expr", "pattern", "type", "function", "signature", "let", "comment"}
INVARIANTS
  InSourceOrder
  NothingMissed
  FoldKeepsTree
CHECK_DEADLOCK FALSE
