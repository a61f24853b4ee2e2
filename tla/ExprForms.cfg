SPECIFICATION FairExprSpec
CONSTANTS
  Topic = "forms"
  Sources <- MCSources
  MaxExprDepth = 4
INVARIANTS
  ParsesAsWritten
  DepthBound
  SpansNest
  BracketsBalanced
  ContextIsFresh
  CommentsConserved
  PendingInOrder
  SnapshotsSeparate
  LeadsItsNode
PROPERTIES
  AttachedForGood
CHECK_DEADLOCK FALSE
