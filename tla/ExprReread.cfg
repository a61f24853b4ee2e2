SPECIFICATION FairExprSpec
CONSTANTS
  Topic = "reread"
  Sources <- MCSources
  MaxExprDepth = 4
INVARIANTS
  CommentsKeptOnce
CHECK_DEADLOCK FALSE
