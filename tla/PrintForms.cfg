SPECIFICATION PrintSpec
CONSTANTS
  Topic = "forms"
  IndentWidth = 4
  Sources <- MCSources
  MaxExprDepth = 30
INVARIANTS
  ReadsBack
  CommentsPrinted
CHECK_DEADLOCK FALSE
