SPECIFICATION MCDocSpec

CONSTANTS
  Topic = "forms"
  Docs <- MCDocs

INVARIANTS
  LinesKept
  CodeStaysCode
  ParagraphsKept
  DocIdempotent

CHECK_DEADLOCK FALSE
