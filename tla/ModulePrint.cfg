SPECIFICATION MCPrintSpec
CONSTANTS
  Topic = "comments"
  Styles = {"Compact", "ElmFormat"}
  Modules <- MCModules
INVARIANTS
  CommentsWrittenOnce
  StaysWithItsImport
  OrderKept
  Idempotent
  ImportsMeanTheSame
  HeaderExposesTheSame
CHECK_DEADLOCK FALSE
