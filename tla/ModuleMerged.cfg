SPECIFICATION MCPrintSpec
CONSTANTS
  Topic = "opened"
  Styles = {"Compact", "ElmFormat"}
  Modules <- MCModules
INVARIANTS
  MergingCombines
CHECK_DEADLOCK FALSE
