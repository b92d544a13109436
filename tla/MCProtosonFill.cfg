SPECIFICATION MCSpec
CONSTANTS
  MaxTokens = 9
  Names = {"board", "blocks"}
  Documented = FALSE
CHECK_DEADLOCK FALSE
INVARIANT FillReportsFailure
