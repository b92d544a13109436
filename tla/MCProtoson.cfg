SPECIFICATION MCSpec
CONSTANTS
  MaxTokens = 10
  Names = {"x"}
  Documented = TRUE
CHECK_DEADLOCK FALSE
INVARIANTS
  AcceptsJson
  ParentIsOpen
  RoundTrip
