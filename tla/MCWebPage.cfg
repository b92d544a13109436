SPECIFICATION Spec
CONSTANTS
  MaxRows = 6
  Sizes <- SmallSizes
  SquareLimit = 8
  MaxMoves = 3
  MaxRequests = 4
  MaxBeyond = 1
CHECK_DEADLOCK FALSE
INVARIANTS
  MarksAreTheMoves
  PageIsCurrent
  StaleForACause
