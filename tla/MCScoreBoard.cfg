SPECIFICATION MCSpec
CONSTANTS
  MaxRows = 8
  Rows = 3
  Cols = 6
  MaxBlocks = 4
INVARIANTS
  VerdictIsRight
  AreasAreDisjoint
  VerdictExtendsIsGameOver
  EstimateIsNoVerdict
CHECK_DEADLOCK FALSE
