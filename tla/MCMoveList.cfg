SPECIFICATION ListSpec
CONSTANTS
  MaxRows = 6
  Rows = 3
  Cols = 4
INVARIANTS
  AssertsHold
  EveryMoveOnce
  BoardRestored
  GivenAsStaged
PROPERTIES
  PositionIsLeft
CHECK_DEADLOCK FALSE
