SPECIFICATION Spec
CONSTANTS
  Solver = {s1, s2, s3, s4}
  NumLines = 3
  Positions <- MCPositions
  AtOnce = {1, 3}
SYMMETRY Alike
INVARIANTS
  FileIsRight
  TakenInOrder
  MarkHasACause
PROPERTIES
  KeepsTheList
CHECK_DEADLOCK FALSE
