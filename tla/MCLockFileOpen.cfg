SPECIFICATION Spec
CONSTANTS
  Solver = {s1, s2}
  NumLines = 3
  Positions <- MCPositions
  AtOnce = {2}
SYMMETRY Alike
INVARIANTS
  WinnerIsDetermined
CHECK_DEADLOCK FALSE
