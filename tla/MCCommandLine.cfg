SPECIFICATION Spec
CONSTANTS
  Line <- MCLine
  SquareLimit = 128
  Half = 1024
  MaxLines = 3
  MaxInterrupts = 1
INVARIANTS
  ReportIsWhole
  WaitsForClose
  StartsAsWritten
PROPERTIES
  StopIsHeard
CHECK_DEADLOCK FALSE
