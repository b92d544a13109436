SPECIFICATION MCSpec
CONSTANTS
  MaxRows = 6
  Rows = 4
  Cols = 4
  MaxBlocks = 2
  HashBits = {0, 1}
  NodeUnit = 2
  Horizons <- MCHorizons
  Zobrists <- MCZobrists
INVARIANTS
  SearchTypeOK
  ResultIsRight
  TableIsRight
  SearchDecides
PROPERTIES
  Terminates
CHECK_DEADLOCK FALSE
