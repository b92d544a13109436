SPECIFICATION TablesSpec
CONSTANTS
  MaxRows = 8
  Half = 4
INVARIANTS
  MergedQueriesExact
  GreedyIsMaximal
