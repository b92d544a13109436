SPECIFICATION MCSpec
CONSTANTS
  MaxRows = 6
  Rows = 3
  Cols = 4
  MaxPlayed = 2
INVARIANTS
  TypeOK
  ViewsAgree
  FiguresExact
  KeysExact
  GameOverIsRight
PROPERTIES
  ScoreIsTheGain
  ImplementsGame
CHECK_DEADLOCK FALSE
