\* Does a play that is accepted give a board of the match again?
SPECIFICATION Spec
CONSTANTS
  Size = 2
  Point <- Grid
  Adjacent <- GridAdjacent
  EMPTY = EMPTY
  PASS = PASS
  NONE = NONE
  HandicapOrder <- Order
  Games <- NoGames
  MoveNumbers = {2, 9}
  Vertices <- NoVertices
  Handicaps = {}
  Undos = {1, 2}
  MaxCommands = 5
  MaxGameLength = 9
CHECK_DEADLOCK FALSE
INVARIANTS NoRepeat
