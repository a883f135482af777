\* Is the result of a match its last one?
SPECIFICATION Spec
CONSTANTS
  Size = 2
  Point <- Grid
  Adjacent <- GridAdjacent
  EMPTY = EMPTY
  PASS = PASS
  NONE = NONE
  HandicapOrder <- Order
  Games <- SmallGames
  MoveNumbers = {2, 9}
  Vertices <- PairsOfVertices
  Handicaps = {2}
  Undos = {1, 2}
  MaxCommands = 5
  MaxGameLength = 6
CHECK_DEADLOCK FALSE
INVARIANTS ResultIsLast
