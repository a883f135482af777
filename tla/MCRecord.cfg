\* All commands, and kos in games loaded, on a board of 3x3 points.
SPECIFICATION Spec
CONSTANTS
  Size = 3
  Point <- Grid
  Adjacent <- GridAdjacent
  EMPTY = EMPTY
  PASS = PASS
  NONE = NONE
  HandicapOrder <- Order
  Games <- KoGames
  MoveNumbers = {7, 20}
  Vertices <- VerticesGiven
  Handicaps = {2}
  Undos = {1, 2}
  MaxCommands = 3
  MaxGameLength = 14
CHECK_DEADLOCK FALSE
INVARIANTS TypeOK CacheIsCurrent RecordIsLegal GenmoveIsLegal
PROPERTIES PlaysKeepColour
