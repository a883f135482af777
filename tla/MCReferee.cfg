\* Three games on the smallest board that the program accepts, colours swapped.
SPECIFICATION Spec
CONSTANTS
  BOARD_SIZ = 5
  Games = 3
  Alternate = TRUE
CHECK_DEADLOCK FALSE
INVARIANTS TypeOK SameGame
PROPERTIES MatchIsReported
