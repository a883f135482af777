SPECIFICATION Spec
CONSTANTS
  BOARD_SIZ = 3
  EMPTY = EMPTY
  PASS = PASS
  NONE = NONE
  Starts <- LateStarts
  Free = {2}
  Komi = 5
  MERCY_THRESHOLD = 3
  MaxTreePlays = 1
CHECK_DEADLOCK FALSE
INVARIANTS TypeOK GroupsAreExact UpdatesAreExact PlaysForetold CacheFresh
PROPERTIES SameAsSlowBoard PlayoutPlays
