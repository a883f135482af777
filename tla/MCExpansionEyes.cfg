SPECIFICATION Spec
CONSTANTS
  BOARD_SIZ = 5
  EMPTY = EMPTY
  PASS = PASS
  NONE = NONE
  Killed2 <- can_be_killed2
  Killed3 <- can_be_killed3
  Starts <- WrappedBoard
  Starting = {12}
  Scaled <- Powers
  Orders <- MCOrders
  Addresses <- MCAddresses
  MaxPlays = 1
CHECK_DEADLOCK FALSE
INVARIANTS OwnEyesSpared
