\* All commands, one clock: its player's plays take any of four times.
SPECIFICATION FairSpec
CONSTANTS
  black = black
  Colour = {black}
  UintMod = 16
  Second = 2
  DefaultTime = 3
  MinTime = 1
  Latency = 0
  GameLength = 6
  BoardSize = 2
  FactorNum = 5
  FactorDen = 4
  None = None
  Seconds <- SomeSeconds
  LeftSeconds <- SomeTimesLeft
  Counts <- SomeCounts
  Stones = {0, 4}
  Elapsed <- SomeElapsed
INVARIANTS TypeOK StonesNeverRunOut
PROPERTIES AllottedTimeIsEnough TimeConserved AdvanceEnds
