SPECIFICATION FairSpec
CONSTANTS
  Miner = {"a"}
  Coord = "coord"
  Block = Block
  FanOut = 2
  MaxLives = 2
  MayCrash = {"coord"}
  MaxCalls = 1
  Lossy = FALSE
  MaxFailures = 1
PROPERTIES JoinReturns
CHECK_DEADLOCK FALSE
