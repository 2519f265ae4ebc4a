SPECIFICATION Spec
CONSTANTS
  Miner = {"a", "b"}
  Coord = "coord"
  Block = Block
  FanOut = 1
  MaxLives = 2
  MayCrash = {"a", "coord"}
  MaxCalls = 1
  Lossy = TRUE
  MaxFailures = 1
INVARIANTS TypeOK ListSound HeardIsListed
PROPERTIES NotMovedBack
CHECK_DEADLOCK FALSE
