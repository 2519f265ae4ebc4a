SPECIFICATION FairSpec
CONSTANTS
  Call = {"c1", "c2"}
  Refused <- Unsigned
  Miner = {"m1", "m2"}
  SubmitRetry = 2
  ComplaintCap = 1
  MaxFaults = 2
INVARIANTS TypeOK Outcome
PROPERTIES SubmitEnds
CHECK_DEADLOCK FALSE
