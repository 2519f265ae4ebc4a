SPECIFICATION FairSpec
CONSTANTS
  Node = {"a", "b", "coord"}
  Update = {"na", "nb"}
  Kind <- UpdateKind
  Needs <- ChainNeeds
  Origin <- Makers
  Sub <- Subscriptions
  Trigger <- Triggers
  FanOut = 1
  QueueCap = 1
  MaxPushes = 1
  MaxFails = 0
  MaxRestarts = 0
PROPERTIES IntervalGoesOn
CHECK_DEADLOCK FALSE
