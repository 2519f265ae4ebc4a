SPECIFICATION FairSpec
CONSTANTS
  Node = {"a", "b", "coord"}
  Update = {"na"}
  Kind <- UpdateKind
  Needs <- ChainNeeds
  Origin <- Makers
  Sub <- Subscriptions
  Trigger <- Triggers
  FanOut = 2
  QueueCap = 2
  MaxPushes = 2
  MaxFails = 0
  MaxRestarts = 0
PROPERTIES Spreads
CHECK_DEADLOCK FALSE
