SPECIFICATION Spec
CONSTANTS
  Node = {"a", "b"}
  Update = {"t", "x", "y"}
  Kind <- UpdateKind
  Needs <- ChainNeeds
  Origin <- Makers
  Sub <- Subscriptions
  Trigger <- Triggers
  FanOut = 2
  QueueCap = 2
  MaxPushes = 2
  MaxFails = 1
  MaxRestarts = 1
INVARIANTS TypeOK CausalLog PushSyncs
CHECK_DEADLOCK FALSE
