SPECIFICATION Spec
CONSTANTS
  LaterKinds = {"minor", "patch"}
  PublishEarly = TRUE
  RebuildFails = TRUE
  MaxBlocks = 4
INVARIANTS
  ReadyIsSafe
PROPERTIES
  EventuallyUpgraded
CHECK_DEADLOCK FALSE
