SPECIFICATION Spec
CONSTANTS
  None = None
  Size = 3
  Req <- ThreeReq
  Ts <- Increasing
  TaskId <- OwnTask
  Pend = {}
  Modes = {"EAGER"}
  PoolLimit = 1
  Gate = "any"
  Teardown = FALSE
CHECK_DEADLOCK FALSE
INVARIANTS
  SameRequest
