SPECIFICATION Spec
CONSTANTS
  None = None
  Size = 2
  Req <- TwoReq
  Ts <- Constant
  TaskId <- OwnTask
  Pend = {"p","o"}
  Modes = {"LAZY"}
  PoolLimit = 1
  Gate = "any"
  Teardown = TRUE
CHECK_DEADLOCK FALSE
INVARIANTS
  Accounted
