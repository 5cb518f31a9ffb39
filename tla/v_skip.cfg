SPECIFICATION Spec
CONSTANTS
  None = None
  Size = 2
  Req <- TwoReq
  Ts <- Constant
  TaskId <- OwnTask
  Pend = {"p"}
  Modes = {"LAZY"}
  PoolLimit = 1
  Gate = "pushed"
  Teardown = FALSE
CHECK_DEADLOCK FALSE
INVARIANTS
  SkipMeansSkip
