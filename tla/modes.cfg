SPECIFICATION FairSpec
CONSTANTS
  None = None
  Size = 2
  Req <- ThreeReq
  Ts <- Increasing
  TaskId <- OwnTask
  Pend = {"p"}
  Modes = {"EAGER", "LAZY", "LAZYISH"}
  PoolLimit = 1
  Gate = "pushed"
  Teardown = FALSE
INVARIANTS
  TypeOK
  CollectivesMatch
  SameRequest
  Accounted
  QueuesAgree
  TimestampOrder
PROPERTIES
  HandlersReturn
  EverythingRuns
  OneLog
