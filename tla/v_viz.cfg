SPECIFICATION Spec
CONSTANTS
  None = None
  Req <- TwoReq
  Ts <- Stamps
  Pend = {}
  Streams = 2
CHECK_DEADLOCK FALSE
INVARIANTS
  VizAtomic
