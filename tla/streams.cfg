SPECIFICATION Spec
CONSTANTS
  None = None
  Req <- FourReq
  Ts <- Stamps
  Pend = {"p"}
  Streams = 1
INVARIANTS
  TypeOK
  VizAtomic
  DescriptorsBounded
