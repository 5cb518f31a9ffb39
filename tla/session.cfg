SPECIFICATION FairSpec
CONSTANTS
  None = None
  Size = 2
  Clients = {1, 2}
  Program <- TwiceAndOnce
  Regimes <- AllRegimes
CHECK_DEADLOCK FALSE
INVARIANTS
  TypeOK
  PublishExecuteAtomic
PROPERTIES
  ForeignOnlyInOverlap
  SessionsEnd
