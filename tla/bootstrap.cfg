SPECIFICATION FairSpec
CONSTANTS
  None = None
  Size = 5
  Instances = {2, 6}
  ClientSize = 2
  MayFail = {2}
  MaxJobs = 2
CHECK_DEADLOCK FALSE
INVARIANTS
  TypeOK
  OwnServer
  ServingMeansListed
  NodesFindInstances
PROPERTIES
  AllServe
