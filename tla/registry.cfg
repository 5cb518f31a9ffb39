SPECIFICATION FairSpec
CONSTANTS
  c1 = c1
  k1 = k1
  d1 = d1
  d2 = d2
  u1 = u1
  u2 = u2
  Create = {c1}
  Close = {k1}
  Destroy = {d1}
  Reply = {}
  Early = {u1}
  OneWay = {}
  Unknown = Unknown
  None = None
INVARIANTS
  TypeOK
  NoDanglingNode
  LookupHolds
  DestroyedOnce
  NoLeak
PROPERTIES
  EveryCallEnds
  Linearizable
