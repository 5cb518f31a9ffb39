SPECIFICATION Spec
CONSTANTS
  o1 = o1
  o2 = o2
  o3 = o3
  a = a
  b = b
  c = c
  Temp = Temp
  None = None
  Op = {o1, o2, o3}
  Var = {a, b, c}
  MayFail = {o1}
  MaxWaits = 2
INVARIANTS
  TypeOK
  NoneAbandoned
  ConsumedOnce
