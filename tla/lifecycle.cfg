SPECIFICATION Spec
CONSTANTS
  Addr = {a1, a2, a3}
  Impl = {i1, i2, i3}
  Null = Null
  Gone = Gone
SYMMETRY Symmetry
INVARIANTS
  TypeOK
  OneOwner
  ReleasedByFinalize
  StaleOnlyAfterMove
