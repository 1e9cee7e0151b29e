SPECIFICATION Spec
CONSTANTS
  Keys = {k1, k2, k3}
  Slots = {p1, p2}
  MaxEntries = 2
  DefaultTtl = 1
  Ttls = {0, 1}
  MaxTtl = 1
  MaxFactory = 1
  None = None
SYMMETRY Symmetry
INVARIANTS MapBounded StaleOnlyForItsTtl
