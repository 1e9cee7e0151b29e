SPECIFICATION Spec
CONSTANTS
  Users = {u1}
  Tokens = {t1, t2}
  Slots = {p1, p2}
  None = None
  FaultModels = {{}}
SYMMETRY Symmetry
PROPERTY SuspensionHolds
CHECK_DEADLOCK FALSE
