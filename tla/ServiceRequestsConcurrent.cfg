SPECIFICATION Spec
CONSTANTS
  Requests = {r1}
  Customers = {c1}
  Handymen = {h1, h2}
  Slots = {p1, p2}
  Details = {d1, d2}
  None = None
  Serial = FALSE
  Crashes = TRUE
SYMMETRY Symmetry
INVARIANTS AssigneeAccepted ReleasedClean HandlersSound EventsTruthful CompletedAtMostOnce
PROPERTIES NeverReopened ClosedStaysAsItWas
CHECK_DEADLOCK FALSE
