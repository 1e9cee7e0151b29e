SPECIFICATION FairSpec
CONSTANTS
  Requests = {r1}
  Customers = {c1}
  Handymen = {h1, h2}
  Slots = {p1, p2, p3}
  Details = {d1}
  None = None
  Serial = TRUE
  Crashes = FALSE
INVARIANT SingleAccepted
PROPERTIES OnlyAssigneeActs ImplementsJob Announced
CHECK_DEADLOCK FALSE
