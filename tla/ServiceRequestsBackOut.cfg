SPECIFICATION Spec
CONSTANTS
  Requests = {r1}
  Customers = {c1}
  Handymen = {h1, h2}
  Slots = {p1, p2}
  Details = {d1}
  None = None
  Serial = FALSE
  Crashes = FALSE
INVARIANT NoStaleAccepted
CHECK_DEADLOCK FALSE
