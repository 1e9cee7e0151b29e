SPECIFICATION Spec
CONSTANTS
  Users = {u1}
  Links = {l1, l2}
  Roles = {r1, r2}
  Asked = {"ACTIVE", "SUSPENDED"}
  Slots = {p1, p2}
  None = None
SYMMETRY Symmetry
INVARIANTS LinkWorksForOverlapping
PROPERTIES SendingEndsOlder SuspensionLasts RoleSettles
CHECK_DEADLOCK FALSE
