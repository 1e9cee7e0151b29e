SPECIFICATION Spec
CONSTANTS
  Users = {u1}
  Tokens = {t1, t2, t3}
  Slots = {p1, p2}
  None = None
  FaultModels = {{"insert"}, {"crash", "insert", "rollback", "lost"}}
SYMMETRY Symmetry
INVARIANTS AnsweredWasStored SuspendedMintsNothing LiveIsHeld RegistrationIsWhole
PROPERTIES ExchangedOnce ImplementsTokenLifecycle
CHECK_DEADLOCK FALSE
