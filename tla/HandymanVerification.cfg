SPECIFICATION Spec
CONSTANTS
  Profiles = {h1}
  Admins = {a1, a2}
  Docs = {d1, d2}
  Slots = {p1, p2}
  Details = {x1}
  None = None
  FaultModels = {{"store", "row"}, {"crash", "store", "row", "cleanup", "audit"}, {"overlap", "row"}}
SYMMETRY Symmetry
INVARIANTS RowsHaveFiles NoOrphanUpload DecisionRecorded SubmittedHasDocuments
PROPERTIES NeverBack NothingDeletedUnderReview
CHECK_DEADLOCK FALSE
