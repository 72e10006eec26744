CONSTANTS
  Entities = {e1, e2}
  Docs = {d1, d2}
  Names = {n1, n2}
  Texts = {x1, x2}
  NoText = NoText
  NoEntity = NoEntity
  Tasks = {t1, t2}
  Failures = {"model", "embed", "page", "edit", "delete", "query"}
  MaxSuggestions = 1
  MaxFlagged = 2
  MaxEvents = 2
SPECIFICATION Spec
SYMMETRY Symmetry
CHECK_DEADLOCK FALSE
INVARIANTS
  GroomingInv
  VectorIsCurrent
  PendingIsNotDismissed
  MergeIsSound
  ScanMissesNothing
  ProposalFits
