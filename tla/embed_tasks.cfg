CONSTANTS
  t1 = t1
  NoTags = NoTags
  NoDoc = NoDoc
  Docs = {d1}
  TagSets = {t1, t2}
  InboxTags = {t2}
  Workers = {w1, w2}
  DriftLoops = {}
  DailyLoops = {}
  Refreshers = {}
  Indexers = {i1}
  Modes = {"immediate"}
  DeleteFirst = TRUE
  Failures = {"stamp"}
  MaxActive = 3
  MaxEdits = 1
  MaxBulkEdits = 0
  MaxHooks = 1
  MaxResets = 1
  MaxRestarts = 1
SYMMETRY Symmetry
SPECIFICATION Spec
CHECK_DEADLOCK FALSE
INVARIANTS HonestStamp TagSnapshotFaithful
