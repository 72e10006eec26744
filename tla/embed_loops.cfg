CONSTANTS
  t1 = t1
  NoTags = NoTags
  NoDoc = NoDoc
  Docs = {d1}
  TagSets = {t1, t2}
  InboxTags = {}
  Workers = {w1}
  DriftLoops = {l1}
  DailyLoops = {f1}
  Refreshers = {f2}
  Indexers = {}
  Modes = {"immediate", "daily"}
  DeleteFirst = FALSE
  Failures = {"embed", "fetch"}
  MaxActive = 2
  MaxEdits = 1
  MaxBulkEdits = 0
  MaxHooks = 1
  MaxResets = 1
  MaxRestarts = 0
SYMMETRY SymmetryOfTags
SPECIFICATION Spec
CHECK_DEADLOCK FALSE
INVARIANT EmbedInv
PROPERTY DeletedStaysGone
