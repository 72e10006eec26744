CONSTANTS
  t1 = t1
  NoTags = NoTags
  NoDoc = NoDoc
  Docs = {d1}
  TagSets = {t1, t2}
  InboxTags = {}
  Workers = {w1}
  DriftLoops = {l1}
  DailyLoops = {f1}
  Refreshers = {}
  Indexers = {}
  Modes = {"daily"}
  DeleteFirst = FALSE
  Failures = {}
  MaxActive = 3
  MaxEdits = 1
  MaxBulkEdits = 1
  MaxHooks = 1
  MaxResets = 0
  MaxRestarts = 0
SPECIFICATION LiveSpec
PROPERTIES EventuallyFresh DirtyIsFlushed
