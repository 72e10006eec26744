CONSTANTS
  t1 = t1
  NoTags = NoTags
  NoDoc = NoDoc
  Docs = {d1}
  TagSets = {t1}
  InboxTags = {}
  Workers = {w1, w2}
  DriftLoops = {}
  DailyLoops = {}
  Refreshers = {}
  Indexers = {}
  Modes = {"immediate"}
  DeleteFirst = FALSE
  Failures = {}
  MaxActive = 2
  MaxEdits = 2
  MaxBulkEdits = 0
  MaxHooks = 2
  MaxResets = 0
  MaxRestarts = 0
SYMMETRY Symmetry
SPECIFICATION WebhookSpec
CHECK_DEADLOCK FALSE
INVARIANT StaleIsDetectable
