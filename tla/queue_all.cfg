CONSTANTS
  d1 = d1
  NoSuggestion = NoSuggestion
  Suggestions = {s1, s2}
  Docs = {d1}
  DocOf <- SameDoc
  Grooming = {s1, s2}
  Requests = {r1, r2}
  Ops = {"auto_apply", "bulk_approve", "reject", "empty", "reanalyze", "reanalyze_all"}
  Failures = {"patch", "answer", "analysis", "commit"}
  MaxRestarts = 1
SYMMETRY Both
SPECIFICATION Spec
CHECK_DEADLOCK FALSE
INVARIANTS ApprovedWasApplied LatestIsApproved DismissalIsJudgment AuditTellsStatus HeldIsPending
PROPERTY LifecycleSpec
