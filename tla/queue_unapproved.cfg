CONSTANTS
  d1 = d1
  NoSuggestion = NoSuggestion
  Suggestions = {s1, s2}
  Docs = {d1}
  DocOf <- SameDoc
  Grooming = {}
  Requests = {r1, r2}
  Ops = {"approve", "reanalyze"}
  Failures = {}
  MaxRestarts = 0
SYMMETRY Symmetry
SPECIFICATION Spec
CHECK_DEADLOCK FALSE
INVARIANT ApprovedStaysApproved
