CONSTANTS
  Docs = {d1, d2, d3}
  Poison = {d2}
  Deferred = {d3}
SPECIFICATION LiveSpec
INVARIANTS
  TypeOK
  HealthAgrees
PROPERTIES
  Finishes
