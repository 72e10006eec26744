CONSTANTS
  f1 = f1
  f2 = f2
  r1 = r1
  r2 = r2
  s1 = s1
  s2 = s2
  m1 = m1
  m2 = m2
  NoText = NoText
  NoSession = NoSession
  Loop = Loop
  Sessions = {s1, s2}
  Requests = {r1, r2}
  MemoryIds = {m1, m2}
  Texts = {f1, f2}
  Near <- OneWay
  Window = 1
  Failures = {"model", "embed", "vector", "commit"}
  MaxQuestions = 2
  MaxEvents = 2
SPECIFICATION MCSpec
CHECK_DEADLOCK FALSE
INVARIANTS NothingForgotten StoresAgree  
PROPERTY ExpiredIsRemoved
