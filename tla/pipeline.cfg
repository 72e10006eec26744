CONSTANTS
  MaxRequests = 2
  t = t
  f = f
  Entities = {t, f}
  Kind <- KindOf
  MaxEvents = 1
SPECIFICATION Spec
CHECK_DEADLOCK FALSE
INVARIANTS NobodyWaitsInVain ForbiddenIsNotCreated
PROPERTIES KeptTagsSurvive HumanApprovalIsComplete
