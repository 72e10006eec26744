CONSTANTS
  NoDoc = NoDoc
  Docs = {d1, d2}
  Loops = {"poll", "batch"}
  AutoApply = {TRUE, FALSE}
  Failures = {"analysis", "patch", "commit"}
  MaxEvents = 2
SPECIFICATION FairSpec
CHECK_DEADLOCK FALSE
INVARIANT InboxInv
PROPERTIES PolledOnce BatchSkipsMarked EveryInboxDocIsAttempted ResetIsPickedUp
