CONSTANTS
  a = a
  b = b
  NoText = NoText
  NoSpace = NoSpace
  NoDoc = NoDoc
  Docs = {d1}
  Texts = {a, b}
  SizeOf <- Sizes
  Spaces = {e1, e2}
  Embedders = {w1, w2}
  Failures = {"look", "embed", "load", "build", "reset"}
  MaxEvents = 4
SYMMETRY Symmetry
SPECIFICATION Spec
CHECK_DEADLOCK FALSE
INVARIANTS   UsableOrPrompted SwitchKeepsIndex
 
