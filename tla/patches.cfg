CONSTANTS
  zero = zero
  sg = sg
  g1 = g1
  g2 = g2
  Groups = {sg, g1}
  Supers = {zero, sg}
  File = {g1}
  RecordUnknown = FALSE
  STALE = 10
  PERIOD = 3
SPECIFICATION Spec
INVARIANTS PatchHonoured
PROPERTIES PatchedIsRecorded
CHECK_DEADLOCK FALSE
