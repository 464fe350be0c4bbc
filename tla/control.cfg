CONSTANTS
  f1 = f1
  f2 = f2
  f3 = f3
  f4 = f4
  Channels = {f1, f2, f3, f4}
  Sources = {1, 2}
  Announced <- Secondary
  Threshold = 2
  MaxQueue = 2
  MaxMessages = 3
  MaxStrays = 1
  Configs <- Options
SPECIFICATION FairSpec
INVARIANTS Attached AllAttempted
PROPERTIES KeepsLive FoundAgain
CHECK_DEADLOCK FALSE
