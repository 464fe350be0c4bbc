CONSTANTS
  s1 = s1
  w1 = w1
  w2 = w2
  PluginCount = 2
  Streams = {s1}
  Workers = {w1, w2}
SPECIFICATION FairSpec
INVARIANTS CalledWhileUp StoppedOnce
PROPERTIES SameAudience ExitEnds
CHECK_DEADLOCK FALSE
