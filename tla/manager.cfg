CONSTANTS
  A = A
  B = B
  t1 = t1
  t2 = t2
  a1 = a1
  a2 = a2
  b1 = b1
  far = far
  Systems = {A, B}
  Talkgroups = {t1, t2}
  Site <- TwoSites
  File <- TwoFiles
  Channels <- TwoAndFar
  Phase2 = {b1}
  Sources = {1}
  Covered <- OneSource
  Pool <- ThreeRecorders
  Recorders = {1, 2, 3}
  MaxCalls = 3
  Configs <- Options
SPECIFICATION Spec
INVARIANTS PoolSound OwnAudio RecordedIsConcluded
PROPERTIES PoolPromise SupersedeKeepsRecording
CHECK_DEADLOCK FALSE
