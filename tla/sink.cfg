\* Two calls on one recorder of every kind, up to two frames per buffer.
CONSTANTS
  Units = {u1, u2}
  Groups = {g1, g2}
  NoUnit = NoUnit
  NoCall = NoCall
  MaxCalls = 2
  MaxWindows = 4
  Merged = 2
SPECIFICATION Spec
SYMMETRY Symmetry
INVARIANTS SamplesHaveFile NothingLost SourceWasHeard ReturnsToPool
CHECK_DEADLOCK FALSE
