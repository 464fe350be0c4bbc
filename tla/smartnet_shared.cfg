CONSTANTS
  Systems = {1, 2}
  FirstSystem = 1
  Radios <- Simple
  MaxWords = 8
  MaxLost = 0
SPECIFICATION Spec
INVARIANT OneSender
