CONSTANTS
  Systems = {1}
  FirstSystem = 1
  Radios <- BothRadios
  MaxWords = 9
  MaxLost = 1
SPECIFICATION Spec
INVARIANTS TypeOK InOrder ToldOnce GrantAsSent
PROPERTIES NothingUnheard
