CONSTANTS
  Configs <- AllChannels
  CallTimeout = 1
  MaxVoice <- FewSeconds
  MaxCalls = 2
  MaxChain = 1
SPECIFICATION FairSpec
INVARIANTS KeptOnce LimitHolds
PROPERTIES FilingPromise QuietIsConcluded SignalOpensPort
CHECK_DEADLOCK FALSE
