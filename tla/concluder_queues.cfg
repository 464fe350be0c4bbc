\* Two calls whose workers, retries and drain interleave.
CONSTANTS
  Calls = {c1, c2}
  Tx = {t1}
  PluginCount = 2
  MAX_RETRY = 2
  Configs <- QueueConfigs
SPECIFICATION FairSpec
INVARIANTS OneOwner UploadedOnce SuccessMeansServed
PROPERTIES UploadPromise EveryCallSettles
CHECK_DEADLOCK FALSE
