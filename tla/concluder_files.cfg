\* One call under every combination of archive options.
CONSTANTS
  Calls = {c1}
  Tx = {t1, t2}
  PluginCount = 2
  MAX_RETRY = 2
  Configs <- ArchiveConfigs
SPECIFICATION HangSpec
INVARIANTS TypeOK UploadHasFiles SettledCleanly ExhaustedIsArchived
PROPERTIES ShutdownEnds
CHECK_DEADLOCK FALSE
