\* A refused call, its worker abandoned by the drain, and stop_plugins.
CONSTANTS
  Calls = {c1}
  Tx = {t1}
  PluginCount = 1
  MAX_RETRY = 2
  Configs <- QueueConfigs
SPECIFICATION Spec
INVARIANT RefusedIsArchived
CHECK_DEADLOCK FALSE
