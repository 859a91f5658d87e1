CONSTANTS
  a = a b = b c = c h1 = h1 h2 = h2
  PriorityWatcher = pw MemoryWatcher = mw Refresher = rf
  NoModel = NoModel NoTask = NoTask
  Model <- TwoModels
  Handler <- TwoHandlers
  Strategy = "unload_first"
  Priority = NoModel
  Registry <- NoRegistry
  Damaged = {}
  MaxRetries = 1
  MemoryPressure = FALSE
  UnloadCanFail = TRUE
  ClientsDisconnect = FALSE
SPECIFICATION FairSpec
PROPERTIES Progress
