CONSTANTS
  a = a b = b c = c h1 = h1 h2 = h2
  PriorityWatcher = pw MemoryWatcher = mw Refresher = rf
  NoModel = NoModel NoTask = NoTask
  Model <- TwoModels
  Handler <- OneHandler
  Strategy = "unload_first"
  Priority = a
  Registry <- DropOrKeepB
  Damaged = {}
  MaxRetries = 1
  MemoryPressure = TRUE
  UnloadCanFail = FALSE
  ClientsDisconnect = FALSE
SPECIFICATION Spec
INVARIANTS OneResident SlotSettled
