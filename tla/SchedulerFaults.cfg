CONSTANTS
  a = a b = b c = c h1 = h1 h2 = h2
  PriorityWatcher = pw MemoryWatcher = mw Refresher = rf
  NoModel = NoModel NoTask = NoTask
  Model <- TwoModels
  Handler <- TwoHandlers
  Strategy = "load_first"
  Priority = NoModel
  Registry <- DropOrKeepB
  Damaged = {}
  MaxRetries = 1
  MemoryPressure = TRUE
  UnloadCanFail = TRUE
  ClientsDisconnect = TRUE
SPECIFICATION Spec
INVARIANTS  ActiveExact
SYMMETRY HandlerSymmetry
