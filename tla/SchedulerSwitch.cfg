CONSTANTS
  a = a b = b c = c h1 = h1 h2 = h2
  PriorityWatcher = pw MemoryWatcher = mw Refresher = rf
  NoModel = NoModel NoTask = NoTask
  Model <- ThreeModels
  Handler <- TwoHandlers
  Strategy = "unload_first"
  Priority = NoModel
  Registry <- NoRegistry
  Damaged <- OnlyB
  MaxRetries = 1
  MemoryPressure = FALSE
  UnloadCanFail = FALSE
  ClientsDisconnect = FALSE
SPECIFICATION HSpec
INVARIANTS TypeOK DrainHonoured
PROPERTIES DamagedKeepsResident FailedSwitchRestores MachineSpec
SYMMETRY HandlerSymmetry
