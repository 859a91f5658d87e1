CONSTANTS
  None = None
  Modes <- AllModes
  BlockCounts <- SomeBlocks
  UserContexts <- SomeContexts
  UserFloors <- SomeFloors
  UserNgls <- SomeNgls
  Ports <- OnePort
  FreeVram <- SomeVram
  Symptoms <- SomeSymptoms
  SizeMb = 9216
  VramGb = 12
  DefaultContext = 16384
  ReserveMb = 1024
  ReservePercent = 15
  MaxAttempts = 5
  CacheProfiles = TRUE
  AutoNgl = TRUE
  ContextFallbackMin = 8192
  MaxLoads = 2
  MaxEdits = 1
SPECIFICATION FairSpec
INVARIANTS OnlyProven ProfileTruthful
PROPERTIES  LoadEnds
CHECK_DEADLOCK FALSE
