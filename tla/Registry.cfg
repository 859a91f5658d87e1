CONSTANTS
  None = None
  Files <- ThreeFiles
  NameOf <- TwoNames
  DirOf <- TwoPlaces
  Dirs <- TwoDirs
  Common <- OneCommon
  BaseOf <- TwoBases
  VllmBase = 1
  ScoreOf <- Scores
  TooBig <- NoneTooBig
  VllmFits = TRUE
  Pins <- OnlyPins
  BasePort = 1
  MaxPort = 2
  MaxEdits = 2
SPECIFICATION FairSpec
INVARIANTS LiveDistinct
PROPERTIES   FilesGetServed
CHECK_DEADLOCK FALSE
