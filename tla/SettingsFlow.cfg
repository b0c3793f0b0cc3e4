CONSTANTS
  Sliders = {"height"}
  MaxEdits = 2
  MaxQueue = 2
  MaxCrashes = 1
  Torn = Torn
  NoTree = NoTree
SPECIFICATION FairSpec
INVARIANTS
  TypeOK
  CardsReachFile
  OnAsSaved
PROPERTY EngineCatchesUp
CHECK_DEADLOCK FALSE
