CONSTANTS
  Count = 2
  MaxInputs = 3
  MaxStops = 2
  MaxEvents = 3
SPECIFICATION FairSpec
INVARIANTS
  TypeOK
  SnapshotWhole
  SettledShowsHover
PROPERTY RestsWhenQuiet
CHECK_DEADLOCK FALSE
