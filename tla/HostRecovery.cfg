CONSTANTS
  MaxShells = 2
  MaxRepeats = 2
SPECIFICATION FairSpec
INVARIANT TypeOK
PROPERTIES
  HookedInTheEnd
  StopEnds
CHECK_DEADLOCK FALSE
