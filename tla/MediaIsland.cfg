CONSTANTS
  MaxChanges = 2
  MaxTurns = 1
  MaxEvents = 2
SPECIFICATION FairSpec
INVARIANTS
  TypeOK
  ShowsCurrent
PROPERTIES
  JoinEnds
  LoopRests
CHECK_DEADLOCK FALSE
