CONSTANTS
  MaxChanges = 1
  MaxTurns = 1
  MaxEvents = 1
SPECIFICATION FairSpec
PROPERTY DisableReturns
CHECK_DEADLOCK FALSE
