CONSTANTS
  Primary = tray
  Secondaries = {left, right}
  Nowhere = nowhere
  MaxTracked = 2
  MaxMoves = 2
  MaxChanges = 5
  Nested = FALSE
SPECIFICATION Spec
INVARIANTS
  TypeOK
  NothingLeftWhenDown
PROPERTIES
  LeaveIsTold
CHECK_DEADLOCK FALSE
