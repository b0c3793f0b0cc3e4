CONSTANTS
  Primary = p
  Secondaries = {s1, s2}
  MaxEdits = 2
  MaxEvents = 3
SPECIFICATION Spec
INVARIANTS
  TypeOK
  AccentsFollow
  SizesFollow
SYMMETRY Symmetry
CHECK_DEADLOCK FALSE
