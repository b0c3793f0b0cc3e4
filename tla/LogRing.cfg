CONSTANTS
  Producers = {a, b}
  Size = 2
  MaxMessages = 4
SPECIFICATION FairSpec
INVARIANTS
  TypeOK
  FileInOrder
  LastFlushComplete
PROPERTY Flushed
CHECK_DEADLOCK FALSE
