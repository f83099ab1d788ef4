CONSTANTS
  maxSize = 3
  ReadSizes <- WholeAndPart
  StreamSize = 2
  MaxBytes = 6
  MaxReaders = 2
SPECIFICATION RingSpec
INVARIANTS
  KeepsNewest
PROPERTIES
  ImplementsLog
CHECK_DEADLOCK FALSE
