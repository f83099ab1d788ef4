CONSTANTS
  maxSize = 3
  ReadSizes <- WholeAndPart
  StreamSize = 3
  MaxBytes = 6
  MaxReaders = 1
SPECIFICATION RingSpec
INVARIANTS
  AtMostAsked
CHECK_DEADLOCK FALSE
