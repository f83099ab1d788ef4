CONSTANTS
  Paths = {p1, p2}
  Known = {p1}
  Reconnecting = {p1}
  MaxSessions = 2
  MaxCloses = 2
  MaxData = 0
  Supervised = TRUE
SPECIFICATION FairSpec
PROPERTIES
  HalfOpenReaped
  ServedForGood
  NoOrphan
CHECK_DEADLOCK FALSE
