CONSTANTS
  Paths = {p1, p2}
  Known = {p1, p2}
  Reconnecting = {p1, p2}
  MaxSessions = 3
  MaxCloses = 2
  MaxData = 2
  Supervised = FALSE
SPECIFICATION MCSpec
INVARIANTS
  PathServedOnce
  EndsAgree
  NoGap
PROPERTIES
  SuppliesChannels
CHECK_DEADLOCK FALSE
