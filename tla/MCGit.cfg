CONSTANTS
  r1 = r1
  r2 = r2
  NoRepo = NoRepo
  Repos = {r1, r2}
  Removable = {r1}
  MaxConnections = 2
  MaxSelects = 2
  MaxChanges = 2
  MaxOperations = 2
  MaxFailures = 1
SPECIFICATION MCSpec
INVARIANTS
  PollingGoesOn
PROPERTIES
  StatusShown
CHECK_DEADLOCK FALSE
