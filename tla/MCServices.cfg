CONSTANTS
  Handles = {h1, h2}
  NoHandle = none
  Missing = {h2}
  MaxRestarts = 1
  MaxConnections = 2
  MaxSessions = 2
  MaxStops = 2
SPECIFICATION MCSpec
INVARIANTS
  TypesOK
  NoneForgotten
  MappedToOwn
  ClosedServersSilent
PROPERTIES
  HeldIsWatched
  EndedIsDestroyed
  NoAdapterLeaks
CHECK_DEADLOCK FALSE
