CONSTANTS
  AutoSaves = {"on", "off"}
  MaxEdits = 2
  MaxForeign = 2
  MaxFailures = 1
  MaxSaves = 2
SPECIFICATION MCSpec
INVARIANTS
  TextIsFileAndChanges
  UnsavedIsShown
PROPERTIES
  TypedNotOverwritten
  EditsWritten
  ForeignShown
CHECK_DEADLOCK FALSE
