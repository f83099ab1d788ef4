CONSTANTS
  AutoSaves = {"on", "off"}
  MaxEdits = 2
  MaxForeign = 1
  MaxFailures = 0
  MaxSaves = 1
SPECIFICATION Spec
PROPERTIES
  NoticedBeforeOverwrite
CHECK_DEADLOCK FALSE
