CONSTANTS
  Shells = {s1, s2}
  Runs = {t1}
  Widgets = {s1, s2, t1}
  NoOne = none
  MaxConnections = 3
  MaxProcesses = 4
  MaxFailures = 1
SPECIFICATION MCSpec
INVARIANTS
  ListedTasksRun
  ShownNotKilled
PROPERTIES
  ShownIsServed
  NoShellLeaks
  TaskCallsSettle
CHECK_DEADLOCK FALSE
