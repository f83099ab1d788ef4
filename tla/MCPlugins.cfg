CONSTANTS
  b1 = b1
  b2 = b2
  f1 = f1
  start = start
  first = first
  second = second
  Plugins = {b1, b2, f1}
  Frontend = {f1}
  Files = {b2, f1}
  Deploys = {start, first, second}
  Wanted <- MCWanted
  Startup = start
  MaxConnections = 3
  MaxFailures = 1
SPECIFICATION MCSpec
INVARIANTS
  StoppedFirst
  DeployedAtEnd
PROPERTIES
  HostsEnd
  LoadsDeployed
CHECK_DEADLOCK FALSE
