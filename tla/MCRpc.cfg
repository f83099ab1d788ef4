CONSTANTS
  Hosts = {h1, h2}
  Browser = browser
  NoHost = none
  UsesHostId = TRUE
  Kinds = {"finite", "untilCancelled", "unknown"}
  Busy = h1
  MaxCalls <- MCMaxCalls
  Mortal = {h1}
SPECIFICATION MCSpec
INVARIANTS
  PendingIsSomewhere
  CancelReachesHandler
  SettledByOwnCall
PROPERTIES
  RemoteCallSpec
  CallSettles
CHECK_DEADLOCK FALSE
