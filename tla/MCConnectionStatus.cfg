CONSTANTS
  offlineTimeout = 50
  PingDelay = 40
  MaxLatency = 9
  MaxPings = 3
SPECIFICATION FairSpec
INVARIANTS
  FollowsSilence
PROPERTIES
  NoFalseAlarm
  BackOnline
