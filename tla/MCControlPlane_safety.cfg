CONSTANTS
  MaxChild = 3
  FirstChildren = 2
  MaxPid = 4
  Readers = {"startstop", "statmgr"}
  Rings = {1}
  OpRing = 1
  BeatRing = 1
  Heard = {1}
  LastRing = 1
  Statmgr = 1
  Monitored = {2}
  RestartMe = {2}
  ForkFails = TRUE
  BadConfig = TRUE
  Asked = {"restart", "stop", "reqstatus", "reconfig", "pau", "quit"}
  MaxOrders = 2
  MaxDeaths = 1
  MaxUnread = 0
SPECIFICATION Spec
CHECK_DEADLOCK FALSE
INVARIANTS TypeOK OneProcess
PROPERTIES StaysStopped
