CONSTANTS
  MaxChild = 3
  FirstChildren = 2
  MaxPid = 4
  Readers = {"startstop", "ew_controller"}
  Rings = {1}
  OpRing = 1
  BeatRing = 1
  Heard = {1}
  LastRing = 1
  Statmgr = 1
  ForkFails = TRUE
  BadConfig = FALSE
  MaxOrders = 1
  MaxDeaths = 1
  MaxAsked = 1
  MaxUnread = 0
SPECIFICATION FairSpec
PROPERTY Obeyed
CHECK_DEADLOCK FALSE
INVARIANTS TypeOK NamedUnlessShifted
