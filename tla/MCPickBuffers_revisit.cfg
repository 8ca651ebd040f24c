CONSTANTS
  Stations = {1, 2}
  MinPs = 1
  MaxStations = 3
  MaxKO = 1
  MaxVersions = 3
  NumPBuffs = 3
  MaxIds = 6
  ManyPs = 2
  LargePs = 2
  MaxScavenge = 2
  KOs = {0, 1}
  MaxMsgs = 3
  MaxAsked = 3
SPECIFICATION FairSpec
PROPERTIES Revisited Settles ManualKept
