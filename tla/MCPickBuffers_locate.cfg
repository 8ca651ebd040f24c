CONSTANTS
  Stations = {1, 2, 3}
  MinPs = 1
  MaxStations = 3
  MaxKO = 1
  MaxVersions = 2
  NumPBuffs = 2
  MaxIds = 4
  ManyPs = 2
  LargePs = 2
  MaxScavenge = 2
  KOs = {1}
  MaxMsgs = 4
  MaxAsked = 1
SPECIFICATION Spec
INVARIANTS TypeOK UniqueIds
