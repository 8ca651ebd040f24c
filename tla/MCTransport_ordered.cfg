CONSTANTS
  p1 = p1
  p2 = p2
  g1 = g1
  a = a
  b = b
  WILD = WILD
  Putters = {p1}
  Getters = {g1}
  Logos = {a, b}
  PutLogos <- OnePutter
  Requests <- AskAll
  Lens = {1, 2}
  Looks = {TRUE, FALSE}
  MaxSize = 1
  HDR = 1
  KeyMax = 6
  WordMod = 64
  SeqMod = 4
  NTrackPut = 2
  NTrackGet = 2
  MaxMsgs = 4
  MaxKills = 0
SPECIFICATION Spec
INVARIANTS TypeOK DeliveredIntact NoGetterExit InPutOrder MissExact
PROPERTIES ImplementsLog
SYMMETRY Symmetry
