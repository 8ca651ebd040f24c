CONSTANTS
  p1 = p1  p2 = p2  g1 = g1  a = a  b = b  WILD = WILD
  Putters = {p1}
  Getters = {g1}
  Logos = {a}
  PutLogos <- OnePutter
  Requests <- AskAll
  Lens = {1, 2}
  Looks = {TRUE}
  MaxSize = 2
  HDR = 1
  KeyMax = 5
  WordMod = 15
  SeqMod = 1
  NTrackPut = 1
  NTrackGet = 3
  MaxMsgs = 6
  MaxKills = 1
SPECIFICATION Spec
INVARIANT RingIntact
PROPERTIES KeyoutPutBack
CHECK_DEADLOCK FALSE
