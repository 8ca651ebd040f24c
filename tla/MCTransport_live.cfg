CONSTANTS
  p1 = p1  p2 = p2  g1 = g1  a = a  b = b  WILD = WILD
  Putters = {p1, p2}
  Getters = {g1}
  Logos = {a, b}
  PutLogos <- OneOrAll
  Requests <- AskAll
  Lens = {0}
  Looks = {FALSE}
  MaxSize = 1
  HDR = 1
  KeyMax = 2
  WordMod = 64
  SeqMod = 4
  NTrackPut = 1
  NTrackGet = 3
  MaxMsgs = 3
  MaxKills = 1
SPECIFICATION FairSpec
INVARIANT MutualExclusion
PROPERTIES PutReturns GetReturns GotOrOverwritten
CHECK_DEADLOCK FALSE
