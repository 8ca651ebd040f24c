CONSTANTS
  SendQueueLen = 2
  RingSize = 2
  MaxMsgs = 3
  MaxBreaks = 2
SPECIFICATION FairSpec
INVARIANTS TypeOK NoneForgotten
PROPERTIES FirstInOrder Progress
