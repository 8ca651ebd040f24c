CONSTANTS
  MyMaxElements = 2
  MaxRead = 3
  MaxBoots = 2
  DelayTime = TRUE
  DumpFails = {"open", "write", "close"}
  MallocFails = TRUE
  Messages <- Triggers
  Oversize = {}
  NULL = NULL
SPECIFICATION FairSpec
CHECK_DEADLOCK FALSE
INVARIANTS TypeOK SavedUnlessFull InOrderOnce NoneTooYoung
PROPERTY BegunOrPushedOut
