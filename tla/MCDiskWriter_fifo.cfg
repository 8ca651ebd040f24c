CONSTANTS
  MyMaxElements = 3
  MaxPackets = 8
  Messages <- Packets
  Oversize = {}
  NULL = NULL
SPECIFICATION FairSpec
CHECK_DEADLOCK FALSE
INVARIANTS TypeOK DropsCounted
PROPERTIES ImplementsFifo TakenOrDropped
