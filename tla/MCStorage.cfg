CONSTANTS
  Names = {"a", "b"}
  Inodes = {0, 1, 2}
  InodesPerBlock = 2
  DataBlocks = 4
  MaxStaged = 8
  Direct = 1
  TableSlots = 2
  PerBlock = 2
  RunBlocks = 2
  Plays <- AllPlays
  Parts = {"volume", "boot"}
SPECIFICATION MCSpec
INVARIANTS  Durable OwnBytes
PROPERTIES GenerationsGrow RecoveryEnds 
CHECK_DEADLOCK FALSE
