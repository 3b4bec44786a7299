CONSTANTS
  Names = {"a", "b"}
  Inodes = {0, 1, 2}
  InodesPerBlock = 2
  DataBlocks = 4
  MaxStaged = 8
  Direct = 1
  TableSlots = 2
  PerBlock = 2
  RunBlocks = 2
  Plays <- GrowAndStop
  Parts = {"volume"}
SPECIFICATION MCSpec
INVARIANT CrashOnlyLeaks
CHECK_DEADLOCK FALSE
