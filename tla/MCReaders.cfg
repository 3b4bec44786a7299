CONSTANTS
  Threads = {"t1", "t2"}
  Slots = 4
  Headroom = 1
  PerBlock = 2
  FlushEvery = 2
  Plays <- AuditPlays
SPECIFICATION MCSpec
INVARIANTS
  ReadersInv
  TamperShown
PROPERTIES
  LogDrains
  Served
CHECK_DEADLOCK FALSE
