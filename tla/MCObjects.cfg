CONSTANTS
  o1 = o1
  d1 = d1
  Kernel = Kernel
  MaxCapabilities = 3
  Objects = {o1}
  OtherRights = {}
  RequestedRights <- MCRequestedRights
  MaxBadge = 0
  Owners = {d1}
  GenerationSpan = 6
  MaxSerials = 4
  Parts = {"arena", "memory"}
  Plays <- MemoryPlays
SPECIFICATION MCSpec
INVARIANTS
  ArenaInv
  NoStaleReference
  RevocationComplete
  TallyExact
  MemoryInv
PROPERTIES
  ObjectDeathReachesAllNames
  ImplementsTree
  RevocationTerminates
  CallsReturn
CHECK_DEADLOCK FALSE
