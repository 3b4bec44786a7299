CONSTANTS
  b0 = b0
  b1 = b1
  w1 = w1
  w2 = w2
  r1 = r1
  r2 = r2
  r3 = r3
  NoThread = NoThread
  Cpus <- MCCpus
  Slots <- MCSlots
  Threads = {b0, b1, w1, w2, r1, r2, r3}
  Layouts <- MCLayouts
  Rank <- MCRank
  Utilisation <- MCUtilisation
  RtCap = 95
  Pinned = {b0, b1}
  Blockers = {b1, w1}
  Exiters = {w2, r1, r2}
  Killable = {w1}
  Spawners = {b0}
  SpawnRemote = FALSE
  StealImbalance = 2
SPECIFICATION Spec
INVARIANTS
  RunQueueInv
  AskedFor
  WakeFinds
