CONSTANTS
  t1 = t1
  t2 = t2
  t3 = t3
  o = o
  Nobody = Nobody
  MaxDomains = 3
  Threads = {t1, t2, t3}
  Beginnings <- MCBeginnings
  MaxCreated = 2
SPECIFICATION MCSpec
INVARIANTS
  DomainsInv
  ChargedForSlots
PROPERTIES
  EmptyDomainEnds
  DyingThreadsFinish
CHECK_DEADLOCK FALSE
