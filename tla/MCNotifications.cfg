CONSTANTS
  t1 = t1
  t2 = t2
  h1 = h1
  p1 = p1
  p2 = p2
  NoThread = NoThread
  Threads = {t1, t2}
  Handlers = {h1}
  DeferredSlots = 2
  Plays <- MCPlays
  MaxDestroys = 1
SPECIFICATION MCSpec

  
PROPERTIES
  
  WaiterLeaves
  SlotsDrain
CHECK_DEADLOCK FALSE
