CONSTANTS
  c1 = c1
  c2 = c2
  s1 = s1
  s2 = s2
  Nobody = Nobody
  Callers = {c1, c2}
  Servers = {s1, s2}
  MaxEndpoints = 1
  MaxQueued = 1
  MaxCalls = 3
  Plays <- MCPlays
SPECIFICATION MCSpec
INVARIANTS
  WaitingInv
  AnswersTheCall
  AtLeast
PROPERTIES
  CallReturns
  DestroyReleases
  EveryItemTaken
CHECK_DEADLOCK FALSE
