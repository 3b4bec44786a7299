CONSTANTS
  Modulus = 16
  Ring = 2
  Mss = 1
  MaxRetransmits = 2
  MaxSynAck = 1
  NetBound = 1
  Plays <- OneLoss
SPECIFICATION Spec
INVARIANT OwedIsTimed
CHECK_DEADLOCK FALSE
