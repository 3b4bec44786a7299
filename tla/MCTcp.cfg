CONSTANTS
  Modulus = 16
  Ring = 2
  Mss = 1
  MaxRetransmits = 2
  MaxSynAck = 1
  NetBound = 1
  Plays <- TcpPlays
SPECIFICATION FairSpec
 
PROPERTIES
  ImplementsStream
  Completes
  AllEnd
CHECK_DEADLOCK FALSE
