CONSTANTS
  o = o
  Nobody = Nobody
  MaxDomains = 2
  CSlots <- MCCSlots
  Envelopes = {1}
  MaxCapabilities = 6
  Object = o
  Kernel = Nobody
  Rights <- MCRights
  RequestedRights <- MCRequestedRights
  MaxSerials = 5
  MaxGenerations = 0
SPECIFICATION Spec
PROPERTY
  ChargedSlotsStay
CHECK_DEADLOCK FALSE
