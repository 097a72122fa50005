SPECIFICATION FairSpec
CONSTANTS
  c1 = c1
  c2 = c2
  Conns = {c1, c2}
  None = None
  NiuniuId = 401
  MaxInFlight = 2
  MaxRequests = 5
INVARIANTS AdmissionOrder BoundIsKnown
PROPERTIES GoneIsHeard
CHECK_DEADLOCK FALSE
