SPECIFICATION Spec
CONSTANTS
  Uids = {u1, u2}
  Nobody = Nobody
  SeatNum = 2
  RoomCap = 1
  PlayerCap = 1
  HeapSize = 10
  KnownCard = TRUE
  RobRates = {1}
  BetRates = {1}
  Bet1 = 1
  MapWaitTime <- MCWaitTime
  MaxWait = 2
  MaxGap = 1
  MaxHand = 6
  MaxStale = 0
  MaxInFlight = 1
  Requests <- MCRoundRequests
SYMMETRY MCSymmetry
INVARIANTS TypeOK EnoughCards BetsComplete
