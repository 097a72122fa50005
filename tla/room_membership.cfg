SPECIFICATION Spec
CONSTANTS
  Uids = {u1, u2}
  Nobody = Nobody
  SeatNum = 2
  RoomCap = 1
  PlayerCap = 1
  HeapSize = 10
  KnownCard = FALSE
  RobRates = {1}
  BetRates = {1}
  Bet1 = 1
  MapWaitTime <- MCOneTick
  MaxWait = 1
  MaxGap = 1
  MaxHand = 5
  MaxInFlight = 2
  MaxStale = 1
  Requests <- MCSeatRequests
SYMMETRY MCSymmetry
INVARIANTS SeatsAgree NoGhostSeats PreparedAreSeated
PROPERTIES SeatKept PointerKept
