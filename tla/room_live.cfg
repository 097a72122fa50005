SPECIFICATION FairSpec
CONSTANTS
  Uids = {u1, u2}
  Nobody = Nobody
  SeatNum = 2
  RoomCap = 1
  PlayerCap = 1
  HeapSize = 10
  KnownCard = FALSE
  RobRates = {1}
  BetRates = {1}
  Bet1 = 1
  MapWaitTime <- MCLiveWait
  MaxWait = 2
  MaxGap = 1
  MaxHand = 6
  MaxStale = 0
  MaxInFlight = 1
  Requests <- MCLiveRequests
PROPERTIES RefinesRound RoundEnds DropoutCleared
