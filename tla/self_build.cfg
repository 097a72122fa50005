SPECIFICATION Spec
CONSTANTS
  Uids = {u1, u2}
  None = None
  SeatNum = 2
  TotalNumberOfGame = 2
  Modes <- MCAllModes
  RoomCap = 1
  PlayerCap = 1
  TimerCap = 1
  MaxObjects = 2
  MaxRooms = 1
  MaxInFlight = 1
SYMMETRY MCSymmetry
INVARIANTS TypeOK OnePlace AllRoundsPlayed
CHECK_DEADLOCK FALSE
