SPECIFICATION ReadingSpec
CONSTANTS
  Senders = {s1, s2}
  Closers = {c1}
  RecvLoop = RecvLoop
  Nobody = Nobody
  SendBuf = 2
  RecvBuf = 1
  Wire = 1
  MaxSent = 5
  MaxRead = 2
INVARIANT NoPanic
PROPERTIES ImplementsPipe TakenArrives CloseEndsLoops LoopsEndTogether
CHECK_DEADLOCK FALSE
