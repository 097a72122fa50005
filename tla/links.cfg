SPECIFICATION LinkFairSpec
CONSTANTS
  Links = {l1, l2, l3}
  None = None
  MaxFaults = 3
INVARIANTS EntriesLive PingedIsRegistered
PROPERTY LinkRestored
CHECK_DEADLOCK FALSE
