SPECIFICATION Spec
CONSTANTS
  Wxids = {x1, x2}
  Ids = {i1, i2, i3, i4}
  Workers = {w1, w2}
  None = None
  MaxFaults = 2
SYMMETRY MCSymmetry
INVARIANTS OneUidEach AccountFound
