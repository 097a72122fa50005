SPECIFICATION Spec
CONSTANTS
  Uids = {u1, u2, u3}
  Rooms = {r1, r2}
  Nobody = Nobody
  Stakes = {3}
  InitGold <- MCInitGold
  Precision = 8
  MaxFaults = 1
  MaxRounds = 2
CHECK_DEADLOCK FALSE
SYMMETRY MCSymmetry
INVARIANTS TypeOK Solvent NoGoldMade BooksAgree
