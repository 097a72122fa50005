----------------------------- MODULE MCSettlement -----------------------------
(* Values for the constants of Settlement.                                   *)
EXTENDS Settlement, TLC

MCInitGold == {-1, 4}

MCSymmetry == Permutations(Uids) \cup Permutations(Rooms)
=============================================================================
