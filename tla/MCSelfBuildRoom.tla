---------------------------- MODULE MCSelfBuildRoom ----------------------------
(* Values for the constants of SelfBuildRoom.                                *)
EXTENDS SelfBuildRoom, TLC

MCAllModes == [faster : BOOLEAN, joinLate : BOOLEAN]

MCSymmetry == Permutations(Uids)
=============================================================================
