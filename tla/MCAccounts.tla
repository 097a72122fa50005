------------------------------ MODULE MCAccounts ------------------------------
(* Values for the constants of Accounts.                                     *)
EXTENDS Accounts, TLC

\* Users, numbers and workers are each interchangeable.
MCSymmetry == Permutations(Wxids) \cup Permutations(Ids) \cup Permutations(Workers)
=============================================================================
