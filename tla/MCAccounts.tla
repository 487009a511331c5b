------------------------------ MODULE MCAccounts ------------------------------
(* Instances of Accounts for TLC.                                          *)
EXTENDS Accounts, TLC

Symmetry == Permutations(Sessions) \cup Permutations(Calls) \cup Permutations(Rivals)
=============================================================================
