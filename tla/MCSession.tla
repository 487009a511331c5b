------------------------------ MODULE MCSession ------------------------------
(* Instances of Session for TLC.                                           *)
EXTENDS Session, TLC

Symmetry == Permutations(Sessions) \cup Permutations(Calls)
=============================================================================
