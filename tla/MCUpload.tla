------------------------------ MODULE MCUpload ------------------------------
(* Instances of Upload for TLC.                                            *)
EXTENDS Upload, TLC

Symmetry == Permutations(Jobs) \cup Permutations(Calls)
=============================================================================
