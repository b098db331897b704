------------------------------ MODULE MCLines ------------------------------
(* Instances of Lines for TLC.                                              *)
EXTENDS Lines, TLC

Symm == Permutations(Ids) \cup Permutations(Nodes) \cup Permutations(Savers)
=============================================================================
