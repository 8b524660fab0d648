------------------------------ MODULE MCGather ------------------------------
(* Neither the names of the workers nor those of the results matter. *)
EXTENDS Gather, TLC

Symmetry == Permutations(Workers) \cup Permutations(Results)
=============================================================================
