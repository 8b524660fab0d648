------------------------------ MODULE MCWorker ------------------------------
(***************************************************************************)
(* The instances TLC checks.  Workers that have the workflow in their      *)
(* registry differ only in name.                                           *)
(***************************************************************************)
EXTENDS Correctness, TLC

Symmetry == Permutations(Knows)
=============================================================================
