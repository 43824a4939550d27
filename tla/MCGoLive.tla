------------------------------ MODULE MCGoLive ------------------------------
(* Small instances of GoLive.                                              *)
EXTENDS GoLive, TLC

CONSTANTS p1, tag1, r1, k1, k2

(* Passes differ only by name.                                             *)
Symmetry == Permutations(Passes)
=============================================================================
