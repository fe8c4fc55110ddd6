------------------------------ MODULE MCStream ------------------------------
(* Instances of Stream for TLC.                                            *)
EXTENDS Stream, TLC

CONSTANTS g1, g2

Symmetry == Permutations(Goroutines)
=============================================================================
