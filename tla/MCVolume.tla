------------------------------ MODULE MCVolume ------------------------------
(* Small instances of Volume for TLC.                                      *)
EXTENDS Volume, TLC

Symmetry == Permutations(Requests)
=============================================================================
