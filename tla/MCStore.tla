------------------------------ MODULE MCStore ------------------------------
(* Store for TLC: downloads are interchangeable.                            *)
EXTENDS Store, TLC

Symmetry == Permutations(Downloads)
=============================================================================
