------------------------------ MODULE MCSignal ------------------------------
(* Bounds for checking Signal: ephemeral threads are interchangeable.      *)
EXTENDS Signal, TLC
Symmetry == Permutations(Ephemerals)
=============================================================================
