--------------------------- MODULE MCInstanceTree ---------------------------
(* Bounds for checking InstanceTree: instances of a class and names are    *)
(* interchangeable.                                                        *)
EXTENDS InstanceTree, TLC
Symmetry == Permutations(Parts) \cup Permutations(Cameras)
              \cup Permutations(Others) \cup Permutations(Names)
=============================================================================
