------------------------------ MODULE MCFiles -------------------------------
(* Files for TLC: paths and contents are interchangeable.                  *)
EXTENDS Files, TLC

Symmetry == Permutations(Paths) \cup Permutations(Contents)

=============================================================================
