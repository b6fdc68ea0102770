---------------------------- MODULE MCRoamingSync ----------------------------
(* RoamingSync for TLC: replica ids are numbers (they are ordered), card,  *)
(* column and rank ids are model values, which the specification only      *)
(* compares for equality, so they may be permuted.                         *)
EXTENDS RoamingLifecycle, TLC

Symmetry == Permutations(Cards) \cup Permutations(Ranks)

=============================================================================
