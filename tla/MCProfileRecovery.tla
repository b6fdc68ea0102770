--------------------------- MODULE MCProfileRecovery ---------------------------
(* ProfileRecovery for TLC.                                                 *)
EXTENDS ProfileRecovery, TLC

Symmetry == Permutations(Edits)

=============================================================================
