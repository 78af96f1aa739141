--------------------------- MODULE MCRecoveryFence ---------------------------
(* Small instances of RecoveryFence for TLC. *)
EXTENDS RecoveryFence, TLC

Symmetry == Permutations(Holders)
=============================================================================
