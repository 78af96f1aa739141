---------------------------- MODULE MCReceiptBundle ----------------------------
(* Small instances of ReceiptBundle for TLC. *)
EXTENDS ReceiptBundle, TLC

Symmetry == Permutations(Callers)
=============================================================================
