------------------------------ MODULE MCJournal ------------------------------
(* Small instances of Journal for TLC. *)
EXTENDS Journal, TLC

\* Writers, event ids and runs are interchangeable.
Symmetry == Permutations(Writers) \cup Permutations(EventIds) \cup Permutations(Runs)
=============================================================================
