---------------------------- MODULE MCCommandLine ----------------------------
(* Two operators and one command; documents of up to three steps; a tree of *)
(* two releases in which one file changes.                                  *)
EXTENDS CommandLine, TLC

CONSTANTS a, b, c

Lists == {<<>>, <<a>>, <<a, a>>, <<b, a>>, <<a, b, c>>}

Symmetry == Permutations(Operators) \cup Permutations(Manifests)
=============================================================================
