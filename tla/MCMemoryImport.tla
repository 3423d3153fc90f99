----------------------------- MODULE MCMemoryImport -----------------------------
(* A small instance of MemoryImport; the attempts are alike. *)
EXTENDS MemoryImport, TLC

CONSTANTS a1, a2, o1

Alike == Permutations(Attempts)
=============================================================================
