---------------------------- MODULE MCMemoryBrowser ----------------------------
(* A small instance of MemoryBrowser. *)
EXTENDS MemoryBrowser

CONSTANTS p1, p2
=============================================================================
