---------------------------- MODULE MCMemoryClients ----------------------------
(* Small instances of MemoryClients for TLC. *)
EXTENDS MemoryClients, TLC

CONSTANTS a, x

RootPath == {<<a>>}
OneText == {<<x>>}
ClientSymmetry == Permutations(Clients)
================================================================================
