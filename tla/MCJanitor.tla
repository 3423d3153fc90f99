------------------------------- MODULE MCJanitor -------------------------------
(* Small instances of Janitor for TLC. *)
EXTENDS Janitor, TLC

CONSTANTS s1, s2

\* Two rows of each of two scopes, due in an order that crosses them.
CrossedScopes == (1 :> s1) @@ (2 :> s2) @@ (3 :> s2) @@ (4 :> s1)
================================================================================
