------------------------------ MODULE DocumentMap ------------------------------
(***************************************************************************)
(* What the memory store promises to the callers of ports/store.py: a map  *)
(* from paths to documents, where a write adds one to the version and a    *)
(* delete makes the path absent.                                           *)
(***************************************************************************)
EXTENDS Integers, Sequences, SequencesExt

CONSTANT Paths

VARIABLE docs

\* A path holds one document or none; the version a write would give it.
Present(path) == docs[path] # {}
NextVersions(path) == IF Present(path) THEN {old.version + 1 : old \in docs[path]} ELSE {1}

\* One document changes in a step, and a document is not a directory.
Others(path) == \A other \in Paths \ {path} : docs'[other] = docs[other]

Init == docs = [path \in Paths |-> {}]

Put(path) ==
  /\ {new.version : new \in docs'[path]} = NextVersions(path)
  /\ \A other \in Paths : IsStrictPrefix(other, path) => ~Present(other)
  /\ Others(path)

Erase(path) ==
  /\ Present(path)
  /\ docs'[path] = {}
  /\ Others(path)

Next == \E path \in Paths : Put(path) \/ Erase(path)

Spec == Init /\ [][Next]_docs

\* A document and a directory never share a name.
PrefixFree ==
  \A path, other \in Paths :
    Present(path) /\ Present(other) => ~IsStrictPrefix(path, other)
================================================================================
