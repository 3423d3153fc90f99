----------------------------- MODULE MCMemoryStore -----------------------------
(* Small instances of MemoryStore for TLC. *)
EXTENDS MemoryStore, TLC

CONSTANTS a, b, x, y

\* Documents at three depths, the deeper two below one directory.
TreePaths == {<<a>>, <<b, a>>, <<b, b, a>>}
RootPath == {<<a>>}
OneByte == {<<x>>}
OneOrTwoBytes == {<<x>>, <<x, y>>}
KeySymmetry == Permutations(Keys)
================================================================================
