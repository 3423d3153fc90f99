---------------------------- MODULE MCMemoryReaders ----------------------------
(* Small instances of MemoryReaders for TLC. *)
EXTENDS MemoryReaders

CONSTANTS a, b, x

\* A document in the root directory and one in a directory below it.
TwoPaths == {<<a>>, <<b, a>>}
OneByte == {<<x>>}
================================================================================
