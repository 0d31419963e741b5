----------------------------- MODULE MCByteArray -----------------------------
(* Small instances of ByteArray for TLC. *)
EXTENDS ByteArray

\* The empty string and two that end on different sides of a node boundary.
SomeTexts == {<<>>, <<1, 2>>, <<3, 4, 5, 6>>}
==============================================================================
