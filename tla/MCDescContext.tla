--------------------------- MODULE MCDescContext ---------------------------
(* Instances of DescContext for TLC. *)
EXTENDS DescContext

\* "ab", and "c" with a character outside the basic plane.
MCStrings == {<<97, 98>>, <<99, 55357, 56832>>}
MCPacketSizes == {8, 64}
=============================================================================
