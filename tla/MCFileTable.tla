---------------------------- MODULE MCFileTable ----------------------------
(* FileTable with three process slots and two pipe pages as model values. *)
EXTENDS FileTable, TLC

CONSTANTS p1, p2, p3, k1, k2

MCProcs == {p1, p2, p3}
MCPipePages == {k1, k2}
NoPages == {}
=============================================================================
