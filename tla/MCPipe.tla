------------------------------- MODULE MCPipe -------------------------------
(* Model of Pipe.tla for TLC.  p1 created the pipe and forked p2 and p3;   *)
(* p1 kept the write end, p2 the read end, p3 both.  The ring has 3        *)
(* positions (2 usable bytes), so a 3-byte write must wait for the reader  *)
(* and the cursors wrap within one call.                                   *)
EXTENDS Pipe, TLC

CONSTANTS p1, p2, p3

MCProcs == {p1, p2, p3}
MCInitEnds == (p1 :> {"W"}) @@ (p2 :> {"R"}) @@ (p3 :> {"R", "W"})
====
