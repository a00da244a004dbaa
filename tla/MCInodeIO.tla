------------------------------ MODULE MCInodeIO ------------------------------
(* InodeIO with three processes.  MCEntryOf: a and b share entry e1, as  *)
(* after fork or dup, and c has its own entry e2, as after a second      *)
(* sys_open.  MCEntryOfOwn: every process opened the file itself.        *)
EXTENDS InodeIO, TLC

CONSTANTS a, b, c, e1, e2, e3

MCProcs == {a, b, c}
MCEntries == {e1, e2, e3}
MCEntryOf == (a :> e1) @@ (b :> e1) @@ (c :> e2)
MCEntryOfOwn == (a :> e1) @@ (b :> e2) @@ (c :> e3)
==============================================================================
