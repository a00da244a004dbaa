---------------------------- MODULE MCFileSystem ----------------------------
(* FileSystem with two processes, two names and three creatable inodes.  *)
EXTENDS FileSystem, TLC

CONSTANTS a, b, n1, n2

MCProcs == {a, b}
MCNames == {n1, n2}
=============================================================================
