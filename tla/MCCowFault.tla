----------------------------- MODULE MCCowFault -----------------------------
(* Model values for CowFault: three process slots, a data page and a     *)
(* code page in the first process, and a pool of physical pages.         *)
EXTENDS CowFault

CONSTANTS p1, p2, p3, v1, v2, x1, x2, x3, x4

MCProcs == {p1, p2, p3}
MCVPages == {v1, v2}
MCPhysPages == {x1, x2, x3, x4}

(* v1 is a data page (writable before fork), v2 a read-only code page.   *)
MCInitPte ==
    [v \in MCVPages |->
        IF v = v1 THEN [ppn |-> x1, writable |-> TRUE, pre_cow_writable |-> TRUE]
                  ELSE [ppn |-> x2, writable |-> FALSE, pre_cow_writable |-> FALSE]]
==============================================================================
