------------------------------ MODULE CowFault ------------------------------
(***************************************************************************)
(* Copy-on-write sharing of physical pages between processes, and the     *)
(* write-fault resolver of kernel/trap.c that breaks it.                  *)
(*                                                                         *)
(*   pte[p][v]   the vpage_info of virtual page v of process p: ppn,      *)
(*               writable, and pre_cow_writable (whether the page was     *)
(*               writable before fork made it copy-on-write).  A page    *)
(*               with ppn = NoPage is not present/used.                   *)
(*   ref[x]      ref_count of the core-map entry of physical page x.      *)
(*   allocated   the physical pages kalloc has handed out and kfree has   *)
(*               not taken back.                                           *)
(*   fpc[p]      "copied" between the unlocked kalloc + memmove of a      *)
(*               fault and its cmap_lock section, with fv[p] the faulting *)
(*               page and fnew[p] the new page.                           *)
(*                                                                         *)
(* vspacecopy (fork) and vspacefree (exit) are in vspace.c, which is not  *)
(* part of this repository; they are modelled from the specification:     *)
(* fork shares every present page, raising its ref_count and making both  *)
(* mappings read-only; exit drops each mapping's count and frees a page   *)
(* whose count reaches zero.  kalloc is taken to return a page with       *)
(* ref_count 1.                                                           *)
(***************************************************************************)
EXTENDS Integers, FiniteSets

CONSTANTS Procs,      \* process slots
          InitProc,   \* the first process, which never exits
          VPages,     \* virtual pages of a process
          PhysPages,  \* physical pages kalloc may hand out
          NoPage,
          InitPte     \* the first process's page table

VARIABLES pte, ref, allocated, alive, killed, fpc, fv, fnew, panicked

vars == <<pte, ref, allocated, alive, killed, fpc, fv, fnew, panicked>>

Absent == [ppn |-> NoPage, writable |-> FALSE, pre_cow_writable |-> FALSE]

Init ==
    /\ pte = [p \in Procs |-> IF p = InitProc THEN InitPte ELSE [v \in VPages |-> Absent]]
    /\ allocated = {InitPte[v].ppn : v \in {w \in VPages : InitPte[w].ppn # NoPage}}
    /\ ref = [x \in PhysPages |-> IF x \in allocated THEN 1 ELSE 0]
    /\ alive = [p \in Procs |-> p = InitProc]
    /\ killed = [p \in Procs |-> FALSE]
    /\ fpc = [p \in Procs |-> "none"]
    /\ fv = [p \in Procs |-> CHOOSE v \in VPages : TRUE]
    /\ fnew = [p \in Procs |-> NoPage]
    /\ panicked = FALSE

Present(p, v) == pte[p][v].ppn # NoPage
FreePages == PhysPages \ allocated

(* A process that can run: in use, not killed, not inside a fault.       *)
Ready(p) == alive[p] /\ ~killed[p] /\ fpc[p] = "none" /\ ~panicked

(* vspacecopy: the child shares every present page read-only.  Each     *)
(* shared page gains one reference.                                       *)
fork(p, c) ==
    /\ Ready(p)
    /\ ~alive[c]
    /\ LET ro == [v \in VPages |-> [pte[p][v] EXCEPT !.writable = FALSE]]
           shared == {pte[p][v].ppn : v \in {w \in VPages : Present(p, w)}}
           n(x) == Cardinality({v \in VPages : pte[p][v].ppn = x})
       IN /\ pte' = [pte EXCEPT ![p] = ro, ![c] = ro]
          /\ ref' = [x \in PhysPages |-> IF x \in shared THEN ref[x] + n(x) ELSE ref[x]]
    /\ alive' = [alive EXCEPT ![c] = TRUE]
    /\ killed' = [killed EXCEPT ![c] = FALSE]
    /\ UNCHANGED <<allocated, fpc, fv, fnew, panicked>>

(* vspacefree at exit (a killed process exits at its next return to user *)
(* space): every present page loses a reference and is freed at zero.    *)
exit(p) ==
    /\ alive[p] /\ fpc[p] = "none" /\ ~panicked
    /\ p # InitProc
    /\ LET n(x) == Cardinality({v \in VPages : pte[p][v].ppn = x})
           ref2 == [x \in PhysPages |-> ref[x] - n(x)]
       IN /\ ref' = ref2
          /\ allocated' = allocated \ {x \in PhysPages : n(x) > 0 /\ ref2[x] = 0}
    /\ pte' = [pte EXCEPT ![p] = [v \in VPages |-> Absent]]
    /\ alive' = [alive EXCEPT ![p] = FALSE]
    /\ UNCHANGED <<killed, fpc, fv, fnew, panicked>>

(* The validity test both fault paths start with: the faulting address   *)
(* lies in a used, present page that was writable before fork.           *)
CowValid(p, v) == Present(p, v) /\ pte[p][v].pre_cow_writable

(* Mutant: the kalloc result is used without the !mem test.              *)
CowCopyNoNullCheck(p, v, panic) ==
    /\ Ready(p)
    /\ Present(p, v) /\ ~pte[p][v].writable
    /\ \/ /\ ~CowValid(p, v)
          /\ killed' = [killed EXCEPT ![p] = TRUE]
          /\ panicked' = panic
          /\ UNCHANGED <<ref, allocated, fpc, fv, fnew>>
       \/ /\ CowValid(p, v)
          /\ \E x \in IF FreePages = {} THEN {NoPage} ELSE FreePages :
               /\ allocated' = (allocated \cup {x}) \cap PhysPages
               /\ ref' = IF x \in PhysPages THEN [ref EXCEPT ![x] = 1] ELSE ref
               /\ fnew' = [fnew EXCEPT ![p] = x]
          /\ fpc' = [fpc EXCEPT ![p] = "copied"]
          /\ fv' = [fv EXCEPT ![p] = v]
          /\ UNCHANGED <<killed, panicked>>
    /\ UNCHANGED <<pte, alive>>

(* kalloc and the unlocked memmove of a fault: the new page is taken and *)
(* the old page, pte[p][v].ppn, is read.  With panic the kernel-mode      *)
(* path (err == 3), where an unresolved fault ends in panic("trap");      *)
(* without it the user-mode path (err == 7), which kills a misbehaving    *)
(* process and leaves a fault whose kalloc failed to be taken again.     *)
CowCopy(p, v, panic) ==
    /\ Ready(p)
    /\ Present(p, v) /\ ~pte[p][v].writable
    /\ \/ /\ ~CowValid(p, v)
          /\ killed' = [killed EXCEPT ![p] = TRUE]
          /\ panicked' = panic
          /\ UNCHANGED <<ref, allocated, fpc, fv, fnew>>
       \/ /\ CowValid(p, v)
          /\ FreePages = {}
          /\ panic
          /\ panicked' = TRUE
          /\ UNCHANGED <<ref, allocated, killed, fpc, fv, fnew>>
       \/ /\ CowValid(p, v)
          /\ \E x \in FreePages :
               /\ allocated' = allocated \cup {x}
               /\ ref' = [ref EXCEPT ![x] = 1]
               /\ fnew' = [fnew EXCEPT ![p] = x]
          /\ fpc' = [fpc EXCEPT ![p] = "copied"]
          /\ fv' = [fv EXCEPT ![p] = v]
          /\ UNCHANGED <<killed, panicked>>
    /\ UNCHANGED <<pte, alive>>

(* Mutant: the page is freed when one sharer is still left.             *)
CowReleaseFreeAtOne(p) ==
    /\ fpc[p] = "copied"
    /\ LET v == fv[p]
           old == pte[p][v].ppn
       IN /\ ref' = [ref EXCEPT ![old] = @ - 1]
          /\ allocated' = IF ref[old] - 1 <= 1 THEN allocated \ {old} ELSE allocated
          /\ pte' = [pte EXCEPT ![p][v].ppn = fnew[p], ![p][v].writable = TRUE]
    /\ fpc' = [fpc EXCEPT ![p] = "none"]
    /\ fnew' = [fnew EXCEPT ![p] = NoPage]
    /\ UNCHANGED <<alive, killed, fv, panicked>>

(* Mutant: the kfree at a zero count is missing.                         *)
CowReleaseNoKfree(p) ==
    /\ fpc[p] = "copied"
    /\ LET v == fv[p]
           old == pte[p][v].ppn
       IN /\ ref' = [ref EXCEPT ![old] = @ - 1]
          /\ pte' = [pte EXCEPT ![p][v].ppn = fnew[p], ![p][v].writable = TRUE]
    /\ fpc' = [fpc EXCEPT ![p] = "none"]
    /\ fnew' = [fnew EXCEPT ![p] = NoPage]
    /\ UNCHANGED <<alive, killed, fv, panicked, allocated>>

(* The cmap_lock section of a fault and the remap after it: the old      *)
(* page's ref_count is decremented and the page freed at zero; then the  *)
(* faulting page points at the new page and becomes writable.            *)
CowRelease(p) ==
    /\ fpc[p] = "copied"
    /\ LET v == fv[p]
           old == pte[p][v].ppn
       IN /\ ref' = [ref EXCEPT ![old] = @ - 1]
          /\ allocated' = IF ref[old] - 1 = 0 THEN allocated \ {old} ELSE allocated
          /\ pte' = [pte EXCEPT ![p][v].ppn = fnew[p], ![p][v].writable = TRUE]
    /\ fpc' = [fpc EXCEPT ![p] = "none"]
    /\ fnew' = [fnew EXCEPT ![p] = NoPage]
    /\ UNCHANGED <<alive, killed, fv, panicked>>

(* err == 3: a write by the kernel to a read-only user page.             *)
trap_err3(p, v) == CowCopy(p, v, TRUE)

(* err == 7: a write by the process to a read-only page.                 *)
trap_err7(p, v) == CowCopy(p, v, FALSE)

Next ==
    \/ \E p, c \in Procs : fork(p, c)
    \/ \E p \in Procs : exit(p)
    \/ \E p \in Procs, v \in VPages : trap_err3(p, v) \/ trap_err7(p, v)
    \/ \E p \in Procs : CowRelease(p)

Spec == Init /\ [][Next]_vars

-----------------------------------------------------------------------------
Mappings(x) == Cardinality({<<p, v>> \in Procs \X VPages : pte[p][v].ppn = x})
InFlight(x) == Cardinality({p \in Procs : fpc[p] = "copied" /\ fnew[p] = x})

TypeOK ==
    /\ pte \in [Procs -> [VPages -> [ppn : PhysPages \cup {NoPage},
                                     writable : BOOLEAN,
                                     pre_cow_writable : BOOLEAN]]]
    /\ ref \in [PhysPages -> Nat]
    /\ allocated \subseteq PhysPages
    /\ fpc \in [Procs -> {"none", "copied"}]
    /\ \A p \in Procs : fpc[p] = "copied" => fnew[p] \in PhysPages

(* No process maps a page that kfree has taken back: a COW fault frees   *)
(* the old page only when its own decrement is the last, so every other  *)
(* sharer, whether it is mid-fault, forking or exiting, still maps a     *)
(* page that is allocated.                                                *)
NoFreedPageMapped ==
    \A p \in Procs, v \in VPages :
        Present(p, v) => pte[p][v].ppn \in allocated

(* The core map counts exactly the mappings of each physical page, plus  *)
(* the fault that has kalloc'd it and not yet mapped it, and a page is   *)
(* allocated exactly while that count is positive: forks, exits and the  *)
(* two halves of concurrent faults on the same page neither lose nor     *)
(* leak a reference.                                                      *)
CorePageAccounting ==
    \A x \in PhysPages :
        /\ ref[x] = Mappings(x) + InFlight(x)
        /\ (x \in allocated) = (ref[x] > 0)
==============================================================================
