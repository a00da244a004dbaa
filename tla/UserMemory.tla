----------------------------- MODULE UserMemory -----------------------------
(***************************************************************************)
(* The user address space above the code: the heap that sys_sbrk grows    *)
(* and shrinks (kernel/sysproc.c), the user stack that the not-present    *)
(* fault handler grows downwards (kernel/trap.c, err 4/5/6), and the      *)
(* fields fork (kernel/proc.c) and exec (kernel/sysfile.c) set or leave.  *)
(*                                                                         *)
(* Addresses are integers of a W-bit machine scaled down from the real   *)
(* one: SZ_2G = 2^(W-1) is the top of user memory and INT_MAX + 1, as    *)
(* 2^31 is for the 32-bit int of the code, so the int sums of sys_sbrk   *)
(* wrap exactly where the real ones do.  A page is PGSIZE bytes; the     *)
(* code's literal 4095 is PGSIZE - 1.  Mapped pages are page numbers.    *)
(*                                                                         *)
(* vregionaddmap, vregiondelmap, vspacecopy and vspaceinitstack are in    *)
(* vspace.c, outside this repository, and modelled from the spec:        *)
(* addmap maps the not-yet-used pages a byte range touches and fails     *)
(* with -1 when kalloc does; delmap unmaps the pages a shrunken top no    *)
(* longer reaches and returns the byte count only if all were mapped.     *)
(* The region's va_base is a uint64_t, so the comparisons of sys_sbrk    *)
(* against it are unsigned.  The regions' recorded sizes are left out:   *)
(* sys_sbrk's growth loop and the fault handler's size update only make  *)
(* the region cover the range mapped next, and no property reads them.   *)
(***************************************************************************)
EXTENDS Integers, FiniteSets

CONSTANTS Procs,      \* process slots
          InitProc,   \* initproc, made by userinit
          W,          \* width of int
          PGSIZE,
          HeapBase,   \* va_base of VR_HEAP, just above the code
          SbrkSizes,  \* arguments of sbrk
          FaultAddrs  \* addresses of not-present faults

VARIABLES heap_cursor, lower_lim_heap_cursor, heapPages, stackPages,
          stack_page_count, killed, alive

vars == <<heap_cursor, lower_lim_heap_cursor, heapPages, stackPages,
          stack_page_count, killed, alive>>

SZ_2G == 2^(W - 1)
Pages == 0..(SZ_2G \div PGSIZE - 1)
PageOf(a) == a \div PGSIZE

(* The guard address of sys_sbrk: VR_USTACK's va_base, SZ_2G, less the  *)
(* ten-page stack reserve.                                                *)
StackLimit == SZ_2G - 10 * PGSIZE

(* An int result: two's complement wrap-around at W bits.                *)
Wrap(x) == ((x + 2^(W - 1)) % 2^W) - 2^(W - 1)

(* a > b once both are converted to uint64_t (a negative int becomes a   *)
(* value above every non-negative one).                                   *)
UGt(a, b) == IF (a < 0) = (b < 0) THEN a > b ELSE a < 0

(* The pages a byte range [lo, hi) touches.                              *)
PagesTouching(lo, hi) == IF lo >= hi THEN {} ELSE PageOf(lo)..PageOf(hi - 1)

TopStackPage == {PageOf(SZ_2G - 1)}

Init ==
    /\ alive = [p \in Procs |-> p = InitProc]
    /\ killed = [p \in Procs |-> FALSE]
    \* ptable is zeroed memory: userinit sets heap_cursor = 0 and nothing else
    /\ heap_cursor = [p \in Procs |-> 0]
    /\ lower_lim_heap_cursor = [p \in Procs |-> 0]
    /\ stack_page_count = [p \in Procs |-> 0]
    /\ heapPages = [p \in Procs |-> {}]
    /\ stackPages = [p \in Procs |-> IF p = InitProc THEN TopStackPage ELSE {}]

Ready(p) == alive[p] /\ ~killed[p]
Mapped(p) == heapPages[p] \cup stackPages[p]

(* vregionaddmap(vr_heap, heap_cursor, size, ...): kalloc may fail.      *)
HeapAddmap(p, lo, hi, ok) ==
    heapPages' = [heapPages EXCEPT ![p] = IF ok THEN @ \cup PagesTouching(lo, hi) ELSE @]

(* Mutant: the guard compares as int, so an overflowed sum passes it.   *)
SbrkGrowSignedGuard(p, c0, size) ==
    LET top == Wrap(c0 + size) IN
    IF StackLimit > top
    THEN \E ok \in BOOLEAN :
           /\ HeapAddmap(p, c0, top, ok)
           /\ heap_cursor' = [heap_cursor EXCEPT ![p] = IF ok THEN top ELSE c0]
    ELSE /\ heap_cursor' = [heap_cursor EXCEPT ![p] = c0]
         /\ UNCHANGED heapPages

(* Mutant: the guard compares with the stack's va_base, no reserve.      *)
SbrkGrowNoReserve(p, c0, size) ==
    LET top == Wrap(c0 + size) IN
    IF UGt(SZ_2G, top)
    THEN \E ok \in BOOLEAN :
           /\ HeapAddmap(p, c0, top, ok)
           /\ heap_cursor' = [heap_cursor EXCEPT ![p] = IF ok THEN top ELSE c0]
    ELSE /\ heap_cursor' = [heap_cursor EXCEPT ![p] = c0]
         /\ UNCHANGED heapPages

(* sbrk(size) > 0: refuse a top within the stack reserve (the int sum    *)
(* wraps, the comparison is unsigned); grow the region, map, advance.    *)
SbrkGrow(p, c0, size) ==
    LET top == Wrap(c0 + size) IN
    IF UGt(StackLimit, top)
    THEN \E ok \in BOOLEAN :
           /\ HeapAddmap(p, c0, top, ok)
           /\ heap_cursor' = [heap_cursor EXCEPT ![p] = IF ok THEN top ELSE c0]
    ELSE /\ heap_cursor' = [heap_cursor EXCEPT ![p] = c0]
         /\ UNCHANGED heapPages

(* Mutant: the shrink tests only the heap base, not the pinned floor.    *)
SbrkShrinkNoFloor(p, c0, ll0, size) ==
    LET abs_val == Wrap(0 - size)
        newc == c0 - abs_val
        gone == PagesTouching(newc, c0) \ PagesTouching(HeapBase, newc)
    IN
    IF UGt(abs_val, c0 - HeapBase) \/ ~(gone \subseteq heapPages[p])
    THEN /\ heap_cursor' = [heap_cursor EXCEPT ![p] = c0]
         /\ UNCHANGED heapPages
    ELSE /\ heapPages' = [heapPages EXCEPT ![p] = @ \ gone]
         /\ heap_cursor' = [heap_cursor EXCEPT ![p] = newc]

(* sbrk(size) < 0: a shrink past the heap base or past the floor pinned  *)
(* at fork is a no-op; otherwise vregiondelmap(vr_heap, heap_cursor - 1, *)
(* abs_val), -1 (with nothing changed) unless it removed abs_val bytes,  *)
(* then the cursor drops by abs_val.                                      *)
SbrkShrink(p, c0, ll0, size) ==
    LET abs_val == Wrap(0 - size)
        newc == c0 - abs_val
        gone == PagesTouching(newc, c0) \ PagesTouching(HeapBase, newc)
    IN
    IF \/ UGt(abs_val, c0 - HeapBase)
       \/ abs_val > Wrap(c0 - ll0)
       \/ ~(gone \subseteq heapPages[p])
    THEN /\ heap_cursor' = [heap_cursor EXCEPT ![p] = c0]
         /\ UNCHANGED heapPages
    ELSE /\ heapPages' = [heapPages EXCEPT ![p] = @ \ gone]
         /\ heap_cursor' = [heap_cursor EXCEPT ![p] = newc]

(* sys_sbrk: a cursor of 0 (fresh from allocproc or userinit) is set to  *)
(* the heap's va_base and the floor to -1 before the size is looked at.  *)
sys_sbrk(p, size) ==
    /\ Ready(p)
    /\ LET fresh == heap_cursor[p] = 0
           c0 == IF fresh THEN HeapBase ELSE heap_cursor[p]
           ll0 == IF fresh THEN -1 ELSE lower_lim_heap_cursor[p]
       IN /\ lower_lim_heap_cursor' = [lower_lim_heap_cursor EXCEPT ![p] = ll0]
          /\ \/ size = 0 /\ heap_cursor' = [heap_cursor EXCEPT ![p] = c0]
                         /\ UNCHANGED heapPages
             \/ size > 0 /\ SbrkGrow(p, c0, size)
             \/ size < 0 /\ SbrkShrink(p, c0, ll0, size)
    /\ UNCHANGED <<stackPages, stack_page_count, killed, alive>>

(* The not-present fault of err 4, 5 or 6 at addr, taken as stack growth: *)
(* killed outside [exceeds_capacity, SZ_2G); otherwise the stack region   *)
(* grows to cover page page_index, and while stack_page_count <= 10 that *)
(* page is mapped (killed if vregionaddmap fails) and counted.           *)
stack_fault(p, addr) ==
    /\ Ready(p)
    /\ PageOf(addr) \notin Mapped(p)
    /\ LET base == SZ_2G - 1
           page_index == (base - addr) \div PGSIZE
           start_addr_alloc == base - page_index * PGSIZE - (PGSIZE - 1)
           exceeds_capacity == base - 1 - 9 * PGSIZE - (PGSIZE - 1)
       IN IF addr < exceeds_capacity \/ addr >= SZ_2G
          THEN /\ killed' = [killed EXCEPT ![p] = TRUE]
               /\ UNCHANGED <<stackPages, stack_page_count>>
          ELSE IF stack_page_count[p] <= 10
               THEN \E ok \in BOOLEAN :
                      /\ stackPages' = [stackPages EXCEPT ![p] =
                                          IF ok THEN @ \cup {PageOf(start_addr_alloc)} ELSE @]
                      /\ stack_page_count' = [stack_page_count EXCEPT ![p] = IF ok THEN @ + 1 ELSE @]
                      /\ killed' = [killed EXCEPT ![p] = ~ok]
               ELSE /\ killed' = [killed EXCEPT ![p] = TRUE]
                    /\ UNCHANGED <<stackPages, stack_page_count>>
    /\ UNCHANGED <<heap_cursor, lower_lim_heap_cursor, heapPages, alive>>

(* fork into free slot c: vspacecopy copies both regions; the child takes *)
(* the parent's heap_cursor; at the parent's first fork (floor -1) both  *)
(* floors are pinned to the cursor, later children inherit the floor.    *)
(* stack_page_count is not set and keeps the slot's previous value.       *)
fork(p, c) ==
    /\ Ready(p)
    /\ ~alive[c]
    /\ LET pinned == lower_lim_heap_cursor[p] = -1
           floor == IF pinned THEN heap_cursor[p] ELSE lower_lim_heap_cursor[p]
       IN lower_lim_heap_cursor' = [lower_lim_heap_cursor EXCEPT ![c] = floor,
                                       ![p] = IF pinned THEN floor ELSE @]
    /\ heap_cursor' = [heap_cursor EXCEPT ![c] = heap_cursor[p]]
    /\ heapPages' = [heapPages EXCEPT ![c] = heapPages[p]]
    /\ stackPages' = [stackPages EXCEPT ![c] = stackPages[p]]
    /\ alive' = [alive EXCEPT ![c] = TRUE]
    /\ killed' = [killed EXCEPT ![c] = FALSE]
    /\ UNCHANGED stack_page_count

(* exec: once vspaceinit, vspaceloadcode and vspaceinitstack succeed     *)
(* stack_page_count is set to 1; a later failure (writing the arguments) *)
(* returns -1 on the old address space, success installs the new one    *)
(* (empty heap, one stack page).  heap_cursor and lower_lim_heap_cursor  *)
(* are not touched.  The earlier failures change nothing.                 *)
exec(p) ==
    /\ Ready(p)
    /\ stack_page_count' = [stack_page_count EXCEPT ![p] = 1]
    /\ \/ UNCHANGED <<heapPages, stackPages>>
       \/ /\ heapPages' = [heapPages EXCEPT ![p] = {}]
          /\ stackPages' = [stackPages EXCEPT ![p] = TopStackPage]
    /\ UNCHANGED <<heap_cursor, lower_lim_heap_cursor, killed, alive>>

(* exit, voluntary or at the user boundary once killed; the reaper frees  *)
(* the address space.  initproc never exits (exit panics for it), so a   *)
(* killed initproc stops here.                                            *)
exit(p) ==
    /\ alive[p]
    /\ p # InitProc
    /\ alive' = [alive EXCEPT ![p] = FALSE]
    /\ heapPages' = [heapPages EXCEPT ![p] = {}]
    /\ stackPages' = [stackPages EXCEPT ![p] = {}]
    /\ UNCHANGED <<heap_cursor, lower_lim_heap_cursor, stack_page_count, killed>>

Next ==
    \/ \E p \in Procs, size \in SbrkSizes : sys_sbrk(p, size)
    \/ \E p \in Procs, addr \in FaultAddrs : stack_fault(p, addr)
    \/ \E p, c \in Procs : fork(p, c)
    \/ \E p \in Procs : exec(p) \/ exit(p)

Spec == Init /\ [][Next]_vars

-----------------------------------------------------------------------------
TypeOK ==
    /\ heap_cursor \in [Procs -> 0..(SZ_2G - 1)]
    /\ lower_lim_heap_cursor \in [Procs -> -1..(SZ_2G - 1)]
    /\ heapPages \in [Procs -> SUBSET Pages]
    /\ stackPages \in [Procs -> SUBSET Pages]
    /\ stack_page_count \in [Procs -> 0..12]
    /\ killed \in [Procs -> BOOLEAN]
    /\ alive \in [Procs -> BOOLEAN]

(* sys_sbrk never lets the heap reach into the ten-page stack reserve   *)
(* below SZ_2G, even when heap_cursor + size overflows int: the cursor   *)
(* stays below the reserve and every heap page ends at or below it.       *)
HeapBelowStackReserve ==
    \A p \in Procs :
        /\ heap_cursor[p] <= StackLimit
        /\ \A pg \in heapPages[p] : (pg + 1) * PGSIZE <= StackLimit

(* A process never shrinks its heap below the floor pinned when it, or   *)
(* its parent, first forked: the pages under the floor may still be      *)
(* shared with the other process (sbrk, fork and a later shrink).         *)
HeapFloorHeld ==
    \A p \in Procs :
        alive[p] /\ lower_lim_heap_cursor[p] # -1 => heap_cursor[p] >= lower_lim_heap_cursor[p]

(* The heap and the stack of a process never map the same page: a stack *)
(* fault admitted by exceeds_capacity lies in the ten-page reserve,      *)
(* which sys_sbrk keeps the heap out of.                                   *)
HeapStackDisjoint ==
    \A p \in Procs : heapPages[p] \cap stackPages[p] = {}
==============================================================================
