------------------------------ MODULE FileTable ------------------------------
(***************************************************************************)
(* The global open-file table of kernel/sysfile.c and the per-process     *)
(* descriptor tables that point into it.                                  *)
(*                                                                         *)
(*   gft[i]    global_file_info_array[i]: in_mem_ref_count, and for a     *)
(*             pipe end the pipe it refers to and its permission          *)
(*             (O_RDONLY = "R", O_WRONLY = "W").  An inode entry keeps     *)
(*             pipe = NoPipe; its inode and offset are not read by any    *)
(*             operation modelled here.                                    *)
(*   fds[p][s] proc_ptr_to_global_table[s] of process slot p: an index    *)
(*             into gft, or NULL.                                          *)
(*   pipes[k]  the struct pipe at the start of kalloc page k:             *)
(*             ref_count_readers, ref_count_writers, and whether the page *)
(*             is allocated (live).                                        *)
(*                                                                         *)
(* Every operation runs with global_ftable_lock held from its first read  *)
(* of the tables to its last write, so each is one atomic action.  fork   *)
(* copies the parent's table and then calls update_global_table_on_fork;  *)
(* the child is not RUNNABLE before both are done, so they form one step. *)
(***************************************************************************)
EXTENDS Integers, SequencesExt

CONSTANTS Procs,    \* process slots
          InitProc, \* ptable.proc[0], the first process, which never exits
          NOFILE,   \* descriptors per process
          NFILE,    \* entries of the global table
          PipePages,\* kalloc pages that may hold a struct pipe
          NoPipe,   \* is_pipe = 0
          Booted    \* TRUE: the first sys_open has already happened

NULL == -1
Entries == 0..(NFILE - 1)
Slots == 0..(NOFILE - 1)

VARIABLES gft, fds, pipes, alive, first_file_allocated

vars == <<gft, fds, pipes, alive, first_file_allocated>>

FreeEntry == [ref |-> 0, pipe |-> NoPipe, perm |-> "RW"]
InodeEntry == [ref |-> 1, pipe |-> NoPipe, perm |-> "RW"]
NoFds == [s \in Slots |-> NULL]

(* Booted: the first process has opened the console as descriptor 0.    *)
Init ==
    /\ alive = [p \in Procs |-> p = InitProc]
    /\ fds = [p \in Procs |->
                IF p = InitProc /\ Booted THEN [NoFds EXCEPT ![0] = 0] ELSE NoFds]
    /\ gft = [i \in Entries |-> IF i = 0 /\ Booted THEN InodeEntry ELSE FreeEntry]
    /\ pipes = [k \in PipePages |-> [readers |-> 0, writers |-> 0, live |-> FALSE]]
    /\ first_file_allocated = Booted

FreeEntries == {i \in Entries : gft[i].ref = 0}
FreeSlots(p) == {s \in Slots : fds[p][s] = NULL}

(* The tables as one value, so the per-descriptor loops of the code can  *)
(* be folded over the descriptors in order.                              *)
Tables == [gft |-> gft, pipes |-> pipes]

SetTables(t) ==
    /\ gft' = t.gft
    /\ pipes' = t.pipes

(* Mutant: the entry gains a pointer but in_mem_ref_count is not raised. *)
ShareEntryNoRef(t, e) ==
    LET ent == t.gft[e]
        role == IF ent.perm = "R" THEN "readers" ELSE "writers"
    IN [t EXCEPT !.pipes = IF ent.pipe = NoPipe THEN @
                           ELSE [@ EXCEPT ![ent.pipe][role] = @ + 1]]

(* One more pointer to entry e: the body of sys_dup's and                *)
(* update_global_table_on_fork's loops.                                  *)
ShareEntry(t, e) ==
    LET ent == t.gft[e]
        role == IF ent.perm = "R" THEN "readers" ELSE "writers"
    IN [t EXCEPT !.gft[e].ref = @ + 1,
                 !.pipes = IF ent.pipe = NoPipe THEN @
                           ELSE [@ EXCEPT ![ent.pipe][role] = @ + 1]]

(* Mutant: every pipe close counts as a reader leaving.                  *)
ReleaseEntryReadersOnly(t, e) ==
    LET ent == t.gft[e]
        pp == [t.pipes[ent.pipe] EXCEPT !.readers = @ - 1]
        kfree == pp.readers = 0 /\ pp.writers = 0
    IN IF ent.pipe = NoPipe
       THEN [t EXCEPT !.gft[e].ref = IF @ > 1 THEN @ - 1 ELSE 0]
       ELSE [t EXCEPT !.gft[e].ref = IF @ > 1 THEN @ - 1 ELSE 0,
                      !.pipes[ent.pipe] = [pp EXCEPT !.live = @ /\ ~kfree]]

(* One pointer to entry e dropped: the body of sys_close and of          *)
(* close_all_fds_for_process's loop.  Both branches of the code's        *)
(* num_refs > 1 test are here; kfree runs when both counts reach zero.   *)
ReleaseEntry(t, e) ==
    LET ent == t.gft[e]
        role == IF ent.perm = "R" THEN "readers" ELSE "writers"
        pp == [t.pipes[ent.pipe] EXCEPT ![role] = @ - 1]
        kfree == pp.readers = 0 /\ pp.writers = 0
    IN IF ent.pipe = NoPipe
       THEN [t EXCEPT !.gft[e].ref = IF @ > 1 THEN @ - 1 ELSE 0]
       ELSE [t EXCEPT !.gft[e].ref = IF @ > 1 THEN @ - 1 ELSE 0,
                      !.pipes[ent.pipe] = [pp EXCEPT !.live = @ /\ ~kfree]]

(* The non-NULL descriptors of table f, lowest first.                    *)
OpenSlots(f) == SelectSeq([i \in 1..NOFILE |-> f[i - 1]], LAMBDA e : e # NULL)

------------------------------------------------------------------------------
(* sys_open, after namei/create has produced an inode.  The first open   *)
(* zeroes every global ref count and the caller's table and installs the *)
(* file at entry 0 / descriptor 0.  Later opens take the lowest free     *)
(* entry, then the lowest free descriptor; when no descriptor is free    *)
(* the entry stays allocated and -1 is returned.                         *)
sys_open(p) ==
    /\ alive[p]
    /\ IF ~first_file_allocated
       THEN /\ first_file_allocated' = TRUE
            /\ gft' = [i \in Entries |->
                        IF i = 0 THEN InodeEntry ELSE [gft[i] EXCEPT !.ref = 0]]
            /\ fds' = [fds EXCEPT ![p] = [NoFds EXCEPT ![0] = 0]]
       ELSE /\ FreeEntries # {}
            /\ LET i == Min(FreeEntries) IN
                 /\ gft' = [gft EXCEPT ![i] = InodeEntry]
                 /\ fds' = IF FreeSlots(p) = {} THEN fds
                           ELSE [fds EXCEPT ![p][Min(FreeSlots(p))] = i]
            /\ UNCHANGED first_file_allocated
    /\ UNCHANGED <<pipes, alive>>

(* sys_pipe after kalloc succeeded: the struct pipe starts with one      *)
(* reader and one writer.  The two lowest free entries get the read and  *)
(* the write end; if only one is free it is filled and -1 returned.      *)
(* Then the two lowest free descriptors; if only one is free it gets the *)
(* read end and -1 is returned.  sys_pipe does not test                  *)
(* first_file_allocated.                                                 *)
sys_pipe(p) ==
    /\ alive[p]
    /\ \E k \in PipePages :
         /\ ~pipes[k].live
         /\ pipes' = [pipes EXCEPT ![k] = [readers |-> 1, writers |-> 1, live |-> TRUE]]
         /\ LET F == FreeEntries
                S == FreeSlots(p)
                rd == [ref |-> 1, pipe |-> k, perm |-> "R"]
                wr == [ref |-> 1, pipe |-> k, perm |-> "W"]
            IN IF F = {} THEN UNCHANGED <<gft, fds>>
               ELSE IF F = {Min(F)}
               THEN /\ gft' = [gft EXCEPT ![Min(F)] = rd]
                    /\ UNCHANGED fds
               ELSE LET i1 == Min(F)
                        i2 == Min(F \ {i1})
                    IN /\ gft' = [gft EXCEPT ![i1] = rd, ![i2] = wr]
                       /\ fds' = CASE S = {} -> fds
                                   [] S = {Min(S)} -> [fds EXCEPT ![p][Min(S)] = i1]
                                   [] OTHER ->
                                        [fds EXCEPT ![p][Min(S)] = i1,
                                                    ![p][Min(S \ {Min(S)})] = i2]
    /\ UNCHANGED <<alive, first_file_allocated>>

(* sys_dup(fd): fd names an open descriptor; the lowest free descriptor  *)
(* gets the same entry and the counts go up by one.                      *)
sys_dup(p, fd) ==
    /\ alive[p]
    /\ first_file_allocated
    /\ fds[p][fd] # NULL
    /\ FreeSlots(p) # {}
    /\ fds' = [fds EXCEPT ![p][Min(FreeSlots(p))] = fds[p][fd]]
    /\ SetTables(ShareEntry(Tables, fds[p][fd]))
    /\ UNCHANGED <<alive, first_file_allocated>>

(* sys_close(fd).                                                         *)
sys_close(p, fd) ==
    /\ alive[p]
    /\ first_file_allocated
    /\ fds[p][fd] # NULL
    /\ fds' = [fds EXCEPT ![p][fd] = NULL]
    /\ SetTables(ReleaseEntry(Tables, fds[p][fd]))
    /\ UNCHANGED <<alive, first_file_allocated>>

(* fork: allocproc found the free slot c, the child gets a copy of the   *)
(* parent's table and update_global_table_on_fork counts each copy.      *)
fork(p, c) ==
    /\ alive[p]
    /\ ~alive[c]
    /\ alive' = [alive EXCEPT ![c] = TRUE]
    /\ fds' = [fds EXCEPT ![c] = fds[p]]
    /\ SetTables(FoldLeft(ShareEntry, Tables, OpenSlots(fds[p])))
    /\ UNCHANGED first_file_allocated

(* exit: close_all_fds_for_process drops each open descriptor in order;  *)
(* the slot is free again once the parent has reaped the zombie.         *)
exit(p) ==
    /\ alive[p]
    /\ p # InitProc
    /\ alive' = [alive EXCEPT ![p] = FALSE]
    /\ fds' = [fds EXCEPT ![p] = NoFds]
    /\ SetTables(FoldLeft(ReleaseEntry, Tables, OpenSlots(fds[p])))
    /\ UNCHANGED first_file_allocated

Next ==
    \/ \E p \in Procs : sys_open(p) \/ sys_pipe(p) \/ exit(p)
    \/ \E p \in Procs, fd \in Slots : sys_dup(p, fd) \/ sys_close(p, fd)
    \/ \E p, c \in Procs : fork(p, c)

Spec == Init /\ [][Next]_vars

------------------------------------------------------------------------------
Roles == {"R", "W"}

TypeOK ==
    /\ gft \in [Entries -> [ref : Nat, pipe : PipePages \cup {NoPipe}, perm : Roles \cup {"RW"}]]
    /\ fds \in [Procs -> [Slots -> Entries \cup {NULL}]]
    /\ pipes \in [PipePages -> [readers : Nat, writers : Nat, live : BOOLEAN]]
    /\ alive \in [Procs -> BOOLEAN]
    /\ first_file_allocated \in BOOLEAN

(* The descriptors, over all processes, that point at entry i.           *)
Holders(i) == {<<p, s>> \in Procs \X Slots : fds[p][s] = i}

(* No descriptor of any process points at a global entry whose           *)
(* in_mem_ref_count has dropped to zero (and which sys_open or sys_pipe  *)
(* may hand out again), nor at a pipe end whose page kfree has released. *)
(* Broken by any path of dup, fork, close or exit that counts one        *)
(* pointer too few.  It also rules out a second kfree of a pipe page:   *)
(* that needs a close through a descriptor of an already freed pipe.    *)
NoUseAfterFree ==
    \A p \in Procs, s \in Slots :
        LET e == fds[p][s] IN
        e # NULL => /\ gft[e].ref > 0
                   /\ (gft[e].pipe # NoPipe => pipes[gft[e].pipe].live)

(* Nothing a failed call allocated outlives it: every allocated entry   *)
(* is pointed to by exactly as many descriptors as its in_mem_ref_count  *)
(* says, and every live pipe page is reachable through some descriptor.  *)
(* Broken when sys_open or sys_pipe fills entries or kalloc's the page   *)
(* and then returns -1 for want of an entry or a descriptor slot.        *)
NoLeakedAllocation ==
    /\ \A i \in Entries : gft[i].ref = Cardinality(Holders(i))
    /\ \A k \in PipePages :
           pipes[k].live => \E p \in Procs, s \in Slots :
                               fds[p][s] # NULL /\ gft[fds[p][s]].pipe = k
==============================================================================
