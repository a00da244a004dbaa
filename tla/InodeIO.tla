------------------------------ MODULE InodeIO ------------------------------
(***************************************************************************)
(* The inode branches of sys_read, sys_write and sys_fstat               *)
(* (kernel/sysfile.c) for one regular file, with the inode sleeplock and *)
(* the revalidation of the cached inode by locki (kernel/fs.c).          *)
(*                                                                         *)
(*   off[e]     current_offset of global file entry e; processes that    *)
(*              share an entry (fork, dup) share its offset.              *)
(*   dsize      the size field of the on-disk dinode.                    *)
(*   isize, valid  the cached struct inode: its size and valid flag.     *)
(*   ilock      the process holding the inode's sleeplock, or None.      *)
(*   pc, req    per process: the step it is at and the size argument.   *)
(*   panicked   a kernel panic has halted the machine.                   *)
(*                                                                         *)
(* The bytes themselves are left out: the copy loops run under the       *)
(* sleeplock over blocks of a contiguous extent, so what a reader or     *)
(* writer can observe of another is the size and the offsets.  Each     *)
(* global_ftable_lock critical section is one step.  T_DEV inodes (the   *)
(* console) are not this file.  The offsets both system calls read under *)
(* global_ftable_lock before locki are overwritten after it, unused.     *)
(*                                                                         *)
(* inode.size is a uint (inc/file.h) and offset an int, so sys_read's    *)
(* clamp computes fd_inode->size - offset modulo 2^32 and compares the  *)
(* int size with it as unsigned.                                          *)
(***************************************************************************)
EXTENDS Integers, FiniteSetsExt

CONSTANTS Procs,    \* processes calling read, write and fstat
          Entries,  \* global file entries open on the file
          EntryOf,  \* EntryOf[p]: the entry p's descriptor points at
          Sizes,    \* size arguments of read and write
          None,     \* no holder of the sleeplock
          BSIZE,    \* block size (512 in the kernel)
          NBLOCKS   \* data.nblocks of the file's extent (20 in the kernel)

ASSUME \A n \in Sizes : 0 < n

ASSUME EntryOf \in [Procs -> Entries]

VARIABLES off, dsize, isize, valid, ilock, pc, req, panicked

vars == <<off, dsize, isize, valid, ilock, pc, req, panicked>>

Cap == NBLOCKS * BSIZE

(* n > x - y with x a uint and y a non-negative int below 2^31, as C     *)
(* evaluates it: x - y is taken modulo 2^32 and the int n converted to   *)
(* unsigned.  For y > x the difference is at least 2^32 - y > 2^31 > n.  *)
UGreater(n, x, y) == y <= x /\ n > x - y

Init ==
    /\ off = [e \in Entries |-> 0]
    /\ dsize = 0
    /\ isize = 0
    /\ valid = 0
    /\ ilock = None
    /\ pc = [p \in Procs |-> "idle"]
    /\ req = [p \in Procs |-> 0]
    /\ panicked = FALSE

Goto(p, l) == pc' = [pc EXCEPT ![p] = l]

(* The step after locki, by the step that called it. *)
AfterLock == [r_lock |-> "r_io", w_lock |-> "w_io",
              w_relock |-> "w_unlock", f_lock |-> "f_stat"]

(* locki: acquiresleep, then reload the cached inode from the dinode if  *)
(* valid is 0.  (The type-0 panic needs a deleted file: FileSystem.)     *)
lockiNoReload(p) ==
    /\ pc[p] \in DOMAIN AfterLock
    /\ ilock = None
    /\ ilock' = p
    /\ valid' = 1
    /\ Goto(p, AfterLock[pc[p]])
    /\ UNCHANGED <<off, dsize, isize, req, panicked>>

locki(p) ==
    /\ pc[p] \in DOMAIN AfterLock
    /\ ilock = None
    /\ ilock' = p
    /\ IF valid = 0 THEN isize' = dsize /\ valid' = 1
                    ELSE UNCHANGED <<isize, valid>>
    /\ Goto(p, AfterLock[pc[p]])
    /\ UNCHANGED <<off, dsize, req, panicked>>

(* sys_read, up to the inode branch: under global_ftable_lock the        *)
(* argument checks and the offset read, then release.  The model issues  *)
(* reads only while the offset is within the extent (a bound: the code   *)
(* has none, and past it reads blocks of whatever follows the extent).  *)
sys_read(p, n) ==
    /\ pc[p] = "idle"
    /\ off[EntryOf[p]] <= Cap
    /\ req' = [req EXCEPT ![p] = n]
    /\ Goto(p, "r_lock")
    /\ UNCHANGED <<off, dsize, isize, valid, ilock, panicked>>

(* Holding the sleeplock: re-read the offset; if size > fd_inode->size - *)
(* offset (unsigned) clamp size to that difference; a size of 0 unlocks  *)
(* and returns 0; else copy, advance the offset under global_ftable_lock, *)
(* unlocki and return size.  When the cached size is below the offset    *)
(* the difference wraps, no clamp happens and the full size is read.     *)
ReadIONoClamp(p) ==
    LET e == EntryOf[p] IN
    /\ pc[p] = "r_io"
    /\ off' = [off EXCEPT ![e] = off[e] + req[p]]
    /\ ilock' = None
    /\ Goto(p, "idle")
    /\ UNCHANGED <<dsize, isize, valid, req, panicked>>

ReadIO(p) ==
    LET e == EntryOf[p]
        offset == off[e]
        size == IF UGreater(req[p], isize, offset) THEN isize - offset
                                                     ELSE req[p]
    IN /\ pc[p] = "r_io"
       /\ off' = IF size > 0 THEN [off EXCEPT ![e] = offset + size] ELSE off
       /\ ilock' = None
       /\ Goto(p, "idle")
       /\ UNCHANGED <<dsize, isize, valid, req, panicked>>

(* sys_write, up to the inode branch: under global_ftable_lock the       *)
(* checks and the offset read, then release.                             *)
sys_write(p, n) ==
    /\ pc[p] = "idle"
    /\ req' = [req EXCEPT ![p] = n]
    /\ Goto(p, "w_lock")
    /\ UNCHANGED <<off, dsize, isize, valid, ilock, panicked>>

(* Holding the sleeplock: offset = current_offset again, read_dinode;    *)
(* panic if the last block touched, (offset + size) / BSIZE, is past the *)
(* extent; else grow the dinode's size, copy, write_dinode, advance the  *)
(* offset under global_ftable_lock and unlocki.  The cached inode keeps  *)
(* its old size.                                                          *)
WriteIO(p) ==
    LET e == EntryOf[p]
        offset == off[e]
        size == req[p]
    IN /\ pc[p] = "w_io"
       /\ IF (offset + size) \div BSIZE > NBLOCKS - 1
          THEN /\ panicked' = TRUE
               /\ UNCHANGED <<off, dsize, ilock, pc>>
          ELSE /\ dsize' = IF offset + size > dsize THEN offset + size ELSE dsize
               /\ off' = [off EXCEPT ![e] = off[e] + size]
               /\ ilock' = None
               /\ Goto(p, "w_reval")
               /\ UNCHANGED panicked
       /\ UNCHANGED <<isize, valid, req>>

(* After unlocki, without the sleeplock: fd_inode->valid = 0, so that    *)
(* the locki that follows reloads the new size.                          *)
WriteRevalidateNoInvalidate(p) ==
    /\ pc[p] = "w_reval"
    /\ Goto(p, "w_relock")
    /\ UNCHANGED <<off, dsize, isize, valid, ilock, req, panicked>>

WriteRevalidate(p) ==
    /\ pc[p] = "w_reval"
    /\ valid' = 0
    /\ Goto(p, "w_relock")
    /\ UNCHANGED <<off, dsize, isize, ilock, req, panicked>>

(* unlocki after the reload; sys_write returns size. *)
WriteUnlock(p) ==
    /\ pc[p] = "w_unlock"
    /\ ilock' = None
    /\ Goto(p, "idle")
    /\ UNCHANGED <<off, dsize, isize, valid, req, panicked>>

(* sys_fstat: checks under global_ftable_lock, release, then            *)
(* concurrent_stati: locki, copy the cached inode into the stat, unlocki.*)
sys_fstat(p) ==
    /\ pc[p] = "idle"
    /\ Goto(p, "f_lock")
    /\ UNCHANGED <<off, dsize, isize, valid, ilock, req, panicked>>

FstatCopy(p) ==
    /\ pc[p] = "f_stat"
    /\ ilock' = None
    /\ Goto(p, "idle")
    /\ UNCHANGED <<off, dsize, isize, valid, req, panicked>>

Running == ~panicked

Next ==
    \/ \E p \in Procs, n \in Sizes : Running /\ sys_read(p, n)
    \/ \E p \in Procs, n \in Sizes : Running /\ sys_write(p, n)
    \/ \E p \in Procs : Running /\ sys_fstat(p)
    \/ \E p \in Procs : Running /\ locki(p)
    \/ \E p \in Procs : Running /\ ReadIO(p)
    \/ \E p \in Procs : Running /\ WriteIO(p)
    \/ \E p \in Procs : Running /\ WriteRevalidate(p)
    \/ \E p \in Procs : Running /\ WriteUnlock(p)
    \/ \E p \in Procs : Running /\ FstatCopy(p)

Spec == Init /\ [][Next]_vars

------------------------------------------------------------------------------
PCs == {"idle", "r_lock", "r_io", "w_lock", "w_io", "w_reval", "w_relock",
        "w_unlock", "f_lock", "f_stat"}

TypeOK ==
    /\ off \in [Entries -> 0..Cap]
    /\ dsize \in 0..Cap
    /\ isize \in 0..Cap
    /\ valid \in {0, 1}
    /\ ilock \in Procs \cup {None}
    /\ pc \in [Procs -> PCs]
    /\ req \in [Procs -> {0} \cup Sizes]
    /\ panicked \in BOOLEAN

(* No entry's offset is past the end of the file on disk.  sys_write   *)
(* sets the offset to the end of what it wrote, and sys_read must clamp *)
(* its count to the bytes between the offset and the cached size; that  *)
(* takes the cached size to be current whenever a process reads.         *)
OffsetWithinFile == \A e \in Entries : off[e] <= dsize

(* The cached inode's size differs from the dinode's, while the cache   *)
(* is marked valid, only between a sys_write's write_dinode and its      *)
(* fd_inode->valid = 0: no later locki can keep a stale size.            *)
CachedSizeCurrent ==
    valid = 1 /\ isize # dsize => \E q \in Procs : pc[q] = "w_reval"

==============================================================================
