----------------------------- MODULE FileSystem -----------------------------
(***************************************************************************)
(* File creation and deletion in kernel/fs.c, with the parts of sys_open  *)
(* and sys_unlink (kernel/sysfile.c) that call them.                      *)
(*                                                                         *)
(*   create_file_lock_initialized, lk   the lazily initialised spinlock   *)
(*             create_file_lock: lk is the process holding it, or None    *)
(*             (xv6's holding() is locked && cpu == mycpu()).              *)
(*   create_file_lock_in_use            the flag that serialises creators;*)
(*             waiters sleep on channel 9999 under create_file_lock.      *)
(*   dinode[i] type, data extent (startblkno, nblocks) and the deleted-   *)
(*             extent marks extra_extents_blk_nums[24], [25] of the       *)
(*             on-disk inode i of the creatable range (inode blocks 34..).*)
(*   bitmap[k] byte k of the free-block bitmap (one bitmap block).        *)
(*   dir[i]    the name in root directory entry i, or NoName.             *)
(*   held[p]   the inode of the open-file entry process p holds, or NULL  *)
(*             (the global table itself is FileTable's).                  *)
(*                                                                         *)
(* Each bread .. brelse of one block holds the buffer's sleeplock, so the *)
(* read-modify-write of a block is atomic; the allocation scan runs with  *)
(* create_file_lock_in_use set and is one step, as is delete_file.        *)
(*                                                                         *)
(* mkfs is not in the repository.  The initial disk is the one under      *)
(* which create_file_on_disk's special case for inum 28 is coherent: the  *)
(* files of mkfs end at block DataStart - 1, inode 28 is free and carries *)
(* deleted-extent marks, every later inode is zero.                       *)
(***************************************************************************)
EXTENDS Integers, FiniteSetsExt, Bitwise

CONSTANTS Procs,      \* processes calling open and unlink
          Names,      \* file names
          NoName,     \* an empty directory entry
          None,       \* no holder of create_file_lock
          NSLOT,      \* creatable inodes (3 inode blocks of 4: 12 in fs.c)
          FirstInum,  \* 28, the first inode of block 34
          FileBlocks, \* num_data_blocks = 20
          DataStart,  \* 49, one past last_free_block = 48 of the inum 28 case
          DPB,        \* BSIZE / sizeof(struct dirent) = 32
          bmapstart   \* sb.bmapstart, the first bitmap block

NULL == 0
Inums == FirstInum .. (FirstInum + NSLOT - 1)
MaxBlock == DataStart + FileBlocks * NSLOT - 1
DataBlocks == DataStart .. MaxBlock
Bytes == 0 .. (MaxBlock \div 8)

VARIABLES create_file_lock_initialized, lk, create_file_lock_in_use,
          dinode, bitmap, dir, held, pc, want, ino, val, panicked

vars == <<create_file_lock_initialized, lk, create_file_lock_in_use,
          dinode, bitmap, dir, held, pc, want, ino, val, panicked>>

ZeroDinode == [type |-> 0, start |-> 0, nblocks |-> 0, m24 |-> 0, m25 |-> 0]

(* Bits of block b in a byte-array bitmap, by the plain definition.       *)
BitOf(bm, b) == (bm[b \div 8] \div 2^(b % 8)) % 2

(* create_set_low_bitmask and create_set_high_bitmask: the sum of 2^i     *)
(* over the bit positions i the loop keeps.                               *)
create_set_low_bitmask(pos) == SumSet({2^i : i \in {j \in 0..7 : j # pos}})
create_set_high_bitmask(pos) == SumSet({2^i : i \in {j \in 0..7 : j = pos}})

(* C division truncates toward zero.                                      *)
CDiv(a, b) == IF a < 0 THEN -((-a) \div b) ELSE a \div b

(* Mutant: the bit is set by adding the mask and cleared by subtracting *)
(* its complement, which is wrong when the bit already has that value.   *)
set_blk_num_in_bitmapAdd(bm, blk, bit) ==
    LET k == blk \div 8
        byte_offset == blk % 8
    IN [bm EXCEPT ![k] = IF bit = 0 THEN @ - (255 - create_set_low_bitmask(byte_offset))
                                    ELSE @ + create_set_high_bitmask(byte_offset)]

(* set_blk_num_in_bitmap(blk, bit) on the bitmap block it reads.  Every   *)
(* block of the model lies in the first bitmap block (block_steps = 0).   *)
set_blk_num_in_bitmap(bm, blk, bit) ==
    LET block_steps == CDiv(blk - bmapstart, 4096)
        block_offset == blk - block_steps * 4096
        k == block_offset \div 8
        byte_offset == block_offset - k * 8
    IN [bm EXCEPT ![k] = IF bit = 0 THEN @ & create_set_low_bitmask(byte_offset)
                                    ELSE @ | create_set_high_bitmask(byte_offset)]

(* The loop over blocks lo..hi calling set_blk_num_in_bitmap(j, bit).     *)
RECURSIVE SetRange(_, _, _, _)
SetRange(bm, lo, hi, bit) ==
    IF lo > hi THEN bm ELSE SetRange(set_blk_num_in_bitmap(bm, lo, bit), lo + 1, hi, bit)

Extent(d) == d.start .. (d.start + d.nblocks - 1)

Init ==
    /\ create_file_lock_initialized = -1
    /\ lk = None
    /\ create_file_lock_in_use = 0
    /\ dinode = [i \in Inums |->
                   IF i = FirstInum
                   THEN [ZeroDinode EXCEPT !.m24 = DataStart,
                                           !.m25 = DataStart + FileBlocks - 1]
                   ELSE ZeroDinode]
    /\ bitmap = [k \in Bytes |-> SumSet({2^j : j \in {i \in 0..7 : 8 * k + i < DataStart}})]
    /\ dir = [i \in Inums |-> NoName]
    /\ held = [p \in Procs |-> NULL]
    /\ pc = [p \in Procs |-> "idle"]
    /\ want = [p \in Procs |-> NoName]
    /\ ino = [p \in Procs |-> NULL]
    /\ val = [p \in Procs |-> 0]
    /\ panicked = FALSE

(* namei on the root directory: dirlookup returns the first entry, by    *)
(* offset, that holds name n.                                           *)
namei(n) == IF \E i \in Inums : dir[i] = n
            THEN Min({i \in Inums : dir[i] = n}) ELSE NULL

Goto(p, l) == pc' = [pc EXCEPT ![p] = l]

(* wakeup(9999): every process asleep in the in_use loop becomes runnable.*)
Wakeup9999 == [q \in Procs |-> IF pc[q] = "c_sleep" THEN "c_wake" ELSE pc[q]]

(* release(&create_file_lock): panics unless the caller holds it.         *)
Release(p) ==
    IF lk = p THEN /\ lk' = None /\ UNCHANGED panicked
              ELSE /\ panicked' = TRUE /\ UNCHANGED lk

------------------------------------------------------------------------------
(* sys_open(n, O_CREATE): namei; an existing file is opened, a missing    *)
(* one is handed to create_file_on_disk.  Opening installs the entry the  *)
(* caller holds (one per process: MaxOpen = 1).                           *)
sys_open(p, n) ==
    /\ pc[p] = "idle"
    /\ held[p] = NULL
    /\ IF namei(n) # NULL
       THEN /\ held' = [held EXCEPT ![p] = namei(n)]
            /\ UNCHANGED <<pc, want>>
       ELSE /\ want' = [want EXCEPT ![p] = n]
            /\ Goto(p, "c_init")
            /\ UNCHANGED held
    /\ UNCHANGED <<create_file_lock_initialized, lk, create_file_lock_in_use,
                   dinode, bitmap, dir, ino, val, panicked>>

(* val = create_file_lock_initialized.  pushcli only masks this CPU's     *)
(* interrupts: another CPU may read the flag before this one sets it.     *)
CreateReadInit(p) ==
    /\ pc[p] = "c_init"
    /\ val' = [val EXCEPT ![p] = create_file_lock_initialized]
    /\ Goto(p, "c_setinit")
    /\ UNCHANGED <<create_file_lock_initialized, lk, create_file_lock_in_use,
                   dinode, bitmap, dir, held, want, ino, panicked>>

(* if (val == -1) create_file_lock_initialized = 1; popcli.              *)
CreateSetInit(p) ==
    /\ pc[p] = "c_setinit"
    /\ create_file_lock_initialized' =
           IF val[p] = -1 THEN 1 ELSE create_file_lock_initialized
    /\ Goto(p, IF val[p] = -1 THEN "c_initlock" ELSE "c_acquire")
    /\ val' = [val EXCEPT ![p] = 0]
    /\ UNCHANGED <<lk, create_file_lock_in_use, dinode, bitmap, dir, held,
                   want, ino, panicked>>

(* initlock(&create_file_lock): locked = 0, whoever held it.             *)
CreateInitLock(p) ==
    /\ pc[p] = "c_initlock"
    /\ lk' = None
    /\ Goto(p, "c_acquire")
    /\ UNCHANGED <<create_file_lock_initialized, create_file_lock_in_use,
                   dinode, bitmap, dir, held, want, ino, val, panicked>>

(* acquire(&create_file_lock), first time and after a wakeup.            *)
CreateAcquire(p) ==
    /\ pc[p] \in {"c_acquire", "c_wake"}
    /\ lk = None
    /\ lk' = p
    /\ Goto(p, IF pc[p] = "c_acquire" THEN "c_claim" ELSE "c_recheck")
    /\ UNCHANGED <<create_file_lock_initialized, create_file_lock_in_use,
                   dinode, bitmap, dir, held, want, ino, val, panicked>>

(* in_use == 0: claim it and release; else sleep(9999, &create_file_lock),*)
(* which releases the lock as it sleeps.                                 *)
CreateClaim(p) ==
    /\ pc[p] = "c_claim"
    /\ create_file_lock_in_use' = 1
    /\ Goto(p, IF create_file_lock_in_use = 0 THEN "c_alloc" ELSE "c_sleep")
    /\ Release(p)
    /\ UNCHANGED <<create_file_lock_initialized, dinode, bitmap, dir, held,
                   want, ino, val>>

(* Mutant: the re-test after a wakeup proceeds without claiming in_use.  *)
CreateRecheckNoClaim(p) ==
    /\ pc[p] = "c_recheck"
    /\ \/ /\ create_file_lock_in_use = 1
          /\ Goto(p, "c_sleep")
          /\ UNCHANGED <<held, want>>
       \/ /\ create_file_lock_in_use = 0
          /\ namei(want[p]) # NULL
          /\ pc' = [Wakeup9999 EXCEPT ![p] = "idle"]
          /\ held' = [held EXCEPT ![p] = namei(want[p])]
          /\ want' = [want EXCEPT ![p] = NoName]
       \/ /\ create_file_lock_in_use = 0
          /\ namei(want[p]) = NULL
          /\ Goto(p, "c_alloc")
          /\ UNCHANGED <<held, want>>
    /\ Release(p)
    /\ UNCHANGED <<create_file_lock_initialized, create_file_lock_in_use,
                   dinode, bitmap, dir, ino, val>>

(* Woken and holding the lock: sleep again while in_use; otherwise namei *)
(* the name again; if another creator made it, wakeup(9999) and return   *)
(* it, else claim in_use.  Every branch releases the lock.               *)
CreateRecheck(p) ==
    /\ pc[p] = "c_recheck"
    /\ \/ /\ create_file_lock_in_use = 1
          /\ Goto(p, "c_sleep")
          /\ UNCHANGED <<held, want, create_file_lock_in_use>>
       \/ /\ create_file_lock_in_use = 0
          /\ namei(want[p]) # NULL
          /\ pc' = [Wakeup9999 EXCEPT ![p] = "idle"]
          /\ held' = [held EXCEPT ![p] = namei(want[p])]
          /\ want' = [want EXCEPT ![p] = NoName]
          /\ UNCHANGED create_file_lock_in_use
       \/ /\ create_file_lock_in_use = 0
          /\ namei(want[p]) = NULL
          /\ create_file_lock_in_use' = 1
          /\ Goto(p, "c_alloc")
          /\ UNCHANGED <<held, want>>
    /\ Release(p)
    /\ UNCHANGED <<create_file_lock_initialized, dinode, bitmap, dir, ino, val>>

(* The scan of inode blocks 34..36 for the lowest inode of type 0.  Each *)
(* used inode sets last_free_block to the end of its extent.  A free     *)
(* inode with deleted-extent marks reuses that extent (inum 28 is forced *)
(* to blocks 49..68) and panics if the marks do not start right after    *)
(* last_free_block; otherwise it gets 20 blocks.  When last_free_block   *)
(* is still -1 (inode 28 without marks) the found test fails, the scan   *)
(* advances inum by 4 and stops.  No free inode: panic.                  *)
CreateAlloc(p) ==
    /\ pc[p] = "c_alloc"
    /\ LET free == {i \in Inums : dinode[i].type = 0}
           f == Min(free)
           d == dinode[f]
           prev == IF f = FirstInum THEN -1
                   ELSE dinode[f - 1].start + dinode[f - 1].nblocks - 1
           marked == d.m25 # 0 /\ d.m24 # 0
           last_free_block == IF marked /\ f = FirstInum THEN DataStart - 1 ELSE prev
           num_data_blocks == IF marked /\ f # FirstInum THEN d.m25 - d.m24 + 1
                              ELSE FileBlocks
           start == last_free_block + 1
       IN IF free = {} \/ (marked /\ f # FirstInum /\ d.m24 # prev + 1)
          THEN /\ panicked' = TRUE
               /\ UNCHANGED <<pc, dinode, bitmap, ino>>
          ELSE /\ dinode' = [dinode EXCEPT ![f] = [@ EXCEPT !.type = 2, !.start = start,
                                                      !.nblocks = num_data_blocks]]
               /\ bitmap' = SetRange(bitmap, start, start + num_data_blocks - 1, 1)
               /\ ino' = [ino EXCEPT ![p] = IF last_free_block = -1 THEN f + 4 ELSE f]
               /\ Goto(p, "c_dir")
               /\ UNCHANGED panicked
    /\ UNCHANGED <<create_file_lock_initialized, lk, create_file_lock_in_use,
                   dir, held, want, val>>

(* The root directory entry inum (block 37 + inum*16/BSIZE, offset       *)
(* inum % 32) gets the name; then iget(1, inum) and locki re-read the    *)
(* dinode, which panics ("iget: no type") when its type is 0.            *)
CreateDirent(p) ==
    /\ pc[p] = "c_dir"
    /\ LET i == ino[p] IN
         IF i \in Inums
         THEN /\ dir' = [dir EXCEPT ![i] = want[p]]
              /\ panicked' = (dinode[i].type = 0)
              /\ Goto(p, "c_done")
         ELSE /\ panicked' = TRUE
              /\ UNCHANGED <<dir, pc>>
    /\ UNCHANGED <<create_file_lock_initialized, lk, create_file_lock_in_use,
                   dinode, bitmap, held, want, ino, val>>

(* acquire; in_use = 0; wakeup(9999); release; return the new inode,     *)
(* which sys_open installs in the caller's table.                       *)
CreateDone(p) ==
    /\ pc[p] = "c_done"
    /\ lk = None
    /\ create_file_lock_in_use' = 0
    /\ pc' = [Wakeup9999 EXCEPT ![p] = "idle"]
    /\ held' = [held EXCEPT ![p] = ino[p]]
    /\ want' = [want EXCEPT ![p] = NoName]
    /\ ino' = [ino EXCEPT ![p] = NULL]
    /\ UNCHANGED <<create_file_lock_initialized, lk, dinode, bitmap, dir, val, panicked>>

(* sys_unlink(n): namei, then path_inode->ref-- before the NULL test.    *)
(* For a missing name that is a write through NULL: a fault that panics, *)
(* or a write to whatever is mapped there and a return of -1.            *)
sys_unlink(p, n) ==
    /\ pc[p] = "idle"
    /\ IF namei(n) = NULL
       THEN /\ panicked' \in BOOLEAN
            /\ UNCHANGED <<pc, ino>>
       ELSE /\ ino' = [ino EXCEPT ![p] = namei(n)]
            /\ Goto(p, "u_lock")
            /\ UNCHANGED panicked
    /\ UNCHANGED <<create_file_lock_initialized, lk, create_file_lock_in_use,
                   dinode, bitmap, dir, held, want, val>>

(* valid = 0; locki re-reads the dinode and panics if its type is 0; a  *)
(* directory is refused (the names here are regular files).             *)
UnlinkLock(p) ==
    /\ pc[p] = "u_lock"
    /\ IF dinode[ino[p]].type = 0
       THEN /\ panicked' = TRUE /\ UNCHANGED pc
       ELSE /\ Goto(p, "u_check") /\ UNCHANGED panicked
    /\ UNCHANGED <<create_file_lock_initialized, lk, create_file_lock_in_use,
                   dinode, bitmap, dir, held, want, ino, val>>

(* Under global_ftable_lock: -1 if an entry with a positive count refers *)
(* to the inode; the lock is released before delete_file.               *)
UnlinkCheck(p) ==
    /\ pc[p] = "u_check"
    /\ IF \E q \in Procs : held[q] = ino[p]
       THEN /\ Goto(p, "idle") /\ ino' = [ino EXCEPT ![p] = NULL]
       ELSE /\ Goto(p, "u_delete") /\ UNCHANGED ino
    /\ UNCHANGED <<create_file_lock_initialized, lk, create_file_lock_in_use,
                   dinode, bitmap, dir, held, want, val, panicked>>

(* Mutant: the clearing loop stops before end_block.                    *)
delete_fileShort(p) ==
    /\ pc[p] = "u_delete"
    /\ LET i == ino[p]
           start_block == dinode[i].start
           end_block == start_block + dinode[i].nblocks - 1
       IN /\ dir' = IF i < DPB THEN [dir EXCEPT ![i] = NoName] ELSE dir
          /\ bitmap' = SetRange(bitmap, start_block, end_block - 1, 0)
          /\ dinode' = [dinode EXCEPT ![i] = [ZeroDinode EXCEPT !.m24 = start_block,
                                                                !.m25 = end_block]]
    /\ Goto(p, "idle")
    /\ ino' = [ino EXCEPT ![p] = NULL]
    /\ UNCHANGED <<create_file_lock_initialized, lk, create_file_lock_in_use,
                   held, want, val, panicked>>

(* delete_file(inum): clear root entry inum of block 37 (past the end of *)
(* that block's buffer when inum >= 32, leaving the real entry), clear   *)
(* the bitmap over the dinode's extent, zero the dinode and record the   *)
(* freed extent in its marks.                                            *)
delete_file(p) ==
    /\ pc[p] = "u_delete"
    /\ LET i == ino[p]
           start_block == dinode[i].start
           end_block == start_block + dinode[i].nblocks - 1
       IN /\ dir' = IF i < DPB THEN [dir EXCEPT ![i] = NoName] ELSE dir
          /\ bitmap' = SetRange(bitmap, start_block, end_block, 0)
          /\ dinode' = [dinode EXCEPT ![i] = [ZeroDinode EXCEPT !.m24 = start_block,
                                                                !.m25 = end_block]]
    /\ Goto(p, "idle")
    /\ ino' = [ino EXCEPT ![p] = NULL]
    /\ UNCHANGED <<create_file_lock_initialized, lk, create_file_lock_in_use,
                   held, want, val, panicked>>

(* sys_close of the caller's only reference to its entry.               *)
sys_close(p) ==
    /\ pc[p] = "idle"
    /\ held[p] # NULL
    /\ held' = [held EXCEPT ![p] = NULL]
    /\ UNCHANGED <<create_file_lock_initialized, lk, create_file_lock_in_use,
                   dinode, bitmap, dir, pc, want, ino, val, panicked>>

(* A kernel panic stops every CPU.                                       *)
Running == ~panicked

Next ==
    \/ \E p \in Procs, n \in Names : Running /\ sys_open(p, n)
    \/ \E p \in Procs, n \in Names : Running /\ sys_unlink(p, n)
    \/ \E p \in Procs : Running /\ sys_close(p)
    \/ \E p \in Procs : Running /\ CreateReadInit(p)
    \/ \E p \in Procs : Running /\ CreateSetInit(p)
    \/ \E p \in Procs : Running /\ CreateInitLock(p)
    \/ \E p \in Procs : Running /\ CreateAcquire(p)
    \/ \E p \in Procs : Running /\ CreateClaim(p)
    \/ \E p \in Procs : Running /\ CreateRecheck(p)
    \/ \E p \in Procs : Running /\ CreateAlloc(p)
    \/ \E p \in Procs : Running /\ CreateDirent(p)
    \/ \E p \in Procs : Running /\ CreateDone(p)
    \/ \E p \in Procs : Running /\ UnlinkLock(p)
    \/ \E p \in Procs : Running /\ UnlinkCheck(p)
    \/ \E p \in Procs : Running /\ delete_file(p)

Spec == Init /\ [][Next]_vars

------------------------------------------------------------------------------
PCs == {"idle", "c_init", "c_setinit", "c_initlock", "c_acquire", "c_claim",
        "c_sleep", "c_wake", "c_recheck", "c_alloc", "c_dir", "c_done",
        "u_lock", "u_check", "u_delete"}

TypeOK ==
    /\ create_file_lock_initialized \in {-1, 1}
    /\ lk \in Procs \cup {None}
    /\ create_file_lock_in_use \in {0, 1}
    /\ dinode \in [Inums -> [type : {0, 2}, start : Int, nblocks : Nat,
                             m24 : Int, m25 : Int]]
    /\ bitmap \in [Bytes -> 0..255]
    /\ dir \in [Inums -> Names \cup {NoName}]
    /\ held \in [Procs -> Inums \cup {NULL}]
    /\ pc \in [Procs -> PCs]
    /\ want \in [Procs -> Names \cup {NoName}]
    /\ val \in [Procs -> {-1, 0, 1}]
    /\ panicked \in BOOLEAN

(* The processes between claiming create_file_lock_in_use and clearing  *)
(* it: the allocation scan, the directory write and the final acquire.  *)
Creators == {p \in Procs : pc[p] \in {"c_alloc", "c_dir", "c_done"}}

(* create_file_lock_in_use serialises creators: it is set exactly while *)
(* one process is allocating, never two at once, and a creator asleep  *)
(* on channel 9999 always has a holder of the flag that will wake it.  *)
(* Broken if a path through the in_use test, the sleep loop or the     *)
(* re-test after a wakeup lets a creator on without claiming the flag,  *)
(* if the flag is cleared without wakeup(9999), or if the lazy          *)
(* initialisation of create_file_lock lets two CPUs hold it.            *)
CreateSerialised ==
    /\ Cardinality(Creators) <= 1
    /\ create_file_lock_in_use = 1 <=> Creators # {}
    /\ (\E p \in Procs : pc[p] = "c_sleep") => create_file_lock_in_use = 1

(* The free-block bitmap over the data region records exactly the      *)
(* extents of the allocated inodes, and no two allocated inodes share a *)
(* block.  It needs create_file_on_disk's choice of extent (20 blocks   *)
(* after the previous inode's, or the marked extent of a deleted one),  *)
(* delete_file's clearing of the bits and marks, and the mask helpers   *)
(* of set_blk_num_in_bitmap to agree over create/delete sequences.      *)
ExtentsMatchBitmap ==
    LET live == {i \in Inums : dinode[i].type # 0} IN
    /\ \A b \in DataBlocks :
           BitOf(bitmap, b) = 1 <=> \E i \in live : b \in Extent(dinode[i])
    /\ \A i, j \in live : i # j => Extent(dinode[i]) \cap Extent(dinode[j]) = {}

(* No two root directory entries hold the same name: sys_open's O_CREATE *)
(* creates a file only when none of that name exists.  create_file_on_disk *)
(* re-runs namei only after it has slept on channel 9999.               *)
UniqueNames ==
    \A i, j \in Inums : i # j /\ dir[i] # NoName => dir[i] # dir[j]
==============================================================================
