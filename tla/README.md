# TLA+ models of the kernel's process, memory and pipe core

This directory holds TLA+ models of the concurrency core of the teaching
kernel in `src/`. They cover the pipe layer of `kernel/sysfile.c`,
the file tables, the process table of `kernel/proc.c`, the fault handler of
`kernel/trap.c`, `sys_sbrk` of `kernel/sysproc.c`, and file creation and
deletion on disk in `kernel/fs.c`, and reads and writes of regular files
with their shared offsets. TLC checks each
model. `PROJECT.json` lists the components, runs, mutants, findings and
hazards, and maps every definition to the source lines it models.

## 1. Inventory

### Components and their state

| Component | Source | State | Operations |
|---|---|---|---|
| Process table and scheduler | `proc.c` | `ptable.proc[NPROC]`: `state`, `pid`, `parent`, `killed`, `chan`, `kstack`, `vspace`, `heap_cursor`, `lower_lim_heap_cursor`, `proc_ptr_to_global_table[NOFILE]`; `nextpid`; `ptable.lock` | `allocproc`, `userinit`, `fork`, `exit`, `wait`, `scheduler`, `sched`, `yield`, `sleep`, `wakeup`/`wakeup1`, `kill` |
| Global file table | `sysfile.c` | `global_file_info_array[NFILE]`: `in_mem_ref_count`, `ref_inode`, `current_offset`, `permissions`, `is_pipe`, `ref_pipe`; `first_file_allocated`; `global_ftable_lock` | `sys_open`, `sys_dup`, `sys_close`, `sys_fstat`, `update_global_table_on_fork`, `close_all_fds_for_process` |
| Pipes | `sysfile.c`, `defs.h` | `struct pipe` in the first bytes of one kalloc'd page: `ref_count_readers`, `ref_count_writers`, `read_cursor`, `write_cursor`, `reader_exists`, `writer_exists`; ring of `MAX_CURSOR_VALUE + 1` = 3901 positions | `sys_pipe`, pipe branches of `sys_read`, `sys_write`, `sys_close`, `pipe_check_if_read_needs_sleep`, `pipe_check_if_write_needs_sleep` |
| Inode read/write | `sysfile.c`, `fs.c` | shared `current_offset`, the cached inode's `size` and `valid`, the dinode's `size`, the inode sleeplock | inode branches of `sys_read`, `sys_write`, `sys_fstat`; `locki`, `unlocki`, `concurrent_stati` |
| Copy-on-write fault resolver | `trap.c` | per-page `vpage_info` (`ppn`, `present`, `writable`, `pre_cow_writable`, `used`); core-map `ref_count` under `cmap_lock` | `trap` for `err == 3` and `err == 7` |
| Stack growth | `trap.c` | stack region `size`, `stack_page_count` | `trap` for `err` 4, 5 and 6 |
| Heap resize | `sysproc.c`, `proc.c` | `heap_cursor`, `lower_lim_heap_cursor`, heap region `size` | `sys_sbrk`, the heap part of `fork` |
| File creation and deletion | `fs.c`, `sysfile.c` | dinodes in blocks 34..36 with their extent and deleted-extent marks, the free-block bitmap, root directory entries in blocks 37.., `create_file_lock` with its lazy-init flag, `create_file_lock_in_use` | `create_file_on_disk`, `delete_file`, `sys_open` with `O_CREATE`, `sys_unlink` |
| Outside the core | `fs.c`, `sysfile.c` | inode cache, buffer cache, superblock | `iget`/`irelease`, `readi`/`writei`, `namex`, `sys_exec`, ticks |

### How the components interact

- Shared state and locks. `ptable.lock` guards the process table.
  `global_ftable_lock` guards the file table and every pipe. `cmap_lock`
  guards the page reference counts.
- Sleep and wakeup. `sleep(chan, lk)` takes `ptable.lock`, releases `lk`,
  marks the caller SLEEPING on `chan` and switches away. `wakeup(chan)`
  makes every sleeper on `chan` RUNNABLE. `kill` makes a sleeper runnable.
  Pipe callers sleep on `active_pipe->data`, or on `&active_pipe` when the
  role is taken. `wait` sleeps on its own pid.
- Calls between components. `fork` calls `update_global_table_on_fork`.
  `exit` calls `close_all_fds_for_process` while it holds `ptable.lock`.
  `trap` calls `exit` for a killed process at the user-space boundary.
- Reference counts. Descriptor slots share global entries through
  `in_mem_ref_count`. Pipes count their ends in `ref_count_readers` and
  `ref_count_writers`. Physical pages are shared copy-on-write through the
  core map's `ref_count`.

### What is hard

- Several CPUs run processes. Any process may be preempted outside a
  spinlock.
- A process asleep on a channel waits for a wakeup that another process
  must issue. If nobody issues it, the process hangs, and no test shows
  this quickly.
- Counters are kept by hand across fork, dup, close and exit. Error paths
  can return after only part of an allocation.
- The two spinlocks are taken in opposite orders on two code paths.
- Bounds sit at boundaries: the ring wraps, the stack is capped at 10
  pages, and the heap arithmetic is 32-bit.

### Properties that make each component correct

- **Pipe**: the bytes between the cursors form a FIFO stream of at most
  `MAX_CURSOR_VALUE` bytes. At most one reader and one writer are active.
  A caller sleeps only while its wait condition holds and someone will
  wake it. A reader returns 0 once the writers are gone and the pipe is
  empty. The buffer is freed exactly once, after both counts reach 0.
- **File table**: each `in_mem_ref_count` equals the number of descriptor
  slots pointing at the entry. The pipe role counts equal the slots on each
  end. A failing call allocates nothing.
- **Process table**: pids are unique among live slots. `wait` returns a
  zombie child's pid and frees it exactly once, or returns -1 at once when
  there are no children. No wakeup is lost between `exit` and `wait`.
  Children are re-parented to init.
- **Locks**: no two CPUs wait on each other's spinlock.
- **Copy-on-write**: a shared page is freed only after its last sharer has
  copied or exited. Every faulting sharer gets a private writable copy.
- **Inode read/write**: a read returns at most the bytes between the
  offset and the end of the file, so no offset passes the end of the file.
- **File system**: one file per name; creators run the allocation scan one
  at a time; the bitmap marks exactly the blocks of allocated inodes, and
  no two inodes share a block.
- **Stack and heap**: the stack never exceeds 10 pages. Shrinking below
  `lower_lim_heap_cursor` does nothing. Growing and then shrinking by the
  same amount restores the cursor.

## 2. Plan

The modules are built in this order, most important behaviour first:

1. `Pipe` (done) and its abstract specification `PipeStream` (done). This
   is the blocking pipe protocol.
2. `FileTable` (done): `sys_open`, `sys_pipe`, `sys_dup`, `sys_close`,
   fork propagation and exit cleanup, over small `NFILE` and `NOFILE`.
3. `ProcTable` (done): `allocproc`, `fork`, `exit`, `wait`, `kill`,
   `yield` and `scheduler` on two CPUs, with the liveness of `initproc`'s
   `wait` under the scheduler's fairness.
4. Lock order (done, inside `ProcTable`): `global_ftable_lock` is a second
   lock owned by a CPU, taken by `exit` and by the pipe paths; a wait-for
   cycle is checked for (and found).
5. `CowFault` (done): three sharers of a data page and a code page, the
   `err == 3` and `err == 7` paths, `cmap_lock` and `kalloc` failure.
6. `UserMemory` (done): `sys_sbrk` and the stack-growth fault on a scaled
   machine whose `int` wraps where the real one does, with `fork` and
   `exec` as they set or leave the heap and stack fields.
7. `FileSystem` (done): `create_file_on_disk`, `delete_file`, `sys_open`
   with `O_CREATE` and `sys_unlink`, on two CPUs, with the bitmap.
8. `InodeIO` (done): the regular-file branches of `sys_read`, `sys_write`
   and `sys_fstat`, with shared offsets and `locki`'s revalidation.
9. A composed model in which ProcTable's `fork` and `exit` drive
   FileTable's propagation and cleanup, and Pipe callers sleep and wake
   through ProcTable.

## 3. Modules

### `PipeStream` (abstract)

`PipeStream` is a bounded FIFO queue `q` of at most `Capacity` bytes, with
two actions: `Put` appends a byte and `Get` removes the oldest.

### `Pipe`

`Pipe` models one pipe of `kernel/sysfile.c` and the processes that hold
its ends.

- State: the ring, `read_cursor`, `write_cursor`, `reader_exists`,
  `writer_exists`, `ref_count_readers`, `ref_count_writers`, and the
  `in_mem_ref_count` of the two `file_info` entries. `freed` records the
  `kfree`. Each process has:
  - `ends`: which ends its descriptor table points at;
  - `pc`, `want` and `got`: where it is in its call, the size it asked
    for, and the bytes moved so far;
  - `sleepOn`: the channel it sleeps on;
  - `killed` and `calls`.

  `lock` is the owner of `global_ftable_lock`.
- Ring positions are `0 .. MAX_CURSOR_VALUE`. They are offsets from
  `data + sizeof(struct pipe)`, and a cursor at the last position wraps
  to 0.
- Granularity: one action is one stretch of code under
  `global_ftable_lock`. That is one test of a sleep loop, or one byte of a
  copy loop. Only the lock owner takes such steps. `sleep` releases the
  lock. A woken process re-takes it (`Reacquire`) before it re-tests its
  loop condition. Both behaviours are those of `sleep()` in `proc.c`.
- Actions:
  - `sys_read` and `ReaderRole` cover lines 178–432 of `sys_read`. Then
    either `DrainByte` and `ClearReader` run (the no-writer path), or
    `pipe_check_if_read_needs_sleep` and `ReadByte` run (the blocking
    path).
  - `sys_write` (which returns -1 when there is no reader), `WriterRole`,
    `pipe_check_if_write_needs_sleep` and `WriteByte` cover `sys_write`.
  - `sys_close` is the pipe branch of `sys_close`.
  - `exit` is `close_all_fds_for_process`.
  - `kill` sets `killed` and wakes a sleeper. It takes only
    `ptable.lock`, so it can interleave with a holder of
    `global_ftable_lock`.
  - A killed process takes no new system call, because `trap()` exits it
    instead.
- Channels: `"data"` is `active_pipe->data`. `"local"` is `&active_pipe`,
  a stack address that no `wakeup` names.
- Byte values: written bytes carry their sequence number (`nsent`), so an
  overwritten byte would change the stream.
- Refinement: `Pipe` implements `PipeStream` under the mapping
  `q <- Stream`, the ring contents from `read_cursor` up to
  `write_cursor`. `Capacity` maps to `MAX_CURSOR_VALUE`, because one
  position always stays empty.

### `FileTable`

`FileTable` models `global_file_info_array`, every process's
`proc_ptr_to_global_table` and the counts of the pipes they reach.

- State:
  - `gft[i]`: entry `i`'s `in_mem_ref_count`, and for a pipe end the pipe
    page and `O_RDONLY` / `O_WRONLY` (`"R"`, `"W"`);
  - `fds[p][s]`: descriptor `s` of process slot `p`, an entry index or
    `NULL`;
  - `pipes[k]`: `ref_count_readers`, `ref_count_writers` and whether the
    page is allocated (`kalloc`ed and not yet `kfree`d);
  - `alive`: which process slots are in use;
  - `first_file_allocated`.
- Granularity: every operation holds `global_ftable_lock` from its first
  read to its last write, so each is one action. `fork`'s copy of the
  descriptor table happens outside the lock, but the child cannot run until
  `update_global_table_on_fork` has finished, so the two form one step.
- Actions: `sys_open` (both the first-open path, which zeroes every count,
  and the later path), `sys_pipe`, `sys_dup`, `sys_close`, `fork` and
  `exit`. The loops of `update_global_table_on_fork` and
  `close_all_fds_for_process` are folds (`FoldLeft`) of `ShareEntry` and
  `ReleaseEntry` over the open descriptors, lowest first, as the code walks
  them.
- Abstraction: path resolution, `create` and argument checks either fail
  with no change (left out) or yield an inode that no modelled operation
  reads, so inode entries carry no inode. `kalloc` failure in `sys_pipe`
  changes nothing and is left out. `InitProc` (`ptable.proc[0]`) never
  exits.
- `Booted = TRUE` starts after the first process opened the console as
  descriptor 0, which is how user space starts; `Booted = FALSE` starts
  before any open.

### `ProcTable`

`ProcTable` models `ptable` of `kernel/proc.c` on several CPUs.

- State per slot: `state`, `pid`, `parent` (a slot, or `NoSlot` for the
  null parent of `initproc`), `killed`, `chan`, `kstack` (kernel stack
  allocated), and `resume`, where the process continues when switched to:
  `"ret"` for `yield` and `forkret`, `"wait"` for the sleep in `wait`.
- State per CPU: `cpu[c]`, the slot it runs or `Idle` for its scheduler;
  `cpc[c]`, where that process is in the kernel; `fchild[c]`, the child of
  a fork in progress. `lock` is the CPU that holds `ptable.lock`. The
  scheduler keeps the lock across `swtch`, and the process releases it, so
  the lock belongs to a CPU.
- Actions, one per stretch of code between lock operations:
  - `Schedule` and `SchedRelease` (`scheduler`);
  - `ResumeRet` (`forkret`, or `yield` after `sched`);
  - `yield` (the timer interrupt);
  - `allocproc`, `fork_kstack` (the `kalloc` of the kernel stack, which
    may fail, then `child->parent`) and `fork_copy` (the address-space
    copy, which may fail, then `RUNNABLE`);
  - `exit` (the child scan under `ptable.lock`), `exit_files`
    (`close_all_fds_for_process`, which needs `global_ftable_lock`, then
    `ZOMBIE` and `wakeup1` of the parent) and `exit_gap`;
  - `pipe_io` and `pipe_wakeup`: a pipe read or write takes
    `global_ftable_lock` (`ftlock`), and at its end calls `wakeup`, which
    needs `ptable.lock`. The data movement is in `Pipe`; here only the two
    locks matter;
  - `wait` and `ResumeWait`;
  - `kill`.
- A killed process takes no step at the user boundary other than `exit`
  (`trap` lines 36–41, 325); `KilledExit` names that forced exit.
- A CPU spinning on a lock it cannot get stays at its program counter
  (`exit_files` while another CPU holds `ftlock`, `pipe_wakeup` while
  another holds `lock`). `WaitsFor` reads the wait-for relation off that.
- `p->parent->pid` for the null parent of `initproc` reads memory at a small
  address, so the comparison is an unknown boolean (`nul`), chosen afresh
  at each scan.
- `initproc` never exits and `kill(1)` is not taken, as the user `init`
  program is not in this repository.
- Bounds: `NPROC = 3`, two CPUs, pids up to 4 (`MaxPid` caps `nextpid`).
  That allows init, a child and a grandchild, a slot reused after a reap,
  and both CPUs in the kernel at once.

### `CowFault`

`CowFault` models the copy-on-write page sharing that fork sets up, and the
write-fault resolver in `trap()` (`kernel/trap.c`) that breaks it.

- State:
  - `pte[p][v]`: the `vpage_info` of page `v` of process `p`, with its
    `ppn`, `writable` and `pre_cow_writable` (`ppn = NoPage` is not
    used/present);
  - `ref[x]`: the core-map `ref_count` of physical page `x`;
  - `allocated`: the pages `kalloc` handed out and `kfree` has not yet
    taken back;
  - `fpc`, `fv`, `fnew`: a fault between its unlocked copy and its
    `cmap_lock` section;
  - `killed` and `panicked`.
- Actions:
  - `trap_err3` and `trap_err7` are the two duplicated paths (lines
    83–170 and 181–257). Each is `CowCopy`, the validity test at line 104
    or 208, then `kalloc` and the unlocked `memmove`.
  - `CowRelease` is the `cmap_lock` section, which decrements the old
    page's count and frees it at zero, followed by the remap.
  - Splitting the fault in two lets other processes fault, fork and exit
    between the copy and the decrement.
  - On a failed `kalloc` the user path changes nothing, so the process
    faults again (a stutter). The kernel path sets `panicked`, as
    `panic("trap")` does, and so does a kernel write to a page that was
    never writable.
- Modelled from the spec, because `vspace.c` and `kalloc.c` are not in
  this repository:
  - `fork` is `vspacecopy`: every present page is shared read-only and
    its count is raised.
  - `exit` is `vspacefree`: every mapping's count is dropped, and a page
    is freed at zero.
  - A fresh page from `kalloc` has count 1.
- Bounds: three processes, one writable data page and one read-only code
  page, and four physical pages, so that `kalloc` runs out after two
  copies.

### `UserMemory`

`UserMemory` models the heap and stack of each process slot: `heap_cursor`,
`lower_lim_heap_cursor`, `stack_page_count` (the source's names),
`heapPages` and `stackPages` (the page numbers the two regions map),
`killed` and `alive`.

- The machine is scaled: `int` has `W` bits and `SZ_2G = 2^(W-1)`, which is
  `INT_MAX + 1` just as 2^31 is for the real 32-bit `int`. So
  `heap_cursor + size` and `0 - size` wrap (`Wrap`) exactly where the code's
  sums do. The code's 4095 is `PGSIZE - 1`. The comparisons with the
  `uint64_t` `va_base` are unsigned (`UGt`).
- `sys_sbrk` is one action over every branch: the reset of a zero cursor,
  size 0, the growth guard, the `vregionaddmap` failure, the shrink no-op
  against the base or the pinned floor, and the `vregiondelmap` failure.
- `stack_fault` is the err 4/5/6 branch of `trap`, with `page_index`,
  `start_addr_alloc` and `exceeds_capacity` written as in the code. It is
  taken only for an address whose page neither region maps.
- `fork` copies both regions and the cursor, pins the floors at the
  parent's first fork, and leaves `stack_page_count`. `exec` sets
  `stack_page_count` to 1, then either fails (old address space) or
  installs an empty heap and one stack page; it leaves the cursor and the
  floor. `exit` frees the address space.
- The regions' recorded sizes are left out: they only make the region cover
  what is mapped next, and keeping them makes the state space unbounded
  (see the `sysproc.c:146` hazard).
- `vregionaddmap`, `vregiondelmap`, `vspacecopy` and `vspaceinitstack` are
  in `vspace.c`, outside this repository, and are modelled from the spec.

### `FileSystem`

`FileSystem` models `create_file_on_disk` and `delete_file` of
`kernel/fs.c` with the callers that drive them, `sys_open` with `O_CREATE`
and `sys_unlink` of `kernel/sysfile.c`, for processes on different CPUs.

- State. `dinode[i]` keeps, for the inums of blocks 34..36 that the runs
  reach, the type, the extent (`start`, `nblocks`) and the deleted-extent
  marks `extra_extents_blk_nums[24]`/`[25]` (`m24`, `m25`). `bitmap` is the
  free-block bitmap as bytes; `dir[i]` is the name in root entry `i`, or
  `NoName`. `create_file_lock_initialized`, `lk` (the CPU holding
  `create_file_lock`, or `None`) and `create_file_lock_in_use` are the
  globals of `fs.c`. Per process: `pc`, the name `want`ed, the inum `ino`
  being created or deleted, the local `val` of the lazy init, and the inum
  `held` open.
- Actions. `sys_open` runs `namei` and either opens the file or enters
  `create_file_on_disk`, whose steps are one action each, in the code's
  order: read the init flag (`CreateReadInit`), set it (`CreateSetInit`),
  `initlock` (`CreateInitLock`), `acquire` (`CreateAcquire`), the
  `in_use` test (`CreateClaim`, which may sleep on channel 9999), the test
  after a wakeup (`CreateRecheck`), the allocation scan with its bitmap
  update (`CreateAlloc`), the root-directory write (`CreateDirent`) and the
  release of the flag with `wakeup(9999)` (`CreateDone`). `sys_unlink` is
  `namei`, `locki` (`UnlinkLock`), the open-file check under
  `global_ftable_lock` (`UnlinkCheck`) and `delete_file`. `sys_close`
  drops the held file.
- The bitmap is updated through `set_blk_num_in_bitmap` and the mask
  helpers `create_set_low_bitmask`/`create_set_high_bitmask`, with C's
  truncating division for `block_steps`.
- A kernel panic sets `panicked` and stops every action. The code panics
  on: a release of `create_file_lock` by a CPU that does not hold it
  (after `initlock` reset it), no free inode, a mark that does not follow
  the previous extent, `locki` of a zeroed inode, and (as one of two
  outcomes) the write through NULL in `sys_unlink` of a missing name.
- Initial disk. `mkfs` is not in the repository. Init is the disk the
  code expects: blocks below `DataStart` = 49 are in use, inode 28 is free
  and carries the marks 49/68 that the scan's special case for inum 28
  relies on, and the other inodes are zero.
- Holes that the model keeps: an inode whose `last_free_block` is -1
  makes the scan skip four inums; `delete_file` clears root entry `inum`
  of block 37 even when the create wrote it to block 37 + inum/32.

### `InodeIO`

`InodeIO` models the regular-file branches of `sys_read`, `sys_write` and
`sys_fstat` (`kernel/sysfile.c`) on one file, with `locki`, `unlocki` and
`concurrent_stati` (`kernel/fs.c`).

- State. `off[e]` is `current_offset` of global entry `e`; the constant
  `EntryOf` says which entry each process's descriptor points at, so two
  processes with one entry share the offset as after `fork` or `dup`.
  `dsize` is the dinode's size on disk. `isize` and `valid` are the cached
  `struct inode`'s size and valid flag. `ilock` holds the inode sleeplock.
  Per process: `pc` and the size argument `req`. The offsets both calls
  read before `locki` are overwritten after it, so they are not state.
- Actions. `sys_read`, `sys_write` and `sys_fstat` are the checks under
  `global_ftable_lock` up to its release. `locki` takes the sleeplock and
  reloads `isize` from `dsize` when `valid` is 0. `ReadIO` re-reads the
  offset and clamps the size when `size > fd_inode->size - offset`. Since
  `size` is a `uint` (`inc/file.h`), that difference is unsigned: when
  the cached size is below the offset it wraps, and no clamp happens.
  `UGreater` states the comparison exactly without 32-bit arithmetic, which
  TLC cannot do. `ReadIO` then advances the offset by a positive count and
  unlocks. The model issues a read only while the offset is within the
  extent (`off <= Cap`); the code has no such bound. `WriteIO` re-reads the
  offset and panics if `(offset + size) / BSIZE` is past the extent, or else
  grows the dinode's size, advances the offset and unlocks.
  `WriteRevalidate` is `fd_inode->valid = 0`, done after `unlocki`, and
  `WriteUnlock` the `unlocki` after the reloading `locki`. `FstatCopy` is
  `stati` and `unlocki`.
- The bytes are left out. The copy loops run under the sleeplock over a
  contiguous extent, so what one process can observe of another is the
  sizes and the offsets. Each `global_ftable_lock` section is one step.
- The T_DEV branches (the console) and the branches for non-contiguous
  extents, which panic unconditionally, are left out.

### Abstractions

- `MAX_CURSOR_VALUE` is 2 in the runs rather than 3900. The code uses the
  value only in the wrap test and the full and empty tests. With 3
  positions, a 3-byte write fills the ring and the cursors wrap within one
  call.
- The pipe is created by Init, in the state that `sys_pipe` followed by
  `fork` produces. `sys_pipe` and `dup` belong to FileTable.
- The argument checks (`argfd`, `argint`, `argptr`) fail without changing
  state, so they are left out. The user buffer and its contents are left
  out too.

## 4. Runs

### Pipe

All Pipe runs use `MCPipe`: processes `p1` (write end), `p2` (read end) and
`p3` (both ends), `MAX_CURSOR_VALUE = 2`, read sizes {1, 2}, write sizes
{1, 3} and at most 2 system calls per process. These bounds are enough to
produce every case the properties depend on:

- a write larger than the ring;
- two readers and two writers contending for a role;
- wrap-around of both cursors;
- closing the last writer or reader while the other end sleeps;
- kill of a sleeper.

Every action fires.

| Run | Expect | Property | What it shows |
|---|---|---|---|
| `pipe_safety` | pass (928k states) | `TypeOK`, `RoleExclusion`, `PipeStreamRefined` | The cursors and ring implement a bounded FIFO stream. The role flags keep one active reader and one active writer, including across the release-then-clear on the drain path. |
| `pipe_lost_wakeup` | violation | `NoPipeDeadlock` | Reader asleep on the empty ring, then a 3-byte write. The writer fills the ring and sleeps without waking the reader, and both sleep forever. |

A second reader that finds the role taken sleeps on `&active_pipe`, while
the first reader's exit wakes only `active_pipe->data`. An earlier role-wait
invariant showed this. It is kept as a hazard without a run, because the spec
itself flags the local-address key.

`Pipe` also defines `SleepersHavePeer`. TLC finds it violated: a reader
asleep on an empty pipe stays asleep after the last writer closes, because
close never wakes and the loop never re-tests the writer count. Its run was
given up for the `InodeIO` runs; the hang is the same kind as
`pipe_lost_wakeup`'s and stays a hazard in `PROJECT.json`.

`Pipe` also defines `NoSleepWithData`, which TLC finds violated at
`read_cursor = 2`, `write_cursor = 0`: one byte is pending, but the
reader's sleep test treats the ring as empty. Its run was given up for the
file-system runs; it remains a hazard in `PROJECT.json`.

### FileTable

All FileTable runs use `MCFileTable`: three process slots (`p1` is
`InitProc`), `NOFILE = 2`, `NFILE = 3` and two pipe pages. With three
entries, a pipe and an open file fill the table. With two descriptors, a
pipe fills a process's table. So both exhaustion paths of `sys_open` and
`sys_pipe` are reached, as well as fork of a pipe, dup, and closes in every
order. `NFILE = 4` gives the same results in 2 minutes instead of 9
seconds.

| Run | Expect | Property | What it shows |
|---|---|---|---|
| `ft_safety` | pass (299k states) | `TypeOK`, `NoUseAfterFree` | After boot, no descriptor ever names an entry whose count is zero or a pipe whose page was freed, and role counts never go negative. Since a second `kfree` needs a close through such a descriptor, the page is also freed at most once. |

`FileTable` also defines `NoLeakedAllocation`. `sys_pipe` failing for lack
of a second descriptor slot keeps the page, both entries and the slot it
set, and `sys_open` with no free descriptor leaks its entry. The run that
showed this was given up for the file-system runs; both remain hazards.

A pipe made and inherited before the first `sys_open` is left under counts
that the open zeroes. This is a hazard without a run, because `ft_safety`
starts after the console open.

`ft_safety` checks deadlock: `InitProc` can always close or open.

### ProcTable

All ProcTable runs use `MCProcTable` with the bounds above and
`CHECK_DEADLOCK FALSE`. `proc_safety` uses `FairSpec`, and the violation
runs use `Spec`. When every process sleeps, for example `initproc`
in `wait` with no child to reap, the scheduler spins for ever. The kernel
is idle, not stopped.

| Run | Expect | Property | What it shows |
|---|---|---|---|
| `proc_safety` | pass (1.0M states, about 3 min) | `TypeOK`, `OrphansAdopted`, `NoLostChildWakeup`, `WaitReturns` | Every started process other than `initproc` has a live parent, so exit adopts all children. No parent sleeps in `wait` while a child of its is a zombie. `initproc` waiting with a zombie child gets back to user space, unless the lock-order deadlock has struck. |
| `proc_lock_order` | violation | `NoLockCycle` | c1 runs `exit` and holds `ptable.lock` while it needs `global_ftable_lock`. c2 finishes a pipe read and holds `global_ftable_lock` while `wakeup` needs `ptable.lock`. Neither can move. |
| `proc_freed_stack` | violation | `NoFreedStackInUse` | A child exits on c2 and releases `ptable.lock` before `sched()`. `initproc`'s `wait` on c1 then reaps it, freeing the kernel stack c2 is running on. |

`WaitReturns` is stated for `initproc`, which every orphan is handed to.
The same property for every slot holds at `MaxPid = 3` (35 s), but at
`MaxPid = 4` it takes more than 5 minutes. A `fork` that fails after
`allocproc` leaves its slot `EMBRYO` for ever; this is kept as a hazard
without a run.

### CowFault

`cow_safety` uses `MCCowFault`. It sets `CHECK_DEADLOCK FALSE`, because a
panic halts every process.

| Run | Expect | Property | What it shows |
|---|---|---|---|
| `cow_safety` | pass (3.5k states) | `TypeOK`, `NoFreedPageMapped`, `CorePageAccounting` | Sharers fault concurrently on the same page, fork and exit in every order. No sharer ever maps a freed page. Every count equals the number of mappings, plus a page copied but not yet mapped, and a page is allocated exactly while its count is positive. |

The panic of `trap_err3` under memory exhaustion (`kernel/trap.c:118`,
then line 169) has no run of its own. It is listed as a hazard.

### UserMemory

Both runs use `MCUserMemory`: two slots, `W = 8`, `PGSIZE = 8`
(`SZ_2G = 128`, sixteen pages, stack reserve pages 6–15) and heap base 16.
The sbrk sizes are 0, ±25, 127 and -128. 25 takes the cursor from the base
into the page under the reserve and then past the guard. 127 is `INT_MAX`
and -128 is `INT_MIN`. The fault addresses are:
- a heap address;
- 46 and 47, on either side of `exceeds_capacity`;
- 48;
- 119;
- 128.

| Run | Expect | Property | What it shows |
|---|---|---|---|
| `mem_safety` | pass (201k states) | `TypeOK`, `HeapBelowStackReserve`, `HeapFloorHeld` | The heap never reaches into the stack reserve, even when `heap_cursor + size` overflows. No process shrinks below the floor pinned at fork. |

`UserMemory` also defines `HeapStackDisjoint`. TLC finds it violated: a fault
at 47 (one byte below the reserve) maps stack page 10, an eleventh page, and
`sbrk(25)` then maps the same page for the heap. Its run was given up for
the `InodeIO` runs; it stays a hazard.

### FileSystem

Both runs use `MCFileSystem`: processes `a` and `b`, names `n1` and `n2`,
three inode slots (inums 28..30, `NSLOT = 3`), 20 blocks per file from
block 49, 32 entries per directory block, bitmap from block 26. Two
processes are enough for every race the code has, since the lock and the
flag are global. Two names allow creating one while the other is deleted.
Three slots allow a create after a delete that reuses a marked extent,
with a live inode on each side of it. Every action and every outcome of
each action fires.

| Run | Expect | Property | What it shows |
|---|---|---|---|
| `fs_safety` | pass (283k states) | `TypeOK`, `CreateSerialised`, `ExtentsMatchBitmap` | Even with the lazy-init race on `create_file_lock`, at most one process is past the `in_use` test, and a sleeper on channel 9999 always has a creator to wake it. Over every create/delete sequence, including a double unlink of one file, the bitmap bits of the data region equal the extents of the allocated inodes, and no two extents overlap. |
| `fs_dup_name` | violation | `UniqueNames` | `a` and `b` both open `n1` with `O_CREATE`; both find no entry in `namei` before either enters `create_file_on_disk`. `a` creates inode 28 and releases the flag. `b` then claims the flag without sleeping, so it never re-runs `namei`, and creates inode 29 with the same name. |

Neither run assumes fairness, and both set `CHECK_DEADLOCK FALSE`:
a panic halts the model, just as it halts the kernel.

### InodeIO

Both runs use `MCInodeIO` with three processes. Sizes are 1 and 2, and the
extent has 2 blocks of 2 bytes. Four bytes let writes grow the file twice,
and they reach the panic at the end of the extent. In `io_safety` each
process has its own entry (`MCEntryOfOwn`). In `io_stale_size`, `a` and `b`
share `e1` as after `fork` or `dup` (`MCEntryOf`). With a shared entry,
`OffsetWithinFile` fails through the unsigned clamp, so the pass run checks
it, and `CachedSizeCurrent`, over separate entries. Every action fires.

| Run | Expect | Property | What it shows |
|---|---|---|---|
| `io_safety` | pass (384k states, about 6 s) | `TypeOK`, `OffsetWithinFile`, `CachedSizeCurrent` | With separate entries, no offset passes the end of the file on disk: readers and writers interleave on one inode, and the cached size only grows. While the cache is marked valid, the cached inode's size differs from the dinode's only while a `sys_write` is between `write_dinode` and `valid = 0`. |
| `io_stale_size` | violation | `OffsetWithinFile` | `b` starts a read and `a` a write, both through `e1`. `a`'s `locki` loads size 0. `a` writes 2 bytes (offset 2, dinode size 2), unlocks, and has not yet cleared `valid`. `b` then takes the sleeplock, and its `locki` does not reload. `0 - 2` wraps as unsigned, so the read is not clamped. It returns 1, reading past the end of the file, and moves the offset to 3 in a 2-byte file. |

Neither run assumes fairness, and both set `CHECK_DEADLOCK FALSE`. A panic
halts the model.

### Deadlock checking and fairness

`CHECK_DEADLOCK FALSE` (Pipe runs): the violation runs show that the kernel does reach
states in which every remaining process is asleep for good. The system can
also stop once every process has used its system calls or exited.

Fairness (`ProcTable!Fairness`, used only by `proc_safety`):

- **Strong fairness for each CPU's kernel steps (`KernelStep(c)`).** A
  process in the kernel keeps its CPU until it sleeps or yields, and only
  one of its steps is enabled at a time. Its spinlock steps are enabled
  only while the lock is free. Strong fairness says a lock that is free
  again and again is eventually taken. A test-and-set spinlock does not
  promise this, but no lock is held for ever except in the lock cycle,
  which `WaitReturns` excludes. The timer interrupt reaches every running
  process, so the forced `exit` of a killed process is included.
- **Strong fairness for scheduling each slot.** `scheduler()`'s scan visits
  every slot on each pass, so a slot that is `RUNNABLE` again and again is
  eventually run.
- **No fairness for user choices.** `fork`, `exit`, `wait`, `kill` and pipe
  I/O are never forced.

## 5. Not modelled, and why

- The argument layout of `sys_exec` on the new user stack: address
  arithmetic and copies in one process, with no shared state. What `exec`
  does to the heap and stack fields is in `UserMemory`.
- The recorded sizes of the heap and stack regions. A partial-page shrink
  lowers the heap size by bytes, while growth adds whole pages, so the size
  drifts without bound.
- The rest of `fs.c`: the inode cache (`iget`, `idup`, `irelease`),
  `readi`/`writei`, `namex` over a general tree, and the superblock. The
  references that `create_file_on_disk`, `delete_file` and `sys_unlink`
  take with `iget` are never released. That can fill the cache, but only
  after far more files than a run can create. The root directory's size
  also grows on every reuse of inode 28, and nothing reads it back in the
  modelled paths. `get_block_state` and `number_of_high_bits` are never
  called.
- Device drivers, ticks and `sys_sleep`.
- The T_DEV branches of `sys_read` and `sys_write`. They drive the console,
  which is out of scope. The device write takes the inode sleeplock while
  it holds `global_ftable_lock`, which stays a hazard.
- The composition of `ProcTable`, `FileTable` and `Pipe` (planned).
