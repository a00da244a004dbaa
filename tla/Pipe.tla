-------------------------------- MODULE Pipe --------------------------------
(***************************************************************************)
(* One pipe of kernel/sysfile.c: its ring buffer and cursors, the          *)
(* reader_exists / writer_exists role flags, the reader and writer counts, *)
(* and the processes that call sys_read, sys_write and sys_close on its    *)
(* two ends, or exit.  Every pipe operation runs under global_ftable_lock; *)
(* the lock is released only by sleep() (kernel/proc.c) and at return.     *)
(*                                                                         *)
(* Ring positions are 0 .. MAX_CURSOR_VALUE, offsets from                  *)
(* data + sizeof(struct pipe); a cursor at MAX_CURSOR_VALUE wraps to 0.    *)
(* A sleeping process waits on a channel: "data" is active_pipe->data,     *)
(* which wakeup() is called on; "local" is &active_pipe, the address of a  *)
(* local variable of the sleeper, which nothing ever wakes up.  kill()     *)
(* wakes any sleeper.  Bytes written carry their sequence number so that   *)
(* an overwritten or re-read byte is visible.                              *)
(***************************************************************************)
EXTENDS Naturals, Sequences, FiniteSets

CONSTANTS Procs,            \* processes that hold ends of the pipe
          NoProc,           \* lock owner when global_ftable_lock is free
          MAX_CURSOR_VALUE, \* last ring position (3900 in the code)
          InitEnds,         \* ends each process holds: pipe() then fork()
          ReadSizes,        \* byte counts passed to sys_read
          WriteSizes,       \* byte counts passed to sys_write
          MaxCalls          \* bound: syscalls per process

Ends == {"R", "W"}

ASSUME /\ MAX_CURSOR_VALUE \in Nat \ {0}
       /\ InitEnds \in [Procs -> SUBSET Ends]
       /\ ReadSizes \subseteq Nat /\ WriteSizes \subseteq Nat
       /\ MaxCalls \in Nat

VARIABLES ring,              \* byte at each ring position
          read_cursor, write_cursor,
          reader_exists, writer_exists,
          ref_count_readers, ref_count_writers,
          in_mem_ref_count,  \* of the read-end and write-end file_info
          freed,             \* kfree(pipe->data) has been called
          ends,              \* per process: the ends its fd table points at
          pc, want, got,     \* per process: location, size, bytes so far
          sleepOn,           \* per process: channel slept on, or "none"
          lock,              \* owner of global_ftable_lock
          killed, calls,
          nsent              \* bytes written so far (sequence numbers)

pipeVars == <<ring, read_cursor, write_cursor, reader_exists, writer_exists,
              ref_count_readers, ref_count_writers, in_mem_ref_count, freed>>
procVars == <<ends, pc, want, got, sleepOn, lock, killed, calls, nsent>>
vars == <<pipeVars, procVars>>

Positions == 0 .. MAX_CURSOR_VALUE
RingSize == MAX_CURSOR_VALUE + 1
ByteBound == MaxCalls * Cardinality(Procs) * (IF WriteSizes = {} THEN 0
                 ELSE CHOOSE m \in WriteSizes : \A s \in WriteSizes : s <= m)

\* Mutant: the wrap test misses the last position.
AdvanceLate(c) == IF c > MAX_CURSOR_VALUE THEN 0 ELSE c + 1

\* The cursor step at the end of each byte: wrap at the last position.
Advance(c) == IF c = MAX_CURSOR_VALUE THEN 0 ELSE c + 1

\* Bytes between the cursors, and the stream they hold.
Pending == (write_cursor - read_cursor + RingSize) % RingSize
Stream == [i \in 1 .. Pending |-> ring[(read_cursor + i - 1) % RingSize]]

\* Condition of the loop in pipe_check_if_read_needs_sleep.
read_needs_sleep ==
    \/ read_cursor = write_cursor
    \/ read_cursor < write_cursor /\ write_cursor - read_cursor <= 0
    \/ read_cursor = MAX_CURSOR_VALUE /\ write_cursor = 0

\* Mutant: the full test forgets the wrapped case.
write_needs_sleep_nowrap ==
    write_cursor < read_cursor /\ read_cursor - write_cursor <= 1

\* Condition of the loop in pipe_check_if_write_needs_sleep.
write_needs_sleep ==
    \/ write_cursor < read_cursor /\ read_cursor - write_cursor <= 1
    \/ read_cursor = 0 /\ write_cursor = MAX_CURSOR_VALUE

\* sleep(chan, &global_ftable_lock): record the channel, drop the lock.
Sleep(p, ch) == /\ sleepOn' = [sleepOn EXCEPT ![p] = ch]
                /\ lock' = NoProc

\* wakeup(chan): every process sleeping on chan becomes runnable.
Wakeup(ch) == sleepOn' = [q \in Procs |-> IF sleepOn[q] = ch THEN "none"
                                                            ELSE sleepOn[q]]

SetPc(p, l) == pc' = [pc EXCEPT ![p] = l]

-----------------------------------------------------------------------------
Init ==
    /\ ring = [i \in Positions |-> 0]
    /\ read_cursor = 0 /\ write_cursor = 0
    /\ reader_exists = 0 /\ writer_exists = 0
    /\ ref_count_readers = Cardinality({p \in Procs : "R" \in InitEnds[p]})
    /\ ref_count_writers = Cardinality({p \in Procs : "W" \in InitEnds[p]})
    /\ in_mem_ref_count = [e \in Ends |->
                             Cardinality({p \in Procs : e \in InitEnds[p]})]
    /\ freed = FALSE
    /\ ends = InitEnds
    /\ pc = [p \in Procs |-> "idle"]
    /\ want = [p \in Procs |-> 0] /\ got = [p \in Procs |-> 0]
    /\ sleepOn = [p \in Procs |-> "none"]
    /\ lock = NoProc
    /\ killed = [p \in Procs |-> FALSE]
    /\ calls = [p \in Procs |-> 0]
    /\ nsent = 0

\* A syscall starts: trap() exits a killed process instead, and sys_read /
\* sys_write take global_ftable_lock before checking their arguments.
Enter(p, n) == /\ pc[p] = "idle" /\ lock = NoProc /\ ~killed[p]
               /\ calls[p] < MaxCalls
               /\ calls' = [calls EXCEPT ![p] = @ + 1]
               /\ want' = [want EXCEPT ![p] = n]
               /\ got' = [got EXCEPT ![p] = 0]

\* A runnable process back from sleep() re-takes global_ftable_lock.
Reacquire(p) ==
    /\ pc[p] \in {"rd_role", "rd_data", "wr_role", "wr_space"}
    /\ sleepOn[p] = "none" /\ lock = NoProc
    /\ lock' = p
    /\ UNCHANGED <<pipeVars, ends, pc, want, got, sleepOn, killed, calls,
                   nsent>>

-----------------------------------------------------------------------------
(* sys_read on the read end: argument checks, then the role loop.         *)
sys_read(p, n) ==
    /\ "R" \in ends[p]
    /\ Enter(p, n)
    /\ lock' = p
    /\ SetPc(p, "rd_role")
    /\ UNCHANGED <<pipeVars, ends, sleepOn, killed, nsent>>

\* Mutant: the role is taken without testing reader_exists.
ReaderRoleUnguarded(p) ==
    /\ pc[p] = "rd_role" /\ lock = p
    /\ reader_exists' = 1
    /\ lock' = p /\ SetPc(p, "rd_data")
    /\ UNCHANGED <<sleepOn, ring, read_cursor, write_cursor, writer_exists,
                   ref_count_readers, ref_count_writers, in_mem_ref_count,
                   freed, ends, want, got, killed, calls, nsent>>

\* while (reader_exists == 1) sleep(&active_pipe, ...); then take the role
\* and choose between end-of-stream, draining without writers, and the
\* blocking path.
ReaderRole(p) ==
    /\ pc[p] = "rd_role" /\ lock = p
    /\ \/ /\ reader_exists = 1
          /\ Sleep(p, "local")
          /\ UNCHANGED <<pipeVars, pc>>
       \/ /\ reader_exists = 0
          /\ reader_exists' = 1
          /\ CASE ref_count_writers = 0 /\ read_cursor = write_cursor ->
                      lock' = NoProc /\ SetPc(p, "rd_clear")
               [] ref_count_writers = 0 /\ read_cursor # write_cursor
                  /\ want[p] > 0 ->
                      lock' = p /\ SetPc(p, "rd_drain")
               [] OTHER -> lock' = p /\ SetPc(p, "rd_data")
          /\ UNCHANGED <<sleepOn, ring, read_cursor, write_cursor,
                         writer_exists, ref_count_readers, ref_count_writers,
                         in_mem_ref_count, freed>>
    /\ UNCHANGED <<ends, want, got, killed, calls, nsent>>

\* No writers: copy bytes until the cursors meet or the count is reached,
\* then release the lock (reader_exists is cleared after the release).
DrainByte(p) ==
    /\ pc[p] = "rd_drain" /\ lock = p
    /\ read_cursor' = Advance(read_cursor)
    /\ got' = [got EXCEPT ![p] = @ + 1]
    /\ IF read_cursor' = write_cursor \/ got'[p] = want[p]
         THEN lock' = NoProc /\ SetPc(p, "rd_clear")
         ELSE UNCHANGED <<lock, pc>>
    /\ UNCHANGED <<ring, write_cursor, reader_exists, writer_exists,
                   ref_count_readers, ref_count_writers, in_mem_ref_count,
                   freed, ends, want, sleepOn, killed, calls, nsent>>

\* active_pipe->reader_exists = 0, written after release(&global_ftable_lock).
ClearReader(p) ==
    /\ pc[p] = "rd_clear"
    /\ reader_exists' = 0
    /\ SetPc(p, "idle")
    /\ UNCHANGED <<ring, read_cursor, write_cursor, writer_exists,
                   ref_count_readers, ref_count_writers, in_mem_ref_count,
                   freed, ends, want, got, sleepOn, lock, killed, calls, nsent>>

\* The loop of pipe_check_if_read_needs_sleep, one test per step.
pipe_check_if_read_needs_sleep(p) ==
    /\ pc[p] = "rd_data" /\ lock = p
    /\ IF read_needs_sleep
         THEN Sleep(p, "data") /\ UNCHANGED pc
         ELSE SetPc(p, "rd_byte") /\ UNCHANGED <<sleepOn, lock>>
    /\ UNCHANGED <<pipeVars, ends, want, got, killed, calls, nsent>>

\* Leaving the read: drop the role, wake writers, release the lock.
ReadDone(p) == /\ reader_exists' = 0
               /\ Wakeup("data")
               /\ lock' = NoProc
               /\ SetPc(p, "idle")

\* One iteration of the blocking read loop; it stops after the last byte
\* requested or as soon as no writer remains.
ReadByte(p) ==
    /\ pc[p] = "rd_byte" /\ lock = p
    /\ \/ /\ want[p] = 0
          /\ ReadDone(p)
          /\ UNCHANGED <<read_cursor, got>>
       \/ /\ want[p] > 0
          /\ read_cursor' = Advance(read_cursor)
          /\ got' = [got EXCEPT ![p] = @ + 1]
          /\ IF got'[p] = want[p] \/ ref_count_writers = 0
               THEN ReadDone(p)
               ELSE SetPc(p, "rd_data") /\ UNCHANGED <<reader_exists, sleepOn, lock>>
    /\ UNCHANGED <<ring, write_cursor, writer_exists, ref_count_readers,
                   ref_count_writers, in_mem_ref_count, freed,
                   ends, want, killed, calls, nsent>>

-----------------------------------------------------------------------------
(* sys_write on the write end.  With no reader it returns -1 at once.     *)
sys_write(p, n) ==
    /\ "W" \in ends[p]
    /\ Enter(p, n)
    /\ IF ref_count_readers = 0
         THEN lock' = NoProc /\ UNCHANGED pc
         ELSE lock' = p /\ SetPc(p, "wr_role")
    /\ UNCHANGED <<pipeVars, ends, sleepOn, killed, nsent>>

\* while (writer_exists == 1) sleep(&active_pipe, ...); then take the role.
WriterRole(p) ==
    /\ pc[p] = "wr_role" /\ lock = p
    /\ \/ /\ writer_exists = 1
          /\ Sleep(p, "local")
          /\ UNCHANGED <<writer_exists, pc>>
       \/ /\ writer_exists = 0
          /\ writer_exists' = 1
          /\ SetPc(p, "wr_space")
          /\ UNCHANGED <<sleepOn, lock>>
    /\ UNCHANGED <<ring, read_cursor, write_cursor, reader_exists,
                   ref_count_readers, ref_count_writers, in_mem_ref_count,
                   freed, ends, want, got, killed, calls, nsent>>

\* The loop of pipe_check_if_write_needs_sleep, one test per step.
pipe_check_if_write_needs_sleep(p) ==
    /\ pc[p] = "wr_space" /\ lock = p
    /\ IF write_needs_sleep
         THEN Sleep(p, "data") /\ UNCHANGED pc
         ELSE SetPc(p, "wr_byte") /\ UNCHANGED <<sleepOn, lock>>
    /\ UNCHANGED <<pipeVars, ends, want, got, killed, calls, nsent>>

\* Leaving the write: drop the role, wake readers, release the lock.
WriteDone(p) == /\ writer_exists' = 0
                /\ Wakeup("data")
                /\ lock' = NoProc
                /\ SetPc(p, "idle")

\* One iteration of the write loop: store the byte, advance the cursor,
\* and test for space again unless it was the last byte.
WriteByte(p) ==
    /\ pc[p] = "wr_byte" /\ lock = p
    /\ \/ /\ want[p] = 0
          /\ WriteDone(p)
          /\ UNCHANGED <<ring, write_cursor, got, nsent>>
       \/ /\ want[p] > 0
          /\ nsent' = nsent + 1
          /\ ring' = [ring EXCEPT ![write_cursor] = nsent']
          /\ write_cursor' = Advance(write_cursor)
          /\ got' = [got EXCEPT ![p] = @ + 1]
          /\ IF got'[p] = want[p]
               THEN WriteDone(p)
               ELSE SetPc(p, "wr_space") /\ UNCHANGED <<writer_exists, sleepOn, lock>>
    /\ UNCHANGED <<read_cursor, reader_exists, ref_count_readers,
                   ref_count_writers, in_mem_ref_count, freed,
                   ends, want, killed, calls>>

-----------------------------------------------------------------------------
(* Dropping one descriptor of end e, as sys_close and                     *)
(* close_all_fds_for_process do: in_mem_ref_count goes down (to 0 when it  *)
(* was the last), the role count goes down, and the buffer is freed when   *)
(* both role counts are 0.                                                 *)
DropRefs(E) ==
    /\ in_mem_ref_count' = [e \in Ends |-> IF e \in E
                              THEN (IF in_mem_ref_count[e] > 1
                                      THEN in_mem_ref_count[e] - 1 ELSE 0)
                              ELSE in_mem_ref_count[e]]
    /\ ref_count_readers' = ref_count_readers - (IF "R" \in E THEN 1 ELSE 0)
    /\ ref_count_writers' = ref_count_writers - (IF "W" \in E THEN 1 ELSE 0)
    /\ freed' = (freed \/ (E # {} /\ ref_count_readers' = 0
                                  /\ ref_count_writers' = 0))

sys_close(p, e) ==
    /\ pc[p] = "idle" /\ lock = NoProc /\ ~killed[p]
    /\ e \in ends[p]
    /\ calls[p] < MaxCalls
    /\ calls' = [calls EXCEPT ![p] = @ + 1]
    /\ DropRefs({e})
    /\ ends' = [ends EXCEPT ![p] = @ \ {e}]
    /\ UNCHANGED <<ring, read_cursor, write_cursor, reader_exists,
                   writer_exists, pc, want, got, sleepOn, lock, killed, nsent>>

\* exit() from user space (sys_exit, or trap() for a killed process):
\* close_all_fds_for_process drops every end, then the process is a zombie.
exit(p) ==
    /\ pc[p] = "idle" /\ lock = NoProc
    /\ DropRefs(ends[p])
    /\ ends' = [ends EXCEPT ![p] = {}]
    /\ SetPc(p, "exited")
    /\ UNCHANGED <<ring, read_cursor, write_cursor, reader_exists,
                   writer_exists, want, got, sleepOn, lock, killed, calls, nsent>>

\* kill(pid): set killed and make a sleeper runnable.  It takes only the
\* process-table lock, so it may run while global_ftable_lock is held.
kill(p) ==
    /\ pc[p] # "exited" /\ ~killed[p]
    /\ killed' = [killed EXCEPT ![p] = TRUE]
    /\ sleepOn' = [sleepOn EXCEPT ![p] = "none"]
    /\ UNCHANGED <<pipeVars, ends, pc, want, got, lock, calls, nsent>>

-----------------------------------------------------------------------------
Next ==
    \E p \in Procs :
       \/ \E n \in ReadSizes : sys_read(p, n)
       \/ \E n \in WriteSizes : sys_write(p, n)
       \/ \E e \in Ends : sys_close(p, e)
       \/ exit(p)
       \/ kill(p)
       \/ Reacquire(p)
       \/ ReaderRole(p) \/ DrainByte(p) \/ ClearReader(p)
       \/ pipe_check_if_read_needs_sleep(p) \/ ReadByte(p)
       \/ WriterRole(p) \/ pipe_check_if_write_needs_sleep(p) \/ WriteByte(p)

Spec == Init /\ [][Next]_vars

-----------------------------------------------------------------------------
Pcs == {"idle", "rd_role", "rd_drain", "rd_clear", "rd_data", "rd_byte",
        "wr_role", "wr_space", "wr_byte", "exited"}

TypeOK ==
    /\ ring \in [Positions -> 0 .. ByteBound]
    /\ read_cursor \in Positions /\ write_cursor \in Positions
    /\ reader_exists \in {0, 1} /\ writer_exists \in {0, 1}
    /\ ref_count_readers \in Nat /\ ref_count_writers \in Nat
    /\ in_mem_ref_count \in [Ends -> Nat]
    /\ freed \in BOOLEAN
    /\ ends \in [Procs -> SUBSET Ends]
    /\ pc \in [Procs -> Pcs]
    /\ sleepOn \in [Procs -> {"none", "data", "local"}]
    /\ lock \in Procs \cup {NoProc}
    /\ killed \in [Procs -> BOOLEAN]
    /\ calls \in [Procs -> 0 .. MaxCalls]
    /\ nsent \in 0 .. ByteBound

\* The pipe behaves as a bounded FIFO stream of MAX_CURSOR_VALUE bytes: the
\* bytes between read_cursor and write_cursor form the abstract queue, so a
\* writer never laps the reader and a reader never passes the writer.
Abstract == INSTANCE PipeStream WITH q <- Stream, Capacity <- MAX_CURSOR_VALUE,
                                     Bytes <- 1 .. ByteBound
PipeStreamRefined == Abstract!Spec

\* reader_exists / writer_exists serialise callers of one role: at most one
\* process is moving the read cursor and at most one the write cursor, and
\* each such process is covered by its flag.
ReadActive == {"rd_drain", "rd_data", "rd_byte"}
WriteActive == {"wr_space", "wr_byte"}
RoleExclusion ==
    \A p, q \in Procs :
       /\ (p # q /\ pc[p] \in ReadActive) => pc[q] \notin ReadActive
       /\ (p # q /\ pc[p] \in WriteActive) => pc[q] \notin WriteActive
       /\ pc[p] \in ReadActive => reader_exists = 1
       /\ pc[p] \in WriteActive => writer_exists = 1

\* Lost wakeup in the copy loops: a reader waiting for data and a writer
\* waiting for space never sleep on the pipe at the same time (the buffer
\* cannot be both empty and full, so one of them was not woken).
NoPipeDeadlock ==
    ~ \E p, q \in Procs :
         /\ pc[p] = "rd_data" /\ sleepOn[p] = "data"
         /\ pc[q] = "wr_space" /\ sleepOn[q] = "data"

\* sys_read blocks only while a writer still exists, and sys_write only
\* while a reader still exists: a sleeper whose peer end has been closed
\* by everyone would never be woken.
SleepersHavePeer ==
    \A p \in Procs :
       /\ (pc[p] = "rd_data" /\ sleepOn[p] = "data") => ref_count_writers > 0
       /\ (pc[p] = "wr_space" /\ sleepOn[p] = "data") => ref_count_readers > 0

\* A reader sleeps only on an empty buffer once no write is in progress.
NoSleepWithData ==
    \A p \in Procs :
       (pc[p] = "rd_data" /\ sleepOn[p] = "data" /\ writer_exists = 0)
          => Pending = 0
=============================================================================
