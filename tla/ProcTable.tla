------------------------------ MODULE ProcTable ------------------------------
(***************************************************************************)
(* The process table of kernel/proc.c run by several CPUs: allocproc,     *)
(* fork, exit, wait, kill, yield and the scheduler, with ptable.lock.     *)
(*                                                                         *)
(* A process slot has the fields of struct proc that these functions read *)
(* or write: state, pid, parent (a slot, or NoSlot for the null pointer   *)
(* of ptable.proc[0]), killed, chan, and whether its kernel stack is      *)
(* allocated.  resume[p] is where a switched-out process continues when   *)
(* the scheduler picks it: "ret" (yield or forkret, which release         *)
(* ptable.lock) or "wait" (the sleep inside wait's loop, which returns    *)
(* holding it).                                                           *)
(*                                                                         *)
(* A CPU runs either its scheduler (cpu[c] = Idle) or a process; cpc[c]   *)
(* is where that process is in the kernel: "user" (in user space, or at   *)
(* a system-call or trap boundary), "resume" (just switched to), the two  *)
(* unlocked stretches of fork after allocproc, and "exit_gap", the stretch *)
(* of exit between release(&ptable.lock) and the acquire before sched().  *)
(* lock is the CPU holding ptable.lock, ftlock the CPU holding           *)
(* global_ftable_lock (kernel/sysfile.c).  The scheduler keeps the lock  *)
(* when it switches to a process and gets it back when the process calls *)
(* sched(), so the lock belongs to a CPU, not to a process.  A spinlock   *)
(* holder runs with interrupts off and is never switched out.             *)
(***************************************************************************)
EXTENDS Integers, FiniteSets, FiniteSetsExt

CONSTANTS NPROC,    \* slots of ptable.proc
          CPUs,     \* CPUs running scheduler()
          MaxPid,   \* bound on nextpid: allocproc fails beyond it
          Idle, NoSlot, Free,
          PipeChan  \* active_pipe->data, a channel no pid equals

Slots == 0..(NPROC - 1)
InitSlot == 0    \* initproc = ptable.proc[0], made by userinit with pid 1
Pids == 1..MaxPid

States == {"UNUSED", "EMBRYO", "SLEEPING", "RUNNABLE", "RUNNING", "ZOMBIE"}

VARIABLES state, pid, parent, killed, chan, kstack, resume,
          cpu, cpc, fchild, lock, nextpid, ftlock

procVars == <<state, pid, parent, killed, chan, kstack, resume>>
vars == <<procVars, cpu, cpc, fchild, lock, nextpid, ftlock>>

(* After userinit: initproc is RUNNABLE with pid 1 and a null parent.    *)
Init ==
    /\ state = [p \in Slots |-> IF p = InitSlot THEN "RUNNABLE" ELSE "UNUSED"]
    /\ pid = [p \in Slots |-> IF p = InitSlot THEN 1 ELSE 0]
    /\ parent = [p \in Slots |-> NoSlot]
    /\ killed = [p \in Slots |-> FALSE]
    /\ chan = [p \in Slots |-> 0]
    /\ kstack = [p \in Slots |-> p = InitSlot]
    /\ resume = [p \in Slots |-> "ret"]
    /\ cpu = [c \in CPUs |-> Idle]
    /\ cpc = [c \in CPUs |-> "user"]
    /\ fchild = [c \in CPUs |-> NoSlot]
    /\ lock = Free
    /\ nextpid = 2
    /\ ftlock = Free

(* p->parent->pid.  For a null parent the read is of whatever lies at    *)
(* that offset from address 0: nul says whether it equals the pid being  *)
(* compared with.                                                        *)
ParentPidIs(q, k, nul) == IF parent[q] = NoSlot THEN nul ELSE pid[parent[q]] = k

(* wakeup1(chan): every process sleeping on chan becomes RUNNABLE.        *)
Wakeup1(st, ch) ==
    [q \in Slots |-> IF st[q] = "SLEEPING" /\ chan[q] = ch THEN "RUNNABLE" ELSE st[q]]

Running(c) == cpu[c] # Idle
AtUser(c) == Running(c) /\ cpc[c] = "user" /\ lock = Free
------------------------------------------------------------------------------
(* scheduler(): with ptable.lock held, switch to a RUNNABLE process.     *)
Schedule(c, p) ==
    /\ cpu[c] = Idle
    /\ lock \in {Free, c}
    /\ state[p] = "RUNNABLE"
    /\ state' = [state EXCEPT ![p] = "RUNNING"]
    /\ cpu' = [cpu EXCEPT ![c] = p]
    /\ cpc' = [cpc EXCEPT ![c] = "resume"]
    /\ lock' = c
    /\ UNCHANGED <<pid, parent, killed, chan, kstack, resume, fchild, nextpid, ftlock>>

(* The end of scheduler()'s scan: release(&ptable.lock).                 *)
SchedRelease(c) ==
    /\ cpu[c] = Idle
    /\ lock = c
    /\ lock' = Free
    /\ UNCHANGED <<procVars, cpu, cpc, fchild, nextpid, ftlock>>

(* The process switched to returns from sched() into yield or forkret,   *)
(* which release ptable.lock and return to user space.                   *)
ResumeRet(c) ==
    /\ Running(c)
    /\ cpc[c] = "resume"
    /\ resume[cpu[c]] = "ret"
    /\ lock' = Free
    /\ cpc' = [cpc EXCEPT ![c] = "user"]
    /\ UNCHANGED <<procVars, cpu, fchild, nextpid, ftlock>>

(* yield() from the timer interrupt.                                      *)
yield(c) ==
    /\ AtUser(c)
    /\ ~killed[cpu[c]]
    /\ state' = [state EXCEPT ![cpu[c]] = "RUNNABLE"]
    /\ resume' = [resume EXCEPT ![cpu[c]] = "ret"]
    /\ cpu' = [cpu EXCEPT ![c] = Idle]
    /\ lock' = c
    /\ UNCHANGED <<pid, parent, killed, chan, kstack, cpc, fchild, nextpid, ftlock>>
------------------------------------------------------------------------------
(* Mutant: the pid is taken after incrementing nextpid (++nextpid).    *)
allocprocPreIncrement(c) ==
    /\ AtUser(c)
    /\ ~killed[cpu[c]]
    /\ nextpid <= MaxPid
    /\ \E q \in Slots : state[q] = "UNUSED"
    /\ LET q == Min({s \in Slots : state[s] = "UNUSED"}) IN
         /\ state' = [state EXCEPT ![q] = "EMBRYO"]
         /\ pid' = [pid EXCEPT ![q] = nextpid + 1]
         /\ killed' = [killed EXCEPT ![q] = FALSE]
         /\ fchild' = [fchild EXCEPT ![c] = q]
    /\ nextpid' = nextpid + 1
    /\ cpc' = [cpc EXCEPT ![c] = "fork_kstack"]
    /\ UNCHANGED <<parent, chan, kstack, resume, cpu, lock, ftlock>>

(* fork, first step: allocproc takes the lowest UNUSED slot under        *)
(* ptable.lock, makes it EMBRYO with the next pid and killed = 0.  Its   *)
(* parent field is not touched yet.                                       *)
allocproc(c) ==
    /\ AtUser(c)
    /\ ~killed[cpu[c]]
    /\ nextpid <= MaxPid
    /\ \E q \in Slots : state[q] = "UNUSED"
    /\ LET q == Min({s \in Slots : state[s] = "UNUSED"}) IN
         /\ state' = [state EXCEPT ![q] = "EMBRYO"]
         /\ pid' = [pid EXCEPT ![q] = nextpid]
         /\ killed' = [killed EXCEPT ![q] = FALSE]
         /\ fchild' = [fchild EXCEPT ![c] = q]
    /\ nextpid' = nextpid + 1
    /\ cpc' = [cpc EXCEPT ![c] = "fork_kstack"]
    /\ UNCHANGED <<parent, chan, kstack, resume, cpu, lock, ftlock>>

(* Without the lock: kalloc for the kernel stack.  On failure allocproc  *)
(* sets the slot UNUSED and fork returns -1; otherwise fork sets         *)
(* child->parent.                                                         *)
fork_kstack(c) ==
    /\ Running(c)
    /\ cpc[c] = "fork_kstack"
    /\ LET q == fchild[c] IN
         \/ /\ state' = [state EXCEPT ![q] = "UNUSED"]
            /\ cpc' = [cpc EXCEPT ![c] = "user"]
            /\ UNCHANGED <<parent, kstack>>
         \/ /\ kstack' = [kstack EXCEPT ![q] = TRUE]
            /\ parent' = [parent EXCEPT ![q] = cpu[c]]
            /\ cpc' = [cpc EXCEPT ![c] = "fork_copy"]
            /\ UNCHANGED state
    /\ UNCHANGED <<pid, killed, chan, resume, cpu, fchild, lock, nextpid, ftlock>>

(* Without the lock: vspaceinit / vspacecopy.  On failure fork returns   *)
(* -1 and leaves the child EMBRYO; otherwise the descriptor table is     *)
(* copied and the child made RUNNABLE, to start in forkret.               *)
fork_copy(c) ==
    /\ Running(c)
    /\ cpc[c] = "fork_copy"
    /\ LET q == fchild[c] IN
         \/ UNCHANGED <<state, resume>>
         \/ /\ state' = [state EXCEPT ![q] = "RUNNABLE"]
            /\ resume' = [resume EXCEPT ![q] = "ret"]
    /\ cpc' = [cpc EXCEPT ![c] = "user"]
    /\ UNCHANGED <<pid, parent, killed, chan, kstack, cpu, fchild, lock, nextpid, ftlock>>
------------------------------------------------------------------------------
(* Mutant: only RUNNABLE children are handed to initproc.              *)
exitRunnableOnly(c) ==
    /\ AtUser(c)
    /\ cpu[c] # InitSlot
    /\ \E nul \in BOOLEAN :
         LET p == cpu[c]
             child(q) == state[q] # "UNUSED" /\ ParentPidIs(q, pid[p], nul)
             reaped == {q \in Slots : child(q) /\ state[q] = "ZOMBIE"}
             adopted == {q \in Slots : child(q) /\ state[q] = "RUNNABLE"}
         IN /\ state' = [q \in Slots |-> IF q \in reaped THEN "UNUSED" ELSE state[q]]
            /\ parent' = [q \in Slots |-> IF q \in adopted THEN InitSlot ELSE parent[q]]
            /\ kstack' = [q \in Slots |-> kstack[q] /\ q \notin reaped]
    /\ lock' = c
    /\ cpc' = [cpc EXCEPT ![c] = "exit_files"]
    /\ UNCHANGED <<pid, killed, chan, resume, cpu, fchild, nextpid, ftlock>>

(* exit(): acquire(&ptable.lock), then every slot whose parent's pid is  *)
(* ours is a child; a ZOMBIE child is reaped (kernel stack freed,        *)
(* UNUSED), an UNUSED one skipped, any other given to initproc.          *)
(* initproc does not exit.                                                *)
exit(c) ==
    /\ AtUser(c)
    /\ cpu[c] # InitSlot
    /\ \E nul \in BOOLEAN :
         LET p == cpu[c]
             child(q) == state[q] # "UNUSED" /\ ParentPidIs(q, pid[p], nul)
             reaped == {q \in Slots : child(q) /\ state[q] = "ZOMBIE"}
             adopted == {q \in Slots : child(q) /\ state[q] # "ZOMBIE"}
         IN /\ state' = [q \in Slots |-> IF q \in reaped THEN "UNUSED" ELSE state[q]]
            /\ parent' = [q \in Slots |-> IF q \in adopted THEN InitSlot ELSE parent[q]]
            /\ kstack' = [q \in Slots |-> kstack[q] /\ q \notin reaped]
    /\ lock' = c
    /\ cpc' = [cpc EXCEPT ![c] = "exit_files"]
    /\ UNCHANGED <<pid, killed, chan, resume, cpu, fchild, nextpid, ftlock>>

(* Mutant: the exiting process wakes its own pid instead of its parent's. *)
exitWakeSelf(c) ==
    /\ Running(c)
    /\ cpc[c] = "exit_files"
    /\ ftlock = Free
    /\ LET p == cpu[c] IN
         state' = Wakeup1([state EXCEPT ![p] = "ZOMBIE"], pid[p])
    /\ lock' = Free
    /\ cpc' = [cpc EXCEPT ![c] = "exit_gap"]
    /\ UNCHANGED <<pid, parent, killed, chan, kstack, resume, cpu, fchild, nextpid, ftlock>>

(* Still holding ptable.lock: close_all_fds_for_process acquires and     *)
(* releases global_ftable_lock (its table updates are FileTable's), the  *)
(* caller becomes ZOMBIE, wakeup1 wakes its parent's pid and             *)
(* release(&ptable.lock) leaves the CPU in exit_gap.                      *)
exit_files(c) ==
    /\ Running(c)
    /\ cpc[c] = "exit_files"
    /\ ftlock = Free
    /\ LET p == cpu[c] IN
         state' = Wakeup1([state EXCEPT ![p] = "ZOMBIE"], pid[parent[p]])
    /\ lock' = Free
    /\ cpc' = [cpc EXCEPT ![c] = "exit_gap"]
    /\ UNCHANGED <<pid, parent, killed, chan, kstack, resume, cpu, fchild, nextpid, ftlock>>

(* sys_read / sys_write on a pipe: acquire(&global_ftable_lock), move    *)
(* the bytes (Pipe), leaving the CPU at the wakeup(active_pipe->data)    *)
(* made before the lock is released.                                      *)
pipe_io(c) ==
    /\ Running(c)
    /\ cpc[c] = "user"
    /\ ~killed[cpu[c]]
    /\ ftlock = Free
    /\ ftlock' = c
    /\ cpc' = [cpc EXCEPT ![c] = "pipe_wakeup"]
    /\ UNCHANGED <<procVars, cpu, fchild, lock, nextpid>>

(* wakeup(active_pipe->data) with global_ftable_lock held: it takes      *)
(* ptable.lock for wakeup1 and drops it; then release(&global_ftable_lock). *)
(* The sleep of a pipe loop (sleep(..., &global_ftable_lock)) takes       *)
(* ptable.lock in the same order.                                         *)
pipe_wakeup(c) ==
    /\ Running(c)
    /\ cpc[c] = "pipe_wakeup"
    /\ lock = Free
    /\ state' = Wakeup1(state, PipeChan)
    /\ ftlock' = Free
    /\ cpc' = [cpc EXCEPT ![c] = "user"]
    /\ UNCHANGED <<pid, parent, killed, chan, kstack, resume, cpu, fchild, lock, nextpid>>

(* The end of exit(): acquire(&ptable.lock) and sched() to the scheduler, *)
(* still running on the exited process's kernel stack until the switch.  *)
exit_gap(c) ==
    /\ Running(c)
    /\ cpc[c] = "exit_gap"
    /\ lock = Free
    /\ lock' = c
    /\ cpu' = [cpu EXCEPT ![c] = Idle]
    /\ cpc' = [cpc EXCEPT ![c] = "user"]
    /\ UNCHANGED <<procVars, fchild, nextpid, ftlock>>

(* Reaping child q in wait(): kfree(kstack), vspacefree, UNUSED.          *)
Reap(q) ==
    /\ state' = [state EXCEPT ![q] = "UNUSED"]
    /\ kstack' = [kstack EXCEPT ![q] = FALSE]

(* sleep(pid, &ptable.lock) from wait(): the lock stays with the CPU's   *)
(* scheduler.                                                             *)
WaitSleep(c) ==
    LET p == cpu[c] IN
    /\ state' = [state EXCEPT ![p] = "SLEEPING"]
    /\ chan' = [chan EXCEPT ![p] = pid[p]]
    /\ resume' = [resume EXCEPT ![p] = "wait"]
    /\ cpu' = [cpu EXCEPT ![c] = Idle]
    /\ lock' = c
    /\ UNCHANGED kstack

(* wait(), first scan under ptable.lock: children are the non-UNUSED     *)
(* slots whose parent's pid is ours; the first ZOMBIE one in table order *)
(* is reaped; with no child at all -1 is returned; otherwise sleep.      *)
wait(c) ==
    /\ AtUser(c)
    /\ ~killed[cpu[c]]
    /\ \E nul \in BOOLEAN :
         LET p == cpu[c]
             children == {q \in Slots : state[q] # "UNUSED" /\ ParentPidIs(q, pid[p], nul)}
             zombies == {q \in children : state[q] = "ZOMBIE"}
         IN CASE zombies # {} -> Reap(Min(zombies)) /\ UNCHANGED <<chan, resume, cpu, lock>>
              [] children = {} -> UNCHANGED <<state, kstack, chan, resume, cpu, lock>>
              [] OTHER -> WaitSleep(c)
    /\ UNCHANGED <<pid, parent, killed, cpc, fchild, nextpid, ftlock>>

(* Mutant: the loop reaps a zombie but goes back to sleep, not returning. *)
ResumeWaitNoReturn(c) ==
    /\ Running(c)
    /\ cpc[c] = "resume"
    /\ resume[cpu[c]] = "wait"
    /\ \E nul \in BOOLEAN :
         LET p == cpu[c]
             zombies == {q \in Slots : state[q] = "ZOMBIE" /\ ParentPidIs(q, pid[p], nul)}
             st == IF zombies # {} THEN [state EXCEPT ![Min(zombies)] = "UNUSED"] ELSE state
             ks == IF zombies # {} THEN [kstack EXCEPT ![Min(zombies)] = FALSE] ELSE kstack
         IN /\ state' = [st EXCEPT ![p] = "SLEEPING"]
            /\ kstack' = ks
            /\ chan' = [chan EXCEPT ![p] = pid[p]]
            /\ resume' = [resume EXCEPT ![p] = "wait"]
            /\ cpu' = [cpu EXCEPT ![c] = Idle]
            /\ lock' = c
    /\ UNCHANGED <<pid, parent, killed, cpc, fchild, nextpid, ftlock>>

(* wait()'s loop after sleep returns, holding ptable.lock: rescan every  *)
(* slot whose parent's pid is ours (UNUSED ones included, the killed     *)
(* flag ignored); reap the first ZOMBIE and release, or sleep again.     *)
ResumeWait(c) ==
    /\ Running(c)
    /\ cpc[c] = "resume"
    /\ resume[cpu[c]] = "wait"
    /\ \E nul \in BOOLEAN :
         LET p == cpu[c]
             zombies == {q \in Slots : state[q] = "ZOMBIE" /\ ParentPidIs(q, pid[p], nul)}
         IN IF zombies # {}
            THEN /\ Reap(Min(zombies))
                 /\ lock' = Free
                 /\ cpc' = [cpc EXCEPT ![c] = "user"]
                 /\ UNCHANGED <<chan, resume, cpu>>
            ELSE WaitSleep(c) /\ UNCHANGED cpc
    /\ UNCHANGED <<pid, parent, killed, fchild, nextpid, ftlock>>

(* kill(pid): the first slot with that pid, whatever its state, gets     *)
(* killed = 1 and leaves SLEEPING for RUNNABLE.  kill(1) is not modelled: *)
(* initproc never exits in this model.                                    *)
kill(c, k) ==
    /\ AtUser(c)
    /\ ~killed[cpu[c]]
    /\ LET targets == {q \in Slots : pid[q] = k} IN
         IF targets = {} THEN UNCHANGED <<state, killed>>
         ELSE LET q == Min(targets) IN
              /\ killed' = [killed EXCEPT ![q] = TRUE]
              /\ state' = [state EXCEPT ![q] = IF @ = "SLEEPING" THEN "RUNNABLE" ELSE @]
    /\ UNCHANGED <<pid, parent, chan, kstack, resume, cpu, cpc, fchild, lock, nextpid, ftlock>>

Next ==
    \E c \in CPUs :
        \/ \E p \in Slots : Schedule(c, p)
        \/ SchedRelease(c) \/ ResumeRet(c) \/ ResumeWait(c) \/ yield(c)
        \/ allocproc(c) \/ fork_kstack(c) \/ fork_copy(c)
        \/ exit(c) \/ exit_files(c) \/ exit_gap(c) \/ wait(c)
        \/ pipe_io(c) \/ pipe_wakeup(c)
        \/ \E k \in Pids \ {1} : kill(c, k)

Spec == Init /\ [][Next]_vars

(* A killed process leaves at its next return to user space: trap()      *)
(* calls exit() for it.                                                   *)
KilledExit(c) == Running(c) /\ killed[cpu[c]] /\ exit(c)

(* The steps CPU c takes without a user's choice: the kernel code it is  *)
(* in the middle of, and the timer's yield (or, for a killed process,    *)
(* trap()'s exit) at the user boundary.  At each cpc at most one of them *)
(* applies.                                                               *)
KernelStep(c) ==
    \/ SchedRelease(c) \/ ResumeRet(c) \/ ResumeWait(c)
    \/ fork_kstack(c) \/ fork_copy(c)
    \/ exit_files(c) \/ exit_gap(c) \/ pipe_wakeup(c)
    \/ yield(c) \/ KilledExit(c)

(* Fairness.  Several of these steps must acquire a spinlock and are     *)
(* enabled only while it is free, so a CPU's steps get strong fairness:  *)
(* xchg-based acquire has no queue, and this assumes no CPU loses every  *)
(* race for ever.  The timer interrupt eventually reaches every running  *)
(* process, and scheduler()'s scan visits every slot on each pass, so a  *)
(* process RUNNABLE again and again is eventually picked.  User choices  *)
(* (fork, exit, wait, kill, pipe I/O) are not forced.                     *)
Fairness ==
    /\ \A c \in CPUs : SF_vars(KernelStep(c))
    /\ \A p \in Slots : SF_vars(\E c \in CPUs : Schedule(c, p))

FairSpec == Spec /\ Fairness
------------------------------------------------------------------------------
TypeOK ==
    /\ state \in [Slots -> States]
    /\ pid \in [Slots -> 0..MaxPid]
    /\ parent \in [Slots -> Slots \cup {NoSlot}]
    /\ killed \in [Slots -> BOOLEAN]
    /\ chan \in [Slots -> 0..MaxPid]
    /\ kstack \in [Slots -> BOOLEAN]
    /\ resume \in [Slots -> {"ret", "wait"}]
    /\ cpu \in [CPUs -> Slots \cup {Idle}]
    /\ cpc \in [CPUs -> {"user", "resume", "fork_kstack", "fork_copy",
                         "exit_files", "exit_gap", "pipe_wakeup"}]
    /\ fchild \in [CPUs -> Slots \cup {NoSlot}]
    /\ lock \in CPUs \cup {Free}
    /\ nextpid \in 2..(MaxPid + 1)
    /\ ftlock \in CPUs \cup {Free}

Live == {"SLEEPING", "RUNNABLE", "RUNNING", "ZOMBIE"}

(* Every process other than initproc that has been started has a parent *)
(* that is itself a live, unexited process: exit hands every child that *)
(* is not a zombie to initproc before its own slot can be reaped and     *)
(* reused, so no child is left pointing at a dead or recycled parent.   *)
OrphansAdopted ==
    \A q \in Slots \ {InitSlot} :
        state[q] \in Live =>
            /\ parent[q] # NoSlot
            /\ state[parent[q]] \in Live \ {"ZOMBIE"}

(* A parent asleep in wait() is never left asleep while one of its       *)
(* children is a ZOMBIE: exit's wakeup1 on the parent's pid, under the   *)
(* same ptable.lock as wait's scan, cannot fall between the scan and the *)
(* sleep, and adoption moves the wakeup to initproc.                     *)
NoLostChildWakeup ==
    \A p \in Slots :
        state[p] = "SLEEPING" /\ resume[p] = "wait" =>
            ~\E q \in Slots \ {InitSlot} :
                /\ state[q] = "ZOMBIE"
                /\ parent[q] = p

(* A CPU only runs a process whose slot is in use and whose kernel stack *)
(* is allocated: a zombie is not reaped, and its stack freed, while its  *)
(* own CPU is still executing the end of exit().                         *)
NoFreedStackInUse ==
    \A c \in CPUs : Running(c) => state[cpu[c]] # "UNUSED" /\ kstack[cpu[c]]

(* c spins on a lock that d holds: exit() holds ptable.lock and wants     *)
(* global_ftable_lock in close_all_fds_for_process; the pipe paths hold  *)
(* global_ftable_lock and want ptable.lock in wakeup() or sleep().       *)
WaitsFor(c, d) ==
    \/ cpc[c] = "exit_files" /\ ftlock = d
    \/ cpc[c] = "pipe_wakeup" /\ lock = d

LockCycle == \E c, d \in CPUs : c # d /\ WaitsFor(c, d) /\ WaitsFor(d, c)

(* No two CPUs each spin on the spinlock the other holds: every path     *)
(* takes ptable.lock and global_ftable_lock in one order.                 *)
NoLockCycle == ~LockCycle

WaitingOnZombie(p) ==
    /\ resume[p] = "wait"
    /\ state[p] \in {"SLEEPING", "RUNNABLE"}
    /\ \E q \in Slots : state[q] = "ZOMBIE" /\ parent[q] = p

(* initproc, the parent every orphan is handed to, blocked in wait()     *)
(* with a ZOMBIE child gets back to user space with a reaped child,      *)
(* under the scheduler's and the locks' fairness: the exit() wakeup is   *)
(* not lost and wait()'s rescan returns, unless the kernel has fallen    *)
(* into the lock-order deadlock (which no process can leave).            *)
WaitReturns ==
    WaitingOnZombie(InitSlot) ~>
        ((\E c \in CPUs : cpu[c] = InitSlot /\ cpc[c] = "user") \/ LockCycle)
==============================================================================
