\* exit() on one CPU and a pipe read or write on the other take ptable.lock
\* and global_ftable_lock in opposite orders.
CONSTANTS
    c1 = c1
    c2 = c2
    Idle = Idle
    NoSlot = NoSlot
    Free = Free
    PipeChan = PipeChan
    CPUs <- MCCPUs
    NPROC = 3
    MaxPid = 4
SPECIFICATION Spec
INVARIANT NoLockCycle
\* With every process asleep (initproc in wait with no child to reap) the
\* scheduler spins over the table for ever: the kernel idles, it does not stop.
CHECK_DEADLOCK FALSE
