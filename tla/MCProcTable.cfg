\* Three process slots on two CPUs, pids up to 4: fork, exit, wait, kill,
\* yield and pipe I/O in every interleaving, under the scheduler fairness.
CONSTANTS
    c1 = c1
    c2 = c2
    Idle = Idle
    NoSlot = NoSlot
    Free = Free
    PipeChan = PipeChan
    CPUs <- MCCPUs
    NPROC = 3
    MaxPid = 4
SPECIFICATION FairSpec
INVARIANT TypeOK
INVARIANT OrphansAdopted
INVARIANT NoLostChildWakeup
PROPERTY WaitReturns
\* With every process asleep (initproc in wait with no child to reap) the
\* scheduler spins over the table for ever: the kernel idles, it does not stop.
CHECK_DEADLOCK FALSE
