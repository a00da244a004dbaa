CONSTANTS
    c1 = c1
    c2 = c2
    Idle = Idle
    NoSlot = NoSlot
    Free = Free
    PipeChan = PipeChan
    CPUs <- MCCPUs
    NPROC = 3
    MaxPid = 4
SPECIFICATION Spec
INVARIANT NoFreedStackInUse
CHECK_DEADLOCK FALSE
