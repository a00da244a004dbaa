\* Heap and stack of two process slots under sbrk, stack faults, fork, exec and exit.
CONSTANTS
    p1 = p1  p2 = p2
    Procs <- MCProcs
    InitProc = p1
    W = 8
    PGSIZE = 8
    HeapBase = 16
    SbrkSizes <- MCSbrkSizes
    FaultAddrs <- MCFaultAddrs
SPECIFICATION Spec
INVARIANTS
    TypeOK
    HeapBelowStackReserve
    HeapFloorHeld
\* A killed initproc has no step left (its exit panics), so the system may stop.
CHECK_DEADLOCK FALSE
