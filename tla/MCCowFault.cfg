\* Copy-on-write sharing across fork, exit and concurrent faults.
CONSTANTS
    p1 = p1  p2 = p2  p3 = p3
    v1 = v1  v2 = v2
    x1 = x1  x2 = x2  x3 = x3  x4 = x4
    NoPage = NoPage
    Procs <- MCProcs
    InitProc = p1
    VPages <- MCVPages
    PhysPages <- MCPhysPages
    InitPte <- MCInitPte
SPECIFICATION Spec
INVARIANTS
    TypeOK
    NoFreedPageMapped
    CorePageAccounting
\* A kernel panic halts every process, and a killed first process stays
\* killed: the kernel may stop, so deadlock is not an error here.
CHECK_DEADLOCK FALSE
