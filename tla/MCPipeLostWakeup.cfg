\* Expected violation. A reader waiting for data and a writer waiting for space both asleep on the pipe.
CONSTANTS
    p1 = p1
    p2 = p2
    p3 = p3
    NoProc = NoProc
    Procs <- MCProcs
    InitEnds <- MCInitEnds
    MAX_CURSOR_VALUE = 2
    ReadSizes = {1, 2}
    WriteSizes = {1, 3}
    MaxCalls = 2
SPECIFICATION Spec
INVARIANT NoPipeDeadlock
\* Hung processes (lost wakeups, see the violation runs) leave states with
\* no successor; they are what the kernel really does.
CHECK_DEADLOCK FALSE
