\* Safety of the pipe protocol: the stream refines a bounded FIFO queue and
\* the role flags serialise readers and writers.
CONSTANTS
    p1 = p1
    p2 = p2
    p3 = p3
    NoProc = NoProc
    Procs <- MCProcs
    InitEnds <- MCInitEnds
    MAX_CURSOR_VALUE = 2
    ReadSizes = {1, 2}
    WriteSizes = {1, 3}
    MaxCalls = 2
SPECIFICATION Spec
INVARIANT TypeOK
INVARIANT RoleExclusion
PROPERTY PipeStreamRefined
\* Hung processes (lost wakeups, see the violation runs) leave states with
\* no successor; they are what the kernel really does.
CHECK_DEADLOCK FALSE
