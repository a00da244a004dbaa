\* The file table after the console has been opened: dup, close, pipe,
\* fork and exit in every order over three process slots.
CONSTANTS
    p1 = p1
    p2 = p2
    p3 = p3
    k1 = k1
    k2 = k2
    NoPipe = NoPipe
    Procs <- MCProcs
    InitProc = p1
    PipePages <- MCPipePages
    NOFILE = 2
    NFILE = 3
    Booted = TRUE
SPECIFICATION Spec
INVARIANT TypeOK
INVARIANT NoUseAfterFree
