\* Concurrent O_CREATE opens, unlinks and closes of two names by two
\* processes from boot, over three creatable inodes.
CONSTANTS
    a = a
    b = b
    n1 = n1
    n2 = n2
    NoName = NoName
    None = None
    Procs <- MCProcs
    Names <- MCNames
    NSLOT = 3
    FirstInum = 28
    FileBlocks = 20
    DataStart = 49
    DPB = 32
    bmapstart = 26
SPECIFICATION Spec
INVARIANT TypeOK
INVARIANT CreateSerialised
INVARIANT ExtentsMatchBitmap
\* A kernel panic halts the machine: those states have no successor.
CHECK_DEADLOCK FALSE
