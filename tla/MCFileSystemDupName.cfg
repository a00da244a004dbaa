\* Expected violation. Two O_CREATE opens of one name both create a file.
\* The second namei of create_file_on_disk runs only after a sleep.
CONSTANTS
    a = a
    b = b
    n1 = n1
    n2 = n2
    NoName = NoName
    None = None
    Procs <- MCProcs
    Names <- MCNames
    NSLOT = 3
    FirstInum = 28
    FileBlocks = 20
    DataStart = 49
    DPB = 32
    bmapstart = 26
SPECIFICATION Spec
INVARIANT UniqueNames
\* A kernel panic halts the machine: those states have no successor.
CHECK_DEADLOCK FALSE
