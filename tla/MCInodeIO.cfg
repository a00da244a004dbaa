\* Reads, writes and fstats of one file by three processes, each through
\* an entry of its own, over a scaled extent of 2 blocks of 2 bytes.
CONSTANTS
    a = a
    b = b
    c = c
    e1 = e1
    e2 = e2
    e3 = e3
    None = None
    Procs <- MCProcs
    Entries <- MCEntries
    EntryOf <- MCEntryOfOwn
    Sizes = {1, 2}
    BSIZE = 2
    NBLOCKS = 2
SPECIFICATION Spec
INVARIANT TypeOK
INVARIANT OffsetWithinFile
INVARIANT CachedSizeCurrent
\* A kernel panic halts the machine: those states have no successor.
CHECK_DEADLOCK FALSE
