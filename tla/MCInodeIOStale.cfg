\* Expected violation.  A sys_read by a process that shares its entry with
\* a writer, between the write and its revalidation of the cached inode.
CONSTANTS
    a = a
    b = b
    c = c
    e1 = e1
    e2 = e2
    e3 = e3
    None = None
    Procs <- MCProcs
    Entries <- MCEntries
    EntryOf <- MCEntryOf
    Sizes = {1, 2}
    BSIZE = 2
    NBLOCKS = 2
SPECIFICATION Spec
INVARIANT OffsetWithinFile
\* A kernel panic halts the machine: those states have no successor.
CHECK_DEADLOCK FALSE
