CONSTANTS
    p1 = p1
    p2 = p2
    k1 = k1
    k2 = k2
    k3 = k3
    i1 = i1
    i2 = i2
    i3 = i3
    i4 = i4
    i5 = i5
    NoInode = NoInode
    NoEntry = NoEntry
    NoProc = NoProc
    Procs <- MCProcs
    Keys <- MCKeys3
    ObjSize <- MCSize3
    ReadKeys <- MCDisjointReads
    Inodes <- MCInodes5
    MaxBytes = 2
    MaxRestarts = 0
    MaxListLen = 4
SPECIFICATION Spec
INVARIANTS
    CacheInv
    AccountingInv
    UsedWithinQuota
    UsedMatchesEntries
    LruMatchesEntries
    EntryFileComplete
    ReadHandleComplete
    DiskWithinQuota
CONSTRAINT
    ListBound
PROPERTY
    EntriesImmutable
    ImplementsAbstractCache
