CONSTANTS
    p1 = p1
    p2 = p2
    k1 = k1
    k2 = k2
    k3 = k3
    i1 = i1
    i2 = i2
    i3 = i3
    i4 = i4
    i5 = i5
    NoInode = NoInode
    NoEntry = NoEntry
    NoProc = NoProc
    Procs <- MCProcs
    Keys <- MCKeys2
    ObjSize <- MCSize2
    ReadKeys <- MCOneShared
    Inodes <- MCInodes4
    MaxBytes = 2
    MaxRestarts = 1
    MaxListLen = 3
SPECIFICATION Spec
INVARIANTS
    UsedWithinQuota
    LockHeldByInserter
    UsedCoversEntries
    
CONSTRAINT
    ListBound
