CONSTANTS
    Bucket <- MCBucket
    StorePrefix <- MCPrefix
    Dirs <- MCDirs
    Handles <- MCHandles
    BadLocs <- MCBadLocs
    Outside = Out
    NoMeta = None
    Out = Out
    None = None
    h1 = h1
    h2 = h2
SYMMETRY Symm
SPECIFICATION Spec
INVARIANTS
    DirentsExact
