CONSTANTS
    Bucket <- MCBucket
    StorePrefix <- MCPrefix
    Targets <- MCTargets
    Outside = Out
    NoMeta = None
    Out = Out
    None = None
SPECIFICATION Spec
INVARIANTS
    ReadDirNotFoundSound
