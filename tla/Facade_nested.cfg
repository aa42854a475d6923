CONSTANTS
    Bucket <- MCBucketNested
    StorePrefix <- MCPrefix
    Targets <- MCTargetsNested
    Outside = Out
    NoMeta = None
    Out = Out
    None = None
SPECIFICATION Spec
INVARIANTS
    StatSound
