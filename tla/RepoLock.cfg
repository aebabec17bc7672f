SPECIFICATION FairSpec
CONSTANTS
    Procs = {p1, p2, p3}
    Inodes = {i1, i2, i3}
    MayKill = TRUE
    None = None
INVARIANTS
    InsideHoldsItsInode
    NoLockfileLeft
PROPERTIES
    RefusedOnlyByOwner
    NobodyWaitsForTheLock
