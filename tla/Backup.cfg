SPECIFICATION Spec
CONSTANTS
    d = d
    e = e
    x = x
    Root = Root
    Parent <- MCParent
    MayFollow <- MCEither
    MaxBackups = 3
    None = None
    Paths = {d, e, x}
    StatesAt <- MCFileTypes
    Stamp <- MCStamp
    Differences <- MCDifferences
    Configs <- MCConfigs
INVARIANTS
    TypeOK
    TrackedHistoryIsFull
    NoPolicyMeansDirectory
    RefCountsExact
    MirrorForgetsRemoved
    RemovedIsKept
    HistoryWellFormed
    FoundIsBackedUp
    FileIsReadBack
    DamageIsNoticed
    ChangesAreShown
    NothingToSaveIsNothing
PROPERTIES
    TrackedHistoryOnlyGrows
CHECK_DEADLOCK FALSE
