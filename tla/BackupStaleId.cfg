SPECIFICATION Spec
CONSTANTS
    d = d
    e = e
    x = x
    Root = Root
    Parent <- MCParent
    MayFollow <- MCAny
    MaxBackups = 3
    None = None
    Paths = {d, x}
    StatesAt <- MCFewStates
    Stamp <- MCStamp
    Differences <- MCDifferences
    Configs <- MCNothingIgnored
INVARIANTS
    PointsKeepTheirBackup
CHECK_DEADLOCK FALSE
