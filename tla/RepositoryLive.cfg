SPECIFICATION FairSpec
CONSTANTS
    a = a
    b = b
    c = c
    s = s
    hab = hab
    hc = hc
    Paths = {p1}
    Contents = {a, b, c, s}
    SizeOf <- MCSizeOf
    FileHashSize = 20
    Hashes = {hab, hc}
    HashOf <- MCHashOf
    Inner <- MCInner
    InnerOf <- MCInnerOf
    Outer <- MCOuter
    OuterOf <- MCOuterOf
    MaxSlot = 0
    MaxVersions = 2
    MayKill = FALSE
    MayLosePower = FALSE
    StableSource = FALSE
    None = None
    Torn = Torn
PROPERTIES
    GarbageIsCollected
    AgreedBackupEnds
    BackedUpAsItIs
