SPECIFICATION Spec
CONSTANTS
    a = a
    b = b
    c = c
    s = s
    hab = hab
    hc = hc
    Paths = {p1, p2}
    Contents = {a}
    SizeOf <- MCSizeOf
    FileHashSize = 20
    Hashes = {hab}
    HashOf <- MCHashOf
    Inner <- MCInner
    InnerOf <- MCInnerOf
    Outer <- MCOuter
    OuterOf <- MCOuterOf
    MaxSlot = 0
    MaxVersions = 2
    MayKill = TRUE
    MayLosePower = TRUE
    StableSource = TRUE
    None = None
    Torn = Torn
INVARIANTS
    VisibleIntact
