SPECIFICATION Spec
CONSTANTS
    a = a
    b = b
    c = c
    s = s
    hab = hab
    hc = hc
    Paths = {p1, p2}
    Contents = {a, c, s}
    SizeOf <- MCSizeOf
    FileHashSize = 20
    Hashes = {hab, hc}
    HashOf <- MCHashOf
    Inner <- MCInner
    InnerOf <- MCInnerOf
    Outer <- MCOuter
    OuterOf <- MCOuterOf
    MaxSlot = 1
    MaxVersions = 2
    MayKill = FALSE
    MayLosePower = TRUE
    StableSource = TRUE
    None = None
    Torn = Torn
INVARIANTS
    DurableIntact
PROPERTIES
    DeviceAtomic
