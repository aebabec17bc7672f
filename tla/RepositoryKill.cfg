SPECIFICATION Spec
CONSTANTS
    a = a
    b = b
    c = c
    s = s
    hab = hab
    hc = hc
    Paths = {p1, p2}
    Contents = {a, b}
    SizeOf <- MCSizeOf
    FileHashSize = 20
    Hashes = {hab}
    HashOf <- MCHashOf
    Inner <- MCInner
    InnerOf <- MCInnerOf
    Outer <- MCOuter
    OuterOf <- MCOuterOf
    MaxSlot = 1
    MaxVersions = 2
    MayKill = TRUE
    MayLosePower = FALSE
    StableSource = FALSE
    None = None
    Torn = Torn
INVARIANTS
    TypeOK
    VisibleIntact
PROPERTIES
    SeenAtomic
    NeverOverwritten
    StoredOnlyIfNew
VIEW WithoutDevice
SYMMETRY Symmetry
