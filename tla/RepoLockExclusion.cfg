SPECIFICATION Spec
CONSTANTS
    Procs = {p1, p2, p3}
    Inodes = {i1, i2, i3}
    MayKill = FALSE
    None = None
INVARIANTS
    MutualExclusion
SYMMETRY Symmetry
