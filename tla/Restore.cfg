SPECIFICATION Spec
CONSTANTS
    d = d
    x = x
    y = y
    a = a
    b = b
    small = small
    near = near
    far = far
    gone = gone
    Root = Root
    None = None
    Torn = Torn
    Now = 3
    MaxCommands = 2
    Times = {1, 2, 3}
    Paths = {d, x, y}
    Contents = {a, b, small}
    Small = {small}
    Targets = {near, far, gone}
    Attrs = {None, 1, 2}
    Parent <- MCParent
    Size <- MCSize
    Objects <- MCObjects
    Outsiders <- MCOutsiders
    Logs <- MCLogs
    Policies <- MCPolicies
    Damages <- MCDamages
    MayInterfere <- MCMayInterfere
INVARIANTS
    RestoredAsSaved
    FailsForAReason
    RestoreIsComplete
PROPERTIES
    OnlyAskedForChanges
CHECK_DEADLOCK FALSE
