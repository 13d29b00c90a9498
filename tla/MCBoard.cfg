SPECIFICATION BoardSpec
CONSTANTS
    Party = {a, b, h}
    Person = h
    Session = {s1}
    None = None
    Kind <- MCKind
    Priority <- MCPriority
    LeaseTtl = 5
    IdleRevoke = 3
    PersonIdle = 2
    ContendedIdle = 1
    DisconnectGrace = 2
    QueueTtl = 2
    MaxQueueDepth = 2
    MinHold = 1
    PreemptGrace = 1
    ForceBackoff = 2
    NotNow = 3
    MuteFor = {2}
    MaxTime = 4
    MaxId = 4
INVARIANTS
    HandoversComplete
    PersonKeepsTheWheel
SYMMETRY MCSymmetry
PROPERTIES
    RefusedStayOut
