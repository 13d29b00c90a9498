SPECIFICATION Spec
CONSTANTS
    agent1 = agent1
    agent2 = agent2
    human = human
    None = None
    Party <- MCParty
    Kind <- MCKind
    Priority <- MCPriority
    LeaseTtl = 3
    IdleRevoke = 2
    PersonIdle = 2
    ContendedIdle = 1
    DisconnectGrace = 1
    QueueTtl = 2
    MaxQueueDepth = 2
    MinHold = 2
    PreemptGrace = 1
    ForceBackoff = 2
    MaxTime = 3
    MaxId = 4
INVARIANTS
    NoInheritedInput
    NoneSoonerThanForecast
PROPERTIES
    PanicHolds
    FloorHolds
    ImplementsLock
