SPECIFICATION ViewerSpec
CONSTANTS
    Party = {a, b, h}
    Person = h
    Ticker = ticker
    None = None
    Kind <- MCKind
    Priority <- MCPriority
    LeaseTtl = 4
    IdleRevoke = 2
    PersonIdle = 2
    ContendedIdle = 1
    DisconnectGrace = 2
    QueueTtl = 3
    MaxQueueDepth = 2
    MinHold = 1
    PreemptGrace = 1
    ForceBackoff = 2
    NotNow = 3
    MaxTime = 3
    MaxId = 4
    Scenes <- RaceScenes
PROPERTIES
    AgentsNeverInherit
