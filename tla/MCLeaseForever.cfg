SPECIFICATION ForeverSpec
CONSTANTS
    agent1 = agent1
    agent2 = agent2
    human = human
    None = None
    Party <- MCParty
    Kind <- MCKind
    Priority <- MCPriority
    LeaseTtl = 2
    IdleRevoke = 2
    PersonIdle = 2
    ContendedIdle = 1
    DisconnectGrace = 1
    QueueTtl = 2
    MaxQueueDepth = 2
    MinHold = 1
    PreemptGrace = 1
    ForceBackoff = 1
    MaxTime = 2
    MaxId = 3
PROPERTIES
    ForgottenLeaseFrees
    WaitersGetTurns
