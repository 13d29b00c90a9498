SPECIFICATION FairSpec
CONSTANTS
    None = None
    p = p
    q = q
    a = a
    Caller = {p, q, a}
    Panel = {p, q}
    Endpoint <- MCEndpoint
    Transfer = {1, 2}
    Size <- MCSize
    Scenes <- MCScenes
INVARIANTS
    FinishedIsWhole
    TransfersCanBeStopped
    OneChunkMore
PROPERTIES
    EveryTransferEnds
CHECK_DEADLOCK FALSE
