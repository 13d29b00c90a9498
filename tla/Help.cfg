SPECIFICATION FairSpec
CONSTANTS
    None = None
    a = a
    b = b
    Helper = {a, b}
    Capacity = 1
    Scenes <- MCScenes
INVARIANTS
    HeldIsCurrent
    ToolsAreTheirs
PROPERTIES
    TakenBackIsLifted
    EveryKnockIsAnswered
CHECK_DEADLOCK FALSE
