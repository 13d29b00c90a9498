SPECIFICATION FairSpec
CONSTANTS
    g = g
    h = h
    None = None
    Intent = {1, 2}
    Grant <- MCGrant
    GrantOf <- MCGrantOf
    Mixes <- MCMixes
    Sweeper = {s, t}
    Capacity = 2
    Reserved = 1
    MaxChanges = 2
    MaxOthers = 1
INVARIANTS
    AnswersAreHeard
    OneStraggler
    SettledLetsGo
    SweptInTheEnd
CHECK_DEADLOCK FALSE
PROPERTIES
    EveryIntentSettles
