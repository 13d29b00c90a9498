SPECIFICATION FairSpec
CONSTANTS
    N = 3
    Key = Key
    Body <- Clicks
    Capacity = 1
    MaxOther = 1
INVARIANTS
    NoMissedTurn
    OvertakingIsLogged
    ChangesAreKept
PROPERTIES
    EveryCallReturns
