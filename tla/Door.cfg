SPECIFICATION FairSpec
CONSTANTS
    None = None
    a = a
    b = b
    Helper = {a, b}
    Listeners = 2
    MAX_HELPERS = 1
    LOCKOUT_FAILURES = 1
    Room = 1
    Scenes <- MCScenes
INVARIANTS
    GuessesAreBounded
PROPERTIES
    LetGoIsOut
    KnocksAreAnswered
CHECK_DEADLOCK FALSE
