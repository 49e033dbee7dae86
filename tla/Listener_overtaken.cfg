SPECIFICATION Spec
CONSTANTS
    Readers = {main, resolver}
    Main = main
    MAX_RETRYS = 2
    Persistent = FALSE
    MaxBlock = 2
    PerBlock = 1
    MaxLag = 1
    Fails = TRUE
    MidBlock = FALSE
    MaxCrashes = 1
INVARIANT AtLeastOnce
CHECK_DEADLOCK FALSE
