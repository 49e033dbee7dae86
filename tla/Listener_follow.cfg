SPECIFICATION FairSpec
CONSTANTS
    Readers = {main}
    Main = main
    MAX_RETRYS = 2
    Persistent = FALSE
    MaxBlock = 3
    PerBlock = 2
    MaxLag = 1
    Fails = TRUE
    MidBlock = FALSE
    MaxCrashes = 1
INVARIANTS TypeOK AtLeastOnce InOrder Fresh
PROPERTY Delivered
CHECK_DEADLOCK FALSE
