SPECIFICATION CacheSpec
CONSTANTS
    Readers = {r1, r2}
    Persistent = TRUE
    MaxBlock = 2
    PerBlock = 2
    MaxLag = 1
    Fails = TRUE
    MidBlock = FALSE
    MaxCrashes = 1
SYMMETRY Symmetry
INVARIANTS CacheTypeOK NoGap
CHECK_DEADLOCK FALSE
