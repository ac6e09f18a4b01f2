SPECIFICATION FairProcess
CONSTANTS
    s1 = s1
    s2 = s2
    t1 = t1
    k1 = k1
    k2 = k2
    Scrapes = {s1, s2}
    Stops = {t1}
    Impatient = {t1}
    Pings = {}
    Collectors = {k1, k2}
    MaySkip = {k2}
    N = 1
    MaxConns = 1
    HasDeadline = TRUE
    Free = Free
    Unknown = Unknown
    Main = t1
INVARIANTS
    CleanExit
    ServedFromOpenPools
PROPERTY
    ProcessEnds
CHECK_DEADLOCK FALSE
