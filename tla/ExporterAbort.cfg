SPECIFICATION Spec
CONSTANTS
    s1 = s1
    s2 = s2
    t1 = t1
    t2 = t2
    p1 = p1
    k1 = k1
    k2 = k2
    Scrapes = {s1}
    Stops = {t1}
    Impatient = {t1}
    Pings = {}
    Collectors = {k1}
    MaySkip = {}
    N = 1
    MaxConns = 1
    HasDeadline = TRUE
    Free = Free
    Unknown = Unknown
INVARIANT
    CleanAbort
CHECK_DEADLOCK FALSE
