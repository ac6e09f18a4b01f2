SPECIFICATION Spec
CONSTANTS
    s1 = s1
    s2 = s2
    t1 = t1
    t2 = t2
    p1 = p1
    k1 = k1
    k2 = k2
    Scrapes = {s1, s2}
    Stops = {t1, t2}
    Impatient = {t2}
    Pings = {p1}
    Collectors = {k1, k2}
    MaySkip = {k2}
    N = 2
    MaxConns = 1
    HasDeadline = TRUE
    Free = Free
    Unknown = Unknown
INVARIANTS
    TypeOK
    NoCloseUnderScrape
    NoStrayWorker
    HolderGoesOn
    ShutdownDrains
    ErrorsExplainDown
    ErrorsHaveCause
PROPERTIES
    UpMeansComplete
    GateSpec
SYMMETRY Symmetry
CHECK_DEADLOCK FALSE
