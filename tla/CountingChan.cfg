SPECIFICATION FairSpec
CONSTANTS
    k1 = k1
    k2 = k2
    Collectors = {k1, k2}
    Buffer = 2
    MaxMetrics = 4
    Capacity = 1
    None = None
INVARIANTS
    TypeOK
    CountIsDelivered
    NothingLeftBehind
    NobodyStuck
PROPERTY
    CollectReturns
CHECK_DEADLOCK FALSE
