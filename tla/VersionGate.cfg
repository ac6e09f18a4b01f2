SPECIFICATION FairSpec
CONSTANTS
    g1 = g1
    g2 = g2
    g3 = g3
    Goroutines = {g1, g2}
    Selects <- SelectFunctions
    Versions <- Supported
    MaxConns = 1
    MayUpgrade = TRUE
    Free = Free
INVARIANTS
    TypeOK
    SingleFlight
    GateCorrect
    OnlyBgwriterRejected
    AdditiveNeverRejected
PROPERTIES
    SelectsReturn
    SelfHeals
