SPECIFICATION Spec
CONSTANTS
    g1 = g1
    g2 = g2
    g3 = g3
    Goroutines = {g1, g2}
    Selects <- SelectFunctions
    Versions <- Supported
    MaxConns = 1
    MayUpgrade = FALSE
    Free = Free
INVARIANT
    RunsClean
