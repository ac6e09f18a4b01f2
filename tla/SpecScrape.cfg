SPECIFICATION SpecSpec
CONSTANTS
    c1 = c1
    c2 = c2
    k1 = k1
    k2 = k2
    r1 = r1
    r2 = r2
    Clients = {c1, c2}
    Keys = {k1, k2}
    RowsOf <- Overlap
    Readers = {r1, r2}
    MaxRounds = 3
    Free = Free
    Amounts <- SomeAmounts
    Scales <- SomeScales
    Null = Null
    None = None
INVARIANTS
    SpecTypeOK
    PageIsFresh
    OnlyReported
    OnlyBadDataKills
SYMMETRY Symmetry
CHECK_DEADLOCK FALSE
