SPECIFICATION Spec
CONSTANTS
    c1 = c1
    c2 = c2
    k1 = k1
    r1 = r1
    r2 = r2
    Clients = {c1, c2}
    Keys = {k1}
    KeyOf <- SharedKey
    Readers = {r1, r2}
    MaxStat = 2
    Absent = Absent
    Live = Live
    Free = Free
INVARIANTS
    TypeOK
    DeltasSumUp
    PointersShowReported
PROPERTIES
    ResetsAreReal
    AbsSpec
SYMMETRY Symmetry
