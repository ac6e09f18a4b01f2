SPECIFICATION Spec
CONSTANTS
    x1 = x1
    x2 = x2
    Exporters = {x1, x2}
    Options <- AllOptions
    Files <- TwoFiles
    Customs <- TwoCustoms
    MaxBatch = 1
    MaxAdded = 2
    None = None
INVARIANTS
    TypeOK
    ResolvedAsAsked
    BuiltInsNeverClash
    OnePrefix
    FilesWhole
SYMMETRY Symmetry
CHECK_DEADLOCK FALSE
