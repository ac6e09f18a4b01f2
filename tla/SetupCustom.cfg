SPECIFICATION Spec
CONSTANTS
    x1 = x1
    x2 = x2
    Exporters = {x1, x2}
    Options <- OneOption
    Files <- NoFiles
    Customs <- OneCustom
    MaxBatch = 2
    MaxAdded = 3
    None = None
INVARIANT
    NamesDistinct
SYMMETRY Symmetry
CHECK_DEADLOCK FALSE
