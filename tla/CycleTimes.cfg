SPECIFICATION Spec
CONSTANTS
    Window = 2
    None = None
    MaxTime = 4
    Whole = 12
INVARIANTS
    TypeOK
    RowsInOrder
    RowsAgree
    CyclesInOrder
    MeansSplitTheTotal
