SPECIFICATION Spec
CONSTANTS
    Starts = {"D100", "D200"}
    Lengths = {1, 2}
    Encodable = {1, 2}
    Periods = {100, 200}
    None = None
    Lossy = FALSE
    InitialRows <- TwoRows
    MaxCommands = 2
INVARIANTS
    QuiescentListIsCurrent
