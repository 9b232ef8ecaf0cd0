SPECIFICATION Spec
CHECK_DEADLOCK FALSE
CONSTANTS
    N = 2
    Length <- BothLong
    Values = {0, 1}
    MaxTries = 2
    Full = 2
    Cuts = {3}
    Lookalikes = {}
    MaxBehind = 0
    MaxStrays = 1
INVARIANTS
    Attributed
