SPECIFICATION FairSpec
CHECK_DEADLOCK FALSE
CONSTANTS
    N = 2
    Length <- ShortAndLong
    Values = {0}
    MaxTries = 2
    Full = 2
    Cuts = {1, 2, 3}
    Lookalikes = {}
    MaxBehind = 2
    MaxStrays = 2
INVARIANTS
    Attributed
    BacklogBounded
PROPERTIES
    PassesComplete
