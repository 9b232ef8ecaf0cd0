SPECIFICATION MeasuredSpec
CHECK_DEADLOCK FALSE
CONSTANTS
    N = 2
    Length <- BothLong
    Values = {0, 1}
    MaxTries = 2
    Full = 2
    Cuts = {2}
    Lookalikes = {1}
    MaxBehind = 0
    MaxStrays = 1
    Observed = {1}
    MaxList = 2
    NothingRead = NothingRead
INVARIANTS
    TypeOK
    MeasuredOnItsRequest
    SubscribersKnow
PROPERTIES
    ImplementsFeed
