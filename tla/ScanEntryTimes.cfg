SPECIFICATION FairSpec
CHECK_DEADLOCK FALSE
CONSTANTS
    Periods = {2, 3}
    Never = Never
    None = None
    Lengths = {1, 2}
    Jitter = 1
    MaxTries = 2
    MaxLate = 4
    MaxBack = 1
    Wheel = 6
INVARIANTS
    TypeOK
    NeverPutOff
    NoDrift
    OnlyOnRequest
    ReadInOneShape
    RescanStands
PROPERTIES
    RescansHappen
