SPECIFICATION FairSpec
CONSTANTS
    N = 2
    Values = {0, 1, 2}
    Labels <- ThreeBands
    Thresholds <- TwoBounds
    PeriodFor <- TwoCommands
    FilePeriod = 5
    Faults = {"restart", "disconnect", "reconnect"}
    MaxValues = 1
    MaxCommands = 2
INVARIANTS
    TypeOK
    PeriodFollowsLabels
PROPERTIES
    ValuesAreHeard
