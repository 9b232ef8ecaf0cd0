SPECIFICATION Spec
CONSTANTS
    N = 2
    Values = {0, 1, 2}
    Labels <- ThreeBands
    Thresholds <- TwoBounds
    PeriodFor <- TwoCommands
    FilePeriod = 5
    Faults = {}
    MaxValues = 1
    MaxCommands = 2
INVARIANTS
    PeriodIsAdjusted
