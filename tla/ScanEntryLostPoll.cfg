SPECIFICATION Spec
CHECK_DEADLOCK FALSE
CONSTANTS
    Periods = {2}
    Never = Never
    None = None
    Lengths = {1, 2}
    Jitter = 1
    MaxTries = 2
    MaxLate = 2
    MaxBack = 0
    Wheel = 2
INVARIANTS
    PollIsHonoured
