SPECIFICATION Spec
CHECK_DEADLOCK FALSE
CONSTANTS
    Probed <- ProbedDevices
    Numbers <- SomeNumbers
    MaxLength = 3
    SomeWords = {258, 65244}
    Targets = {0, 1, 2}
INVARIANTS
    AddressesParse
    ValueOfItsRegister
    SignKept
    EveryRegisterPublished
    OnlyFromItsAnswer
    GeneratedRowsRead
