SPECIFICATION FairSpec
CHECK_DEADLOCK FALSE
CONSTANTS
    Ports = {1, 2}
    Readers = {"gateway"}
    Writers = {"plcWrite"}
    PortsOf <- PortsUsed
    Blocks <- SomeBlocks
    Targets = {"D100", "D114"}
    MaxWord = 1
    Given = {1}
    Gain = 2
    Elapsed = 1
    MaxSent = 2
INVARIANTS
    TypeOK
    WordsWereHeld
    AckedWriteStands
PROPERTIES
    HandedOver
    RequestsAnswered
    FollowsInput
