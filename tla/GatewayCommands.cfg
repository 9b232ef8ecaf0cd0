SPECIFICATION FairSpec
CONSTANTS
    Starts = {"D100", "D200"}
    Lengths = {1, 65536}
    Encodable = {1}
    Periods = {100, 200}
    None = None
    Lossy = TRUE
    InitialRows <- TwoRows
    MaxCommands = 3
INVARIANTS
    TypeOK
    PublishedIsCurrent
    PassesCoverTheList
PROPERTIES
    NoEntryTwice
    AppendsAreNew
    RequestsAnswered
