CONSTANTS
    Urls = {"u"}
    Contents = {"a", "b"}
    HashOf <- MCHashOf
    FileOf <- MCOwnFiles
    MaxRetries = 1
    MaxEvents = 1
    MaxStarts = 1
SPECIFICATION CycleSpec
INVARIANTS
    UpdatedMeansLastCycle
CHECK_DEADLOCK FALSE
