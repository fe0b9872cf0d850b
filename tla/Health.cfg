\* Two channels and a source; a time is as long as the days to dormancy.
CONSTANTS
    Scan = scan
    Callers = {scan}
    Limited = {scan}
    Retries = 1
    MaxGets = 3
    Channels = {ch1, ch2}
    Sources = {src}
    DormantAfter = 1
    MaxClock = 4
SYMMETRY ChannelSymmetry
SPECIFICATION HealthSpec
INVARIANTS
    RecordsTellWhatWasSaved
    DormancyIsEarned
    OneResultIsCut
PROPERTIES
    ImplementsRecordBook
CHECK_DEADLOCK FALSE
