\* Of the candidates two, to the time 8, past three times Expiry; of the archive three
\* days of two units: the first leaves the retention on the third.
CONSTANTS
    Channels = {c1}
    Sources = {s1}
    Workers <- SmallPools
    Outcomes = {"qualified", "no_config"}
    MinSuccess = 2
    MinInterval = 2
    Expiry = 2
    MaxClock = 8
    Configs = {v, h}
    Vpn = {v}
    Origins = {tg}
    DayLength = 2
    DailyDays = 2
    RollingDays = 2
    MaxTime = 4
SPECIFICATION StoresSpec
INVARIANTS
    PromotionIsEarned
    DaysAreArchived
    CompleteRunPublishes
    NothingIsLeftBehind
PROPERTIES
    ImplementsCandidateRegister
    ImplementsDayArchive
CHECK_DEADLOCK FALSE
