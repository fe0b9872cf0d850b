\* Two requests, of which the second comes after the five minutes.
CONSTANTS
    Fingerprints = {1}
    PageSize = 1
    Requests = {r1, r2}
    MaxPublish = 2
    CacheTTL = 5
    MaxTime = 6
SPECIFICATION Spec
INVARIANT StatsWithinTTL
CHECK_DEADLOCK FALSE
