\* The components of Services.cfg, of which the tester is looked at.
CONSTANTS
    Keys = {k1}
    Users = {u1, u2}
    TTLs = {1}
    MaxSets = 2
    MaxTime = 2
    MaxSize = 2
    MaxFiles = 2
    Lengths = {1, 3}
    MaxLines = 6
    LastSecond = 3
    Fingerprints = {1, 2, 3}
    PageSize = 2
    Requests = {r1, r2}
    MaxPublish = 3
    Links = {c1, c2}
    MaxReports = 3
    Configs = {c1, c2}
    Sites <- MCSites
    BadURLs = {2}
    MaxConcurrentTests = 1
    RetryCount = 1
    MaxTests = 2
    MaxClock = 1
SPECIFICATION Spec
INVARIANT LatestLinksToNewest
CHECK_DEADLOCK FALSE
