\* Two goroutines race for one key, two requests for the statistics; a log of two
\* files; three configs in pages of two; three reports; a semaphore of one, which
\* makes one config wait, and two tests that may fall into one second.
CONSTANTS
    Keys = {k1}
    Users = {u1, u2}
    TTLs = {1}
    MaxSets = 2
    MaxTime = 2
    MaxSize = 2
    MaxFiles = 2
    Lengths = {1, 3}
    MaxLines = 6
    LastSecond = 3
    Fingerprints = {1, 2, 3}
    PageSize = 2
    Requests = {r1, r2}
    MaxPublish = 3
    Links = {c1, c2}
    MaxReports = 3
    Configs = {c1, c2}
    Sites <- MCSites
    BadURLs = {2}
    MaxConcurrentTests = 1
    RetryCount = 1
    MaxTests = 2
    MaxClock = 1
SPECIFICATION Spec
INVARIANTS
    NothingOutlivesItsTTL
    SavedFileIsWhole
    
    LogFilesAreShort
    PagesShowTheList
    TrendAddsUp
    LatestTellsTheLast
    CompleteUnlessCancelled
    ReportAddsUp
PROPERTIES
    SavedReportsStay
    StopEnds
CHECK_DEADLOCK FALSE
