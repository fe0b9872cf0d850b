\* Two subscriptions that have one file, two processes with a tick or a call between them.
CONSTANTS
    Urls = {u, v}
    Contents = {"a", "b", "c"}
    HashOf <- MCHashOf
    FileOf <- MCOneFile
    MaxRetries = 1
    MaxEvents = 1
    MaxStarts = 2
SYMMETRY UrlSymmetry
SPECIFICATION Spec
INVARIANTS
    ContentFollowsHash
    TornByOverlapOnly
PROPERTIES
    StopKeepsStates
CHECK_DEADLOCK FALSE
