\* Of the fetches more than the workers and the buffer take at once; of the client
\* two callers that share a limiter, one of which calls twice; of a tunnel two units
\* each way: a second Read after a cut, a second Write after the first.
CONSTANTS
    Main = main
    Clients = {main}
    Requested = 2
    MaxCalls = 7
    MaxStarts = 1
    Fetches = 6
    Callers = {c1, c2}
    Limited = {c1, c2}
    Retries = 2
    MaxGets = 3
    MaxUnits = 2
    MaxFails = 1
SPECIFICATION NetworkSpec
INVARIANTS
    LateResultsAreFew
    NoFetchOutlivesCollect
    LastAnswerReturned
    HandshakeEndsClean
PROPERTIES
    FetchesEnd
    GetReturns
    ImplementsOrderedStream
    ContextEndsDial
CHECK_DEADLOCK FALSE
