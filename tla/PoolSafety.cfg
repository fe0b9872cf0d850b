\* NewWorkerPool(0) gets one worker and a buffer of two, which four calls fill; a
\* second Start adds a worker.
CONSTANTS
    Clients = {c1, c2}
    Requested = 0
    MaxCalls = 4
    MaxStarts = 2
SPECIFICATION FairSpec
INVARIANTS
    WaitLeavesFewerThanWorkers
    StopFinishesBegun
    NilMeansRanOrStopped
PROPERTIES
    ImplementsJobService
    StopReturns
    WaitReturnsUnlessStopped
\* A Wait on a stopped pool never returns and the calls are bounded.
CHECK_DEADLOCK FALSE
