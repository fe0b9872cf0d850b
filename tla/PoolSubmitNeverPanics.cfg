\* One owner, two workers.
CONSTANTS
    Clients = {c1}
    Requested = 2
    MaxCalls = 2
    MaxStarts = 1
SPECIFICATION Spec
INVARIANT SubmitNeverPanics
CHECK_DEADLOCK FALSE
