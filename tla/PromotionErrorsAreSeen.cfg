\* Two workers: the last listing may fail after Wait has returned.
CONSTANTS
    Channels = {c1}
    Sources = {s1}
    Workers <- SmallPools
    Outcomes = {"qualified", "no_config"}
    MinSuccess = 1
    MinInterval = 2
    Expiry = 2
    MaxClock = 2
SPECIFICATION Spec
INVARIANT ErrorsAreSeen
CHECK_DEADLOCK FALSE
