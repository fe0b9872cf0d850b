\* A Write of one unit and a ping.
CONSTANTS
    MaxUnits = 1
    MaxFails = 0
SPECIFICATION TunnelSpec
INVARIANT FramesAreWhole
CHECK_DEADLOCK FALSE
