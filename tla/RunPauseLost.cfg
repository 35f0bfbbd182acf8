CONSTANTS
    Owner = {a, b}
    Ttl = 1
    MaxClock = 2
    MaxLeases = 3
    MaxCheckpoints = 3
    MaxPauses = 1
SPECIFICATION Spec

CHECK_DEADLOCK FALSE
INVARIANT LinearHistory
