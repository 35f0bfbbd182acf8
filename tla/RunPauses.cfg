CONSTANTS
    Owner = {a, b}
    Ttl = 1
    MaxClock = 2
    MaxLeases = 3
    MaxCheckpoints = 2
    MaxPauses = 1
SPECIFICATION Spec
SYMMETRY Callers
CHECK_DEADLOCK FALSE
INVARIANTS
    OneOwner
    Fenced
    TakeoverChain
    VersionedHistory
    SaveInv
PROPERTIES
    TakenOnlyWhenExpired
    TerminalIsFinal
