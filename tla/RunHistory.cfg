CONSTANTS
    Owner = {a, b}
    Ttl = 1
    MaxClock = 2
    MaxLeases = 3
    MaxCheckpoints = 2
    MaxPauses = 0
SPECIFICATION FairSpec
CHECK_DEADLOCK FALSE
INVARIANTS
    TypeOK
    FreshInv
    LinearHistory
PROPERTIES
    OneAttemptPerFailure
    ImplementsRunLog
    TerminalQuiesces
