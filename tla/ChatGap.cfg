CONSTANTS
    c1 = c1
    c2 = c2
    c3 = c3
    c4 = c4
    c5 = c5
    Conversations = {c2}
    MaxRuns <- RunsOf
    ToolOutcomes <- ToolsOf
    QueueSize = 8
    MaxRequests <- TwoAtOnce
    MaxFaults <- FaultsOf
    FaultKinds = {}
    InOrder = TRUE
    Selectable = {}
SPECIFICATION Spec
CHECK_DEADLOCK FALSE
INVARIANT SnapshotClosesGap
