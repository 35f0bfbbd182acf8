CONSTANTS
    c1 = c1
    c2 = c2
    c3 = c3
    c4 = c4
    c5 = c5
    Conversations = {c1, c2, c3}
    MaxRuns <- RunsOf
    ToolOutcomes <- ToolsOf
    QueueSize = 2
    MaxRequests <- RequestsOf
    MaxFaults <- FaultsOf
    FaultKinds = {"request", "activities", "connection", "crash"}
    InOrder = TRUE
    Selectable = {}
SPECIFICATION Spec
CHECK_DEADLOCK FALSE
INVARIANT StopEndsItsRun
