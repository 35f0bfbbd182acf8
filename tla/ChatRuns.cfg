CONSTANTS
    c1 = c1
    c2 = c2
    c3 = c3
    c4 = c4
    c5 = c5
    Conversations = {c1, c2, c3, c4, c5}
    MaxRuns <- RunsOf
    ToolOutcomes <- ToolsOf
    QueueSize = 2
    MaxRequests <- RequestsOf
    MaxFaults <- FaultsOf
    FaultKinds = {"request", "activities", "connection", "crash"}
    InOrder = TRUE
    Selectable = {c4, c5}
SPECIFICATION Spec
CHECK_DEADLOCK FALSE
INVARIANTS
    ChatTypeOK
    OneActiveRun
    OwnedRun
    StreamFollowsSelection
    ViewBehindServer
    FallsBehindOnlyWhen
    FinalActivities
PROPERTIES
    ViewGrows
    EndedIsFinal
