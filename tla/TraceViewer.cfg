CONSTANTS
    s1 = s1
    s2 = s2
    k1 = k1
    Sessions = {s1, s2}
    ConversationOf <- OneInChat
    MaxEvents <- TwoAndOne
    MaxLoads = 2
SPECIFICATION Spec
INVARIANTS
    OneTrace
    ShowsWhatIsLoaded
CHECK_DEADLOCK FALSE
