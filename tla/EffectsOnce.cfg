CONSTANTS
    Executor = {e1, e2}
    Slot = {s1, s2}
    Digest = {d1, d2}
SPECIFICATION FairSpec
CHECK_DEADLOCK FALSE
INVARIANTS
    EffectInv
    AtMostOnce
    AnswersAgree
    RecordIsTruthful
    OneClaimant
PROPERTIES
    SettledNeverChanges
    ImplementsEffectOnce
    CallsReturn
