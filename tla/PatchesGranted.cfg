CONSTANTS
    Executor = {e1, e2}
    Patch <- MCPatch
    Request <- MCRequest
    PolicyDecision <- MCPolicyDecision
    PatchOf <- MCPatchOf
    NumFiles = 2
    MaxEdits = 1
SPECIFICATION Spec
SYMMETRY Interchangeable
CHECK_DEADLOCK FALSE
INVARIANTS
    PatchInv
    OnlyGrantedPatchRuns
    ChangeIsOnRecord
    CommittedIsApplied
PROPERTIES
    DecisionStands
    ImplementsEffectOnce
