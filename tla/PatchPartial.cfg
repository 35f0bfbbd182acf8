CONSTANTS
    Executor = {e1}
    Patch <- MCPatch
    Request <- MCRequest
    PolicyDecision <- MCPolicyDecision
    PatchOf <- MCPatchOf
    NumFiles = 2
    MaxEdits = 0
SPECIFICATION Spec
CHECK_DEADLOCK FALSE
INVARIANT FailureLeavesNoPart
