CONSTANTS
    Executor = {e1, e2}
    Patch <- MCOnePatch
    Request <- MCSamePatch
    PolicyDecision <- MCPolicyDecision
    PatchOf <- MCPatchOf
    NumFiles = 2
    MaxEdits = 0
SPECIFICATION FairSpec
CHECK_DEADLOCK FALSE
PROPERTY CallsReturn
