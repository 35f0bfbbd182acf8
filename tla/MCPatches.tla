------------------------------ MODULE MCPatches ------------------------------
(* PatchProperties on small instances. *)
EXTENDS PatchProperties, TLC

\* Two patches; a profile under which the user is asked, one under which the
\* policy allows, and one under which it refuses.
MCPatch == {"p", "q"}
MCRequest == {"p asked", "q asked", "p allowed", "p denied"}

\* For liveness: two requests for the one patch, which get in each other's way.
MCOnePatch == {"p"}
MCSamePatch == {"p asked", "p denied"}

Verdicts == [r \in MCRequest |->
    CASE r = "p allowed" -> "allow" [] r = "p denied" -> "deny" [] OTHER -> "ask"]
Targets == [r \in MCRequest |-> IF r = "q asked" THEN "q" ELSE "p"]

MCPolicyDecision == [r \in Request |-> Verdicts[r]]
MCPatchOf == [r \in Request |-> Targets[r]]

Interchangeable == Permutations(Executor)
=============================================================================
