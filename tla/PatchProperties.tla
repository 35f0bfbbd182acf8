--------------------------- MODULE PatchProperties ---------------------------
(***************************************************************************)
(* What the controlled application of a patch is for, stated over the      *)
(* state of PatchExecutor.                                                 *)
(***************************************************************************)
EXTENDS PatchExecutor

TypeOK ==
    /\ authorization \in Authorization
    /\ capability \in Capability
    /\ disk \in [File -> Content]
    /\ script \in Script
    /\ starts \in Nat
    /\ edits \in 0 .. MaxEdits
    /\ row \in Row
    /\ pc \in [Executor -> PC]
    /\ asked \in [Executor -> Request \cup {NoRequest}]
    /\ saw \in [Executor -> EffectStatus]
    /\ answers \subseteq Result \cup {"unresolved"}

\* A container was started only for a patch that was granted: the policy or the
\* user has allowed a request for this very patch, nobody has denied it or
\* given it up since, its one capability is used up, and the ledger's row
\* names the patch (Policy, approval, capability and intent come first, and
\* all of them are still there however the calls of the executors interleave).
OnlyGrantedPatchRuns ==
    starts > 0 =>
        /\ authorization.status \in Granting
        /\ capability.status = "consumed"
        /\ capability.request = authorization.request
        /\ script.patch = PatchOf[authorization.request]
        /\ row.digest = script.patch

\* What the policy or the user has decided stays decided, for the request it
\* was decided for: a late answer, another process with another answer, a call
\* with another profile or patch cannot turn it (the transactions compare the
\* status and the exact request).
DecisionStands ==
    [][authorization.status \in AuthorizationStatus \ {"pending"}
       => authorization' = authorization]_vars

\* While a file holds the patch the ledger admits that it may: the row is
\* written ahead of the first change, and says rolled back only when the last
\* change is undone (a killed container or a failed restore leaves it UNKNOWN
\* or EXECUTING).
ChangeIsOnRecord ==
    (\E f \in File : disk[f] \in Patch) =>
        row.status \in {"executing", "unknown", "committed"}

\* Unless the user has edited, a committed row means that the whole patch is in
\* place, or that the script was undoing or has undone it: another executor
\* may have committed the row after the last file was replaced, before the
\* script had read that file back.
CommittedIsApplied ==
    row.status = "committed" /\ edits = 0 =>
        \/ Applied(row.digest)
        \/ script.state \in {"undoing", "rolled_back", "rollback_failed"}

\* The patch as the effect of one tool call: a rollback is its failure, and a
\* call that reported an unresolved effect was given no answer.
Abstract == INSTANCE EffectOnce WITH
    stage     <- CASE row.status \in {"absent", "intent_recorded"} -> "open"
                   [] row.status = "executing"                     -> "claimed"
                   [] row.status = "committed"                     -> "succeeded"
                   [] row.status = "rolled_back"                   -> "failed"
                   [] OTHER                                        -> "lost",
    performed <- starts,
    answers   <- answers \ {"unresolved"}

\* Whatever the approvals, crashes, time limits and reconciliations, at most
\* one container is ever started for the call, and all who are told the outcome
\* are told the same.
ImplementsEffectOnce == Abstract!Spec

-----------------------------------------------------------------------------
(* Why it works.                                                            *)

\* A call under way has a request, and a row that was seen committed still is.
CallInv ==
    \A e \in Executor :
        /\ pc[e] \notin {"idle", "dead"} => asked[e] \in Request
        /\ saw[e] = "committed" => row.status = "committed"

\* The way to the container leads through the grant, the capability and the
\* intent, in this order, and all are for one request.
Entitled == {"intending", "claiming", "claimed", "running", "committing"}
GrantInv ==
    /\ authorization.status # Absent => authorization.request \in Request
    /\ capability.status # Absent =>
          /\ authorization.status \in Granting
          /\ capability.request = authorization.request
    /\ row.status # "absent" =>
          /\ capability.status = "consumed"
          /\ row.digest = PatchOf[capability.request]
    /\ \A e \in Executor : pc[e] \in Entitled =>
          /\ capability.status = "consumed"
          /\ capability.request = asked[e]

\* Who is past the claim holds the only claim there ever was; another executor
\* may have committed the row meanwhile, but nobody else marks it.
ClaimInv ==
    /\ starts \in {0, 1}
    /\ row.status \in {"absent", "intent_recorded"} => starts = 0
    /\ starts = 0 => script.state = "none"
    /\ starts = 1 => script.state # "none" /\ script.patch = row.digest
    /\ \A e \in Executor :
          /\ pc[e] = "claimed" => starts = 0 /\ row.status = "executing" /\ row.owner = e
          /\ pc[e] \in {"running", "committing", "recording", "unresolved", "failing"} =>
                row.status \in {"executing", "committed"} /\ row.owner = e
          /\ pc[e] \in {"running", "committing", "recording", "unresolved", "adopting"} =>
                starts = 1
          /\ pc[e] = "committing" => script.state = "applied"
          /\ pc[e] = "recording" => script.state = "rolled_back"

\* How far the script has got is how far the files have changed.
Reached(f) ==
    CASE script.state \in {"none", "staging"}       -> FALSE
      [] script.state \in {"checking", "replacing"} -> f < script.at
      [] script.state = "verifying"                 -> f <= script.at
      [] script.state = "undoing"                   -> f <= script.at \/ script.broken
      [] script.state = "rolled_back"               -> FALSE
      [] OTHER                                      -> TRUE

DiskInv ==
    /\ script.state # "none" => script.patch \in Patch
    /\ script.state \in {"checking", "replacing", "verifying"} => script.at >= 1
    /\ \A f \in File : disk[f] \in Patch => disk[f] = script.patch /\ Reached(f)
    /\ edits = 0 /\ script.state \in {"checking", "replacing", "verifying", "applied"} =>
          \A f \in File : Reached(f) => disk[f] = script.patch

\* What is committed, or about to be, is in place unless it was undone after it
\* had been seen.
InPlace ==
    \/ Applied(row.digest)
    \/ script.state \in {"undoing", "rolled_back", "rollback_failed"}

CommitInv ==
    edits = 0 =>
        /\ row.status = "committed" => InPlace
        /\ \A e \in Executor : pc[e] = "adopting" => InPlace

\* The answers given are the one on record, and an unexecuted row has none.
RecordInv ==
    /\ row.status = "committed" => row.result = "success" /\ starts = 1
    /\ row.status = "rolled_back" =>
          row.result = "failure" /\ starts = 1 /\ script.state = "rolled_back"
    /\ row.status # "failed"
    /\ \A e \in Executor : pc[e] = "settled" => row.status \in {"committed", "rolled_back"}
    /\ \A r \in answers \cap Result :
          row.status \in {"committed", "rolled_back"} /\ row.result = r

\* The inductive invariant: grant, claim, container, files and record fit
\* together wherever the calls and the script stand.
PatchInv ==
    /\ TypeOK
    /\ CallInv
    /\ GrantInv
    /\ ClaimInv
    /\ DiskInv
    /\ CommitInv
    /\ RecordInv

-----------------------------------------------------------------------------
\* A call that has begun ends, also when its container hangs, its row was
\* settled by somebody else or its question was never answered.
CallsReturn == \A e \in Executor : pc[e] # "idle" ~> pc[e] \in {"idle", "dead"}

-----------------------------------------------------------------------------
\* Documented, and not so: a patch that fails leaves no part of it behind
\* (docs/agent-plans/2026-08-08-phase-2-controllable-coding-agent-plan.md:1144).
\* A call that has handed back a failure has left no changed file, or all.
FailureLeavesNoPart ==
    answers \cap {"failure", "unresolved"} # {} =>
        \/ \A f \in File : disk[f] \notin Patch
        \/ Applied(row.digest)
=============================================================================
