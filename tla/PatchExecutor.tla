---------------------------- MODULE PatchExecutor ----------------------------
(***************************************************************************)
(* ControlledPatchExecutor (tools/patch/apply_patch.py): several           *)
(* executors, in processes that may die, are asked again and again to      *)
(* apply a patch for the same tool call of the same run.  Each handles     *)
(* one call at a time: policy, approval, capability, intent, claim, the    *)
(* container, verification, commit; or the reconciliation with what an     *)
(* earlier call left behind.                                               *)
(*                                                                         *)
(* A call that raises or returns a failure without having changed anything *)
(* simply ends here.                                                       *)
(***************************************************************************)
EXTENDS Capabilities, PatchApplier

CONSTANTS
    Executor,  \* the executor objects, each with an execution_owner_id
    PatchOf    \* the patch each request is for

ASSUME PatchOfAssumption == PatchOf \in [Request -> Patch]

VARIABLES
    row,      \* the ledger's row of the call
    pc,       \* where each executor's call is
    asked,    \* the request of the call
    saw,      \* the row's status when the call began
    answers   \* the results handed back once the container had been started

\* The arguments of the call are the patch id.
INSTANCE SideEffectLedger WITH Digest <- Patch

callVars == <<pc, asked, saw>>
vars == <<capabilityVars, applierVars, row, callVars, answers>>

PC == {"idle", "refusing", "reconciling", "adopting", "preparing", "authorizing",
       "requesting", "issuing", "consuming", "intending", "claiming", "claimed",
       "running", "committing", "recording", "settled", "unresolved", "failing",
       "dead"}

Init ==
    /\ CapabilitiesInit
    /\ ApplierInit
    /\ LedgerInit
    /\ pc = [e \in Executor |-> "idle"]
    /\ asked = [e \in Executor |-> NoRequest]
    /\ saw = [e \in Executor |-> "absent"]
    /\ answers = {}

-----------------------------------------------------------------------------
Wanted(e) == PatchOf[asked[e]]

Proceed(e, step) ==
    /\ pc' = [pc EXCEPT ![e] = step]
    /\ UNCHANGED <<asked, saw>>

\* The call ends; results is what it hands back of the container's work.
Leave(e, results) ==
    /\ pc' = [pc EXCEPT ![e] = "idle"]
    /\ asked' = [asked EXCEPT ![e] = NoRequest]
    /\ saw' = [saw EXCEPT ![e] = "absent"]
    /\ answers' = answers \cup results

\* The policy's verdict and the row there is decide where the call goes.  For
\* a row that is unknown, rolled back or failed it raises: no step.
Start(e) ==
    /\ pc[e] = "idle"
    /\ \E r \in Request :
          /\ asked' = [asked EXCEPT ![e] = r]
          /\ \/ /\ PolicyDecision[r] = "deny"
                /\ pc' = [pc EXCEPT ![e] = "refusing"]
             \/ /\ PolicyDecision[r] # "deny"
                /\ row.status \in {"committed", "executing"}
                /\ pc' = [pc EXCEPT ![e] = "reconciling"]
             \/ /\ PolicyDecision[r] # "deny"
                /\ row.status \in {"absent", "intent_recorded"}
                /\ pc' = [pc EXCEPT ![e] = "preparing"]
    /\ saw' = [saw EXCEPT ![e] = row.status]
    /\ UNCHANGED <<capabilityVars, applierVars, row, answers>>

\* The issuer records a denial, of the policy or of the user.
Refuse(e) ==
    /\ pc[e] = "refusing"
    /\ \/ RecordDenied(asked[e])
       \/ ~CanDeny(asked[e]) /\ UNCHANGED capabilityVars
    /\ Leave(e, {})
    /\ UNCHANGED <<applierVars, row>>

\* Mutation: an executing row is adopted without a look at the files.
ReconcileUnverified(e) ==
    /\ pc[e] = "reconciling"
    /\ \/ /\ saw[e] = "committed"
          /\ Leave(e, {row.result})
       \/ /\ saw[e] = "executing"
          /\ Proceed(e, "adopting")
          /\ UNCHANGED answers
    /\ UNCHANGED <<capabilityVars, applierVars, row>>

\* _reconcile_existing: with the patch in all its files a committed row's
\* result is handed back, and an executing one is to be committed.
Reconcile(e) ==
    /\ pc[e] = "reconciling"
    /\ \/ /\ Applied(Wanted(e))
          /\ saw[e] = "committed"
          /\ Leave(e, {row.result})
       \/ /\ Applied(Wanted(e))
          /\ saw[e] = "executing"
          /\ Proceed(e, "adopting")
          /\ UNCHANGED answers
       \/ /\ ~Applied(Wanted(e))
          /\ Leave(e, {})
    /\ UNCHANGED <<capabilityVars, applierVars, row>>

\* The commit at the end of _reconcile_existing, under the owner on the row,
\* who may be alive and waiting for its container.
Adopt(e) ==
    /\ pc[e] = "adopting"
    /\ \/ /\ SettleEffect(row.owner, "success")
          /\ Proceed(e, "settled")
          /\ UNCHANGED answers
       \/ /\ ~CanSettle(row.owner)
          /\ Leave(e, {})
          /\ UNCHANGED row
    /\ UNCHANGED <<capabilityVars, applierVars>>

\* prepare_patch
Prepare(e) ==
    /\ pc[e] = "preparing"
    /\ \/ OnBaseline /\ Proceed(e, "authorizing") /\ UNCHANGED answers
       \/ ~OnBaseline /\ Leave(e, {})
    /\ UNCHANGED <<capabilityVars, applierVars, row>>

\* _authorize, up to its first transaction: a capability issued earlier is
\* used if it is exactly for this request, also a consumed one, since the row
\* this call saw had not been claimed.
Authorize(e) ==
    /\ pc[e] = "authorizing"
    /\ \/ /\ capability.status = Absent
          /\ Proceed(e, IF PolicyDecision[asked[e]] = "allow" THEN "issuing" ELSE "requesting")
          /\ UNCHANGED answers
       \/ /\ capability.status # Absent
          /\ capability.request = asked[e]
          /\ Proceed(e, IF capability.status = "consumed" THEN "intending" ELSE "consuming")
          /\ UNCHANGED answers
       \/ /\ capability.status # Absent
          /\ capability.request # asked[e]
          /\ Leave(e, {})
    /\ UNCHANGED <<capabilityVars, applierVars, row>>

\* The request for approval.  Without a decider the call ends (it is made again
\* once the user has answered); with one the answer is at hand.
RequestApproval(e) ==
    /\ pc[e] = "requesting"
    /\ \/ /\ RequestAuthorization(asked[e])
          /\ \/ Leave(e, {})
             \/ Proceed(e, "issuing") /\ UNCHANGED answers
             \/ Proceed(e, "refusing") /\ UNCHANGED answers
       \/ /\ ~CanRequest(asked[e])
          /\ Leave(e, {})
          /\ UNCHANGED capabilityVars
    /\ UNCHANGED <<applierVars, row>>

GrantedAs(r) == IF PolicyDecision[r] = "allow" THEN "policy_allowed" ELSE "approved"

Issue(e) ==
    /\ pc[e] = "issuing"
    /\ \/ /\ IssueCapability(asked[e], GrantedAs(asked[e]))
          /\ Proceed(e, "consuming")
          /\ UNCHANGED answers
       \/ /\ ~CanIssue(asked[e], GrantedAs(asked[e]))
          /\ Leave(e, {})
          /\ UNCHANGED capabilityVars
    /\ UNCHANGED <<applierVars, row>>

Consume(e) ==
    /\ pc[e] = "consuming"
    /\ \/ /\ ConsumeCapability(asked[e])
          /\ Proceed(e, "intending")
          /\ UNCHANGED answers
       \/ /\ ~CanConsume(asked[e])
          /\ Leave(e, {})
          /\ UNCHANGED capabilityVars
    /\ UNCHANGED <<applierVars, row>>

\* ledger.prepare for a call that saw no row; the row must be a mere intent.
Intend(e) ==
    /\ pc[e] = "intending"
    /\ \/ /\ saw[e] = "absent"
          /\ RecordIntent(Wanted(e))
          /\ Proceed(e, "claiming")
          /\ UNCHANGED answers
       \/ /\ \/ saw[e] = "intent_recorded"
             \/ SameIntent(Wanted(e)) /\ row.status = "intent_recorded"
          /\ Proceed(e, "claiming")
          /\ UNCHANGED <<row, answers>>
       \/ /\ saw[e] = "absent"
          /\ row.status # "absent"
          /\ ~(SameIntent(Wanted(e)) /\ row.status = "intent_recorded")
          /\ Leave(e, {})
          /\ UNCHANGED row
    /\ UNCHANGED <<capabilityVars, applierVars>>

Claim(e) ==
    /\ pc[e] = "claiming"
    /\ \/ /\ ClaimEffect(e)
          /\ Proceed(e, "claimed")
          /\ UNCHANGED answers
       \/ /\ ~CanClaim
          /\ Leave(e, {})
          /\ UNCHANGED row
    /\ UNCHANGED <<capabilityVars, applierVars>>

\* ContainerRunner.execute: the capability must be consumed and be for exactly
\* this request; then Docker starts the container, or cannot.
Launch(e) ==
    /\ pc[e] = "claimed"
    /\ \/ /\ capability.status = "consumed"
          /\ capability.request = asked[e]
          /\ StartScript(Wanted(e))
          /\ Proceed(e, "running")
       \/ /\ Proceed(e, "failing")
          /\ UNCHANGED applierVars
    /\ UNCHANGED <<capabilityVars, row, answers>>

\* _resolve_backend_result on what Docker's client reports when it ends.  Applied,
\* but the files are found changed: the call raises, and the row stays executing.
\* A killed container, a failed rollback and a client that has lost its container
\* look alike.
Observe(e) ==
    /\ pc[e] = "running"
    /\ \/ /\ script.state = "applied"
          /\ Applied(Wanted(e))
          /\ Proceed(e, "committing")
          /\ UNCHANGED answers
       \/ /\ script.state = "applied"
          /\ ~Applied(Wanted(e))
          /\ Leave(e, {})
       \/ /\ script.state = "rolled_back"
          /\ Proceed(e, "recording")
          /\ UNCHANGED answers
       \/ /\ script.state \notin {"applied", "rolled_back"}
          /\ Proceed(e, "unresolved")
          /\ UNCHANGED answers
    /\ UNCHANGED <<capabilityVars, applierVars, row>>

\* 30 seconds have passed: the container is removed by force, or that fails
\* and it goes on by itself.
TimeOut(e) ==
    /\ pc[e] = "running"
    /\ \/ KillScript /\ Proceed(e, "unresolved")
       \/ UNCHANGED applierVars /\ Proceed(e, "failing")
    /\ UNCHANGED <<capabilityVars, row, answers>>

Commit(e) ==
    /\ pc[e] = "committing"
    /\ \/ /\ SettleEffect(e, "success")
          /\ Proceed(e, "settled")
          /\ UNCHANGED answers
       \/ /\ ~CanSettle(e)
          /\ Leave(e, {})
          /\ UNCHANGED row
    /\ UNCHANGED <<capabilityVars, applierVars>>

RecordRollback(e) ==
    /\ pc[e] = "recording"
    /\ \/ /\ RollBackEffect(e)
          /\ Proceed(e, "settled")
          /\ UNCHANGED answers
       \/ /\ ~CanSettle(e)
          /\ Leave(e, {})
          /\ UNCHANGED row
    /\ UNCHANGED <<capabilityVars, applierVars>>

\* The call hands back the result it has put on record.
Return(e) ==
    /\ pc[e] = "settled"
    /\ Leave(e, {row.result})
    /\ UNCHANGED <<capabilityVars, applierVars, row>>

\* Mutation: the call waits for the row to be its own again.
MarkWhenMine(e) ==
    /\ pc[e] \in {"unresolved", "failing"}
    /\ MarkEffectUnknown(e)
    /\ Leave(e, IF pc[e] = "unresolved" THEN {"unresolved"} ELSE {})
    /\ UNCHANGED <<capabilityVars, applierVars>>

\* mark_unknown, then a failure result if the container's end was not
\* understood, or the exception once more.
Mark(e) ==
    /\ pc[e] \in {"unresolved", "failing"}
    /\ \/ /\ MarkEffectUnknown(e)
          /\ Leave(e, IF pc[e] = "unresolved" THEN {"unresolved"} ELSE {})
       \/ /\ ~CanMarkUnknown(e)
          /\ Leave(e, {})
          /\ UNCHANGED row
    /\ UNCHANGED <<capabilityVars, applierVars>>

-----------------------------------------------------------------------------
\* The call's task is cancelled: no handler marks the row.  Docker removes the
\* container, or fails to.
Abort(e) ==
    /\ pc[e] \notin {"idle", "dead"}
    /\ \/ pc[e] = "running" /\ KillScript
       \/ UNCHANGED applierVars
    /\ Leave(e, {})
    /\ UNCHANGED <<capabilityVars, row>>

\* The process dies; the container, if any, goes on.
Crash(e) ==
    /\ pc[e] # "dead"
    /\ Proceed(e, "dead")
    /\ UNCHANGED <<capabilityVars, applierVars, row, answers>>

\* What a call does by itself once it has begun.
Step(e) ==
    \/ Refuse(e)
    \/ Reconcile(e)
    \/ Adopt(e)
    \/ Prepare(e)
    \/ Authorize(e)
    \/ RequestApproval(e)
    \/ Issue(e)
    \/ Consume(e)
    \/ Intend(e)
    \/ Claim(e)
    \/ Launch(e)
    \/ Observe(e)
    \/ TimeOut(e)
    \/ Commit(e)
    \/ RecordRollback(e)
    \/ Return(e)
    \/ Mark(e)

\* What the container, the clock, the user and Docker do.
Environment ==
    \/ /\ ScriptStep \/ Edit \/ (Live /\ KillScript)
       /\ UNCHANGED <<capabilityVars, row, callVars, answers>>
    \/ /\ ExpireCapability \/ InvalidatePending
       /\ UNCHANGED <<applierVars, row, callVars, answers>>

Next ==
    \/ \E e \in Executor : Start(e) \/ Step(e) \/ Abort(e) \/ Crash(e)
    \/ Environment

Spec == Init /\ [][Next]_vars

\* The event loop runs every call that can go on, and the container's time
\* limit ends the wait for it; nobody need start a call, and the container may hang.
FairSpec == Spec /\ \A e \in Executor : WF_vars(Step(e))
=============================================================================
