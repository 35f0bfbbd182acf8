----------------------------- MODULE PatchProofs -----------------------------
(***************************************************************************)
(* Proofs about PatchExecutor, for any executors, requests, policies,      *)
(* patches and numbers of files: PatchInv is an inductive invariant, the   *)
(* safety properties of PatchProperties follow from it, and every step is  *)
(* a step of EffectOnce or stutters.                                       *)
(***************************************************************************)
EXTENDS PatchProperties, TLAPS

-----------------------------------------------------------------------------
(* The parts of the state one at a time: which steps touch them.            *)

\* The files, the script and its count are touched by the launch, the script's
\* own steps, an edit and a kill, and by nothing else.
LEMMA ApplierMoves ==
    ASSUME [Next]_vars
    PROVE  \/ UNCHANGED applierVars
           \/ \E e \in Executor : Launch(e) /\ StartScript(Wanted(e))
           \/ ScriptStep \/ Edit \/ KillScript
  BY DEF Next, vars, Step, Environment, Start, Refuse, Reconcile, Adopt, Prepare,
         Authorize, RequestApproval, Issue, Consume, Intend, Claim, Launch, Observe,
         TimeOut, Commit, RecordRollback, Return, Mark, Abort, Crash, applierVars

\* The authorization and its capability are touched by their five transactions,
\* those of a call on behalf of that call's request.
LEMMA GrantMoves ==
    ASSUME [Next]_vars
    PROVE  \/ UNCHANGED capabilityVars
           \/ ExpireCapability
           \/ InvalidatePending
           \/ \E e \in Executor :
                 /\ pc[e] \notin {"idle", "dead"}
                 /\ \/ RecordDenied(asked[e])
                    \/ RequestAuthorization(asked[e])
                    \/ IssueCapability(asked[e], GrantedAs(asked[e]))
                    \/ ConsumeCapability(asked[e])
  BY DEF Next, vars, Step, Environment, Start, Refuse, Reconcile, Adopt, Prepare,
         Authorize, RequestApproval, Issue, Consume, Intend, Claim, Launch, Observe,
         TimeOut, Commit, RecordRollback, Return, Mark, Abort, Crash, capabilityVars

\* The row is touched by the ledger's transactions, each of a call that stands
\* where the code makes it.
LEMMA RowMoves ==
    ASSUME [Next]_vars
    PROVE  \/ UNCHANGED row
           \/ \E e \in Executor :
                 \/ pc[e] = "intending" /\ RecordIntent(Wanted(e))
                 \/ pc[e] = "claiming" /\ ClaimEffect(e)
                 \/ pc[e] = "adopting" /\ SettleEffect(row.owner, "success")
                 \/ pc[e] = "committing" /\ SettleEffect(e, "success")
                 \/ RecordRollback(e) /\ RollBackEffect(e)
                 \/ Mark(e) /\ MarkEffectUnknown(e)
  BY DEF Next, vars, Step, Environment, Start, Refuse, Reconcile, Adopt, Prepare,
         Authorize, RequestApproval, Issue, Consume, Intend, Claim, Launch, Observe,
         TimeOut, Commit, RecordRollback, Return, Mark, Abort, Crash

\* Answers are given by a call that has settled the row, one that found it
\* committed, and one that has to report an unresolved effect.
LEMMA AnswerMoves ==
    ASSUME [Next]_vars
    PROVE  \/ UNCHANGED answers
           \/ answers' = answers \cup {"unresolved"}
           \/ /\ answers' = answers \cup {row.result}
              /\ UNCHANGED row
              /\ \E e \in Executor :
                    \/ pc[e] = "settled"
                    \/ pc[e] = "reconciling" /\ saw[e] = "committed"
  BY DEF Next, vars, Step, Environment, Start, Refuse, Reconcile, Adopt, Prepare,
         Authorize, RequestApproval, Issue, Consume, Intend, Claim, Launch, Observe,
         TimeOut, Commit, RecordRollback, Return, Mark, Abort, Crash, Leave, callVars

\* How a call gets where it is: the ways from one place to the next, with what
\* the step before was about.
LEMMA CallMoves ==
    ASSUME TypeOK, [Next]_vars, NEW e \in Executor
    PROVE  \/ /\ pc'[e] = pc[e] \/ pc'[e] = "dead"
              /\ asked'[e] = asked[e] /\ saw'[e] = saw[e]
           \/ pc'[e] = "idle" /\ saw'[e] = "absent"
           \/ /\ pc[e] = "idle" /\ pc'[e] \in {"refusing", "reconciling", "preparing"}
              /\ asked'[e] \in Request /\ saw'[e] = row.status /\ UNCHANGED row
           \/ /\ pc[e] \notin {"idle", "dead"} /\ asked'[e] = asked[e] /\ saw'[e] = saw[e]
              /\ \/ pc'[e] \in {"authorizing", "requesting", "issuing", "consuming", "refusing"}
                 \/ /\ pc'[e] = "intending"
                    /\ \/ ConsumeCapability(asked[e])
                       \/ /\ capability.status = "consumed" /\ capability.request = asked[e]
                          /\ UNCHANGED capabilityVars
                 \/ pc[e] = "intending" /\ pc'[e] = "claiming"
                 \/ pc[e] = "claiming" /\ pc'[e] = "claimed" /\ ClaimEffect(e)
                 \/ /\ pc[e] = "claimed" /\ pc'[e] = "running"
                    /\ StartScript(Wanted(e)) /\ UNCHANGED row
                 \/ /\ pc[e] = "running" /\ pc'[e] = "committing" /\ script.state = "applied"
                    /\ UNCHANGED <<applierVars, row>>
                 \/ /\ pc[e] = "running" /\ pc'[e] = "recording" /\ script.state = "rolled_back"
                    /\ UNCHANGED <<applierVars, row>>
                 \/ pc[e] = "running" /\ pc'[e] = "unresolved" /\ UNCHANGED row
                 \/ pc[e] \in {"claimed", "running"} /\ pc'[e] = "failing" /\ UNCHANGED row
                 \/ /\ pc[e] = "reconciling" /\ pc'[e] = "adopting" /\ Applied(Wanted(e))
                    /\ UNCHANGED <<applierVars, row>>
                 \/ /\ pc'[e] = "settled"
                    /\ \/ pc[e] = "adopting" /\ SettleEffect(row.owner, "success")
                       \/ pc[e] = "committing" /\ SettleEffect(e, "success")
                       \/ pc[e] = "recording" /\ RollBackEffect(e)
  <1>1. CASE UNCHANGED vars
    BY <1>1 DEF vars, callVars
  <1>2. CASE Environment
    BY <1>2 DEF Environment, callVars
  <1>3. ASSUME NEW d \in Executor, Start(d) \/ Step(d) \/ Abort(d) \/ Crash(d)
        PROVE  \/ d = e
               \/ pc'[e] = pc[e] /\ asked'[e] = asked[e] /\ saw'[e] = saw[e]
    BY <1>3 DEF TypeOK, Step, Start, Refuse, Reconcile, Adopt, Prepare, Authorize,
                RequestApproval, Issue, Consume, Intend, Claim, Launch, Observe,
                TimeOut, Commit, RecordRollback, Return, Mark, Abort, Crash, Leave, Proceed
  <1>4. CASE Start(e)
    BY <1>4 DEF TypeOK, Start
  <1>5. CASE Abort(e) \/ Crash(e)
    BY <1>5 DEF TypeOK, Abort, Crash, Leave, Proceed
  <1>6. CASE \/ Refuse(e) \/ Reconcile(e) \/ Prepare(e) \/ Authorize(e)
             \/ RequestApproval(e) \/ Issue(e) \/ Consume(e)
    BY <1>6 DEF TypeOK, Refuse, Reconcile, Prepare, Authorize, RequestApproval, Issue,
                Consume, Leave, Proceed
  <1>7. CASE Intend(e) \/ Claim(e) \/ Launch(e) \/ Observe(e) \/ TimeOut(e)
    BY <1>7 DEF TypeOK, Intend, Claim, Launch, Observe, TimeOut, Leave, Proceed
  <1>8. CASE Adopt(e) \/ Commit(e) \/ RecordRollback(e) \/ Return(e) \/ Mark(e)
    BY <1>8 DEF TypeOK, Adopt, Commit, RecordRollback, Return, Mark, Leave, Proceed
  <1> QED
    BY <1>1, <1>2, <1>3, <1>4, <1>5, <1>6, <1>7, <1>8 DEF Next, Step

-----------------------------------------------------------------------------
(* Types.                                                                   *)

LEMMA WantedIsPatch ==
    ASSUME TypeOK, CallInv, NEW e \in Executor, pc[e] \notin {"idle", "dead"}
    PROVE  asked[e] \in Request /\ Wanted(e) \in Patch
  BY PatchOfAssumption DEF CallInv, Wanted

LEMMA GrantTypes ==
    ASSUME TypeOK, CallInv, [Next]_vars
    PROVE  authorization' \in Authorization /\ capability' \in Capability
  <1>1. CASE UNCHANGED capabilityVars \/ ExpireCapability \/ InvalidatePending
    BY <1>1 DEF TypeOK, capabilityVars, ExpireCapability, InvalidatePending,
                Authorization, AuthorizationStatus, Capability, CapabilityStatus
  <1>2. ASSUME NEW r \in Request,
               \/ RecordDenied(r)
               \/ RequestAuthorization(r)
               \/ ConsumeCapability(r)
        PROVE  authorization' \in Authorization /\ capability' \in Capability
    BY <1>2 DEF TypeOK, RecordDenied, RequestAuthorization, ConsumeCapability,
                Authorization, AuthorizationStatus, Capability, CapabilityStatus
  <1>3. ASSUME NEW r \in Request, IssueCapability(r, GrantedAs(r))
        PROVE  authorization' \in Authorization /\ capability' \in Capability
    BY <1>3 DEF TypeOK, IssueCapability, GrantedAs,
                Authorization, AuthorizationStatus, Capability, CapabilityStatus
  <1> QED
    BY <1>1, <1>2, <1>3, GrantMoves, WantedIsPatch

\* Where the script goes.
LEMMA GotoMoves ==
    ASSUME script \in Script, NEW state, NEW file, Goto(state, file)
    PROVE  /\ script'.state = state /\ script'.at = file
           /\ script'.patch = script.patch /\ script'.broken = script.broken
           /\ script'.killed = script.killed
           /\ state \in Working \cup Ends /\ file \in 0 .. NumFiles => script' \in Script
  BY DEF Script, Goto

LEMMA ScriptTypes ==
    ASSUME TypeOK, DiskInv, ScriptStep
    PROVE  disk' \in [File -> Content] /\ script' \in Script
           /\ UNCHANGED <<starts, edits>>
  <1>1. script \in Script /\ disk \in [File -> Content] /\ script.at \in 0 .. NumFiles
    BY DEF TypeOK, Script
  <1>2. CASE Stage
    BY <1>1, <1>2, SizeAssumption, GotoMoves DEF Stage, Undo, Working
  <1>3. CASE Check
    BY <1>1, <1>3, SizeAssumption, GotoMoves DEF Check, Undo, Working, At, DiskInv
  <1>4. CASE Replace
    <2>1. disk' \in [File -> Content]
      BY <1>1, <1>4 DEF Replace, At, DiskInv, Content
    <2> QED
      BY <1>1, <1>4, <2>1, SizeAssumption, GotoMoves DEF Replace, Undo, Working, At, DiskInv
  <1>5. CASE Verify
    BY <1>1, <1>5, SizeAssumption, GotoMoves DEF Verify, Undo, Working, Ends, At, DiskInv
  <1>6. CASE Restore
    <2>1. disk' \in [File -> Content]
      BY <1>1, <1>6 DEF Restore, Content
    <2>2. script' \in Script
      <3>1. CASE Goto("undoing", script.at - 1)
        BY <1>1, <1>6, <3>1, SizeAssumption, GotoMoves DEF Restore, Working
      <3>2. CASE script' = [script EXCEPT !.at = script.at - 1, !.broken = TRUE]
        <4>1. script.at - 1 \in 0 .. NumFiles
          BY <1>1, <1>6, SizeAssumption DEF Restore
        <4> QED
          BY <1>1, <3>2, <4>1 DEF Script
      <3> QED
        BY <1>6, <3>1, <3>2 DEF Restore
    <2> QED
      BY <1>6, <2>1, <2>2 DEF Restore
  <1>7. CASE Restored
    BY <1>1, <1>7, SizeAssumption, GotoMoves DEF Restored, Ends
  <1> QED
    BY <1>2, <1>3, <1>4, <1>5, <1>6, <1>7 DEF ScriptStep

LEMMA ApplierTypes ==
    ASSUME TypeOK, CallInv, DiskInv, [Next]_vars
    PROVE  /\ disk' \in [File -> Content] /\ script' \in Script
           /\ starts' \in Nat /\ edits' \in 0 .. MaxEdits
  <1>1. CASE UNCHANGED applierVars
    BY <1>1 DEF TypeOK, applierVars
  <1>2. ASSUME NEW e \in Executor, Launch(e), StartScript(Wanted(e))
        PROVE  /\ disk' \in [File -> Content] /\ script' \in Script
               /\ starts' \in Nat /\ edits' \in 0 .. MaxEdits
    <2>1. Wanted(e) \in Patch
      BY <1>2, WantedIsPatch DEF Launch
    <2> QED
      BY <1>2, <2>1, SizeAssumption DEF TypeOK, StartScript, NewScript, Script, Working
  <1>3. CASE ScriptStep
    BY <1>3, ScriptTypes DEF TypeOK
  <1>4. CASE Edit
    BY <1>4, SizeAssumption DEF TypeOK, Edit, Content
  <1>5. CASE KillScript
    BY <1>5 DEF TypeOK, KillScript, Script, Live
  <1> QED
    BY <1>1, <1>2, <1>3, <1>4, <1>5, ApplierMoves

LEMMA RowTypes ==
    ASSUME TypeOK, CallInv, [Next]_vars
    PROVE  row' \in Row
  <1>1. CASE UNCHANGED row
    BY <1>1 DEF TypeOK
  <1>2. ASSUME NEW e \in Executor, pc[e] = "intending", RecordIntent(Wanted(e))
        PROVE  row' \in Row
    <2>1. Wanted(e) \in Patch
      BY <1>2, WantedIsPatch
    <2> QED
      BY <1>2, <2>1 DEF TypeOK, Row, EffectStatus, RecordIntent
  <1>3. ASSUME NEW e \in Executor \cup {NoOne},
               \/ e \in Executor /\ ClaimEffect(e)
               \/ SettleEffect(e, "success")
               \/ RollBackEffect(e)
               \/ MarkEffectUnknown(e)
        PROVE  row' \in Row
    BY <1>3 DEF TypeOK, Row, EffectStatus, Result, ClaimEffect, SettleEffect,
                RollBackEffect, MarkEffectUnknown
  <1>4. row.owner \in Executor \cup {NoOne}
    BY DEF TypeOK, Row
  <1> QED
    BY <1>1, <1>2, <1>3, <1>4, RowMoves

LEMMA CallTypes ==
    ASSUME TypeOK, CallInv, [Next]_vars
    PROVE  /\ pc' \in [Executor -> PC]
           /\ asked' \in [Executor -> Request \cup {NoRequest}]
           /\ saw' \in [Executor -> EffectStatus]
  <1>1. ASSUME NEW e \in Executor, NEW step \in PC, Proceed(e, step)
        PROVE  /\ pc' \in [Executor -> PC]
               /\ asked' \in [Executor -> Request \cup {NoRequest}]
               /\ saw' \in [Executor -> EffectStatus]
    BY <1>1 DEF TypeOK, Proceed
  <1>2. ASSUME NEW e \in Executor, NEW results, Leave(e, results)
        PROVE  /\ pc' \in [Executor -> PC]
               /\ asked' \in [Executor -> Request \cup {NoRequest}]
               /\ saw' \in [Executor -> EffectStatus]
    BY <1>2 DEF TypeOK, Leave, PC, EffectStatus
  <1>3. ASSUME NEW e \in Executor, Start(e)
        PROVE  /\ pc' \in [Executor -> PC]
               /\ asked' \in [Executor -> Request \cup {NoRequest}]
               /\ saw' \in [Executor -> EffectStatus]
    BY <1>3 DEF TypeOK, Start, PC, Row
  <1>4. ASSUME NEW e \in Executor, Step(e) \/ Abort(e) \/ Crash(e)
        PROVE  \/ \E step \in PC : Proceed(e, step)
               \/ \E results : Leave(e, results)
    BY <1>4 DEF Step, Refuse, Reconcile, Adopt, Prepare, Authorize, RequestApproval,
                Issue, Consume, Intend, Claim, Launch, Observe, TimeOut, Commit,
                RecordRollback, Return, Mark, Abort, Crash, PC
  <1>5. CASE UNCHANGED vars \/ Environment
    BY <1>5 DEF TypeOK, vars, callVars, Environment
  <1> QED
    BY <1>1, <1>2, <1>3, <1>4, <1>5 DEF Next

LEMMA TypesKept ==
    ASSUME PatchInv, [Next]_vars
    PROVE  TypeOK'
  <1>1. answers' \subseteq Result \cup {"unresolved"}
    BY AnswerMoves DEF PatchInv, TypeOK, CallInv, RecordInv, Row, Result
  <1> QED
    BY <1>1, GrantTypes, ApplierTypes, RowTypes, CallTypes DEF PatchInv, TypeOK

-----------------------------------------------------------------------------
(* The parts of the invariant.                                              *)

\* A settled row stays as it is.
LEMMA SettledStays ==
    ASSUME PatchInv, [Next]_vars, row.status \in Settled
    PROVE  UNCHANGED row
  BY RowMoves DEF Settled, PatchInv, ClaimInv, RecordIntent, ClaimEffect, CanClaim, SettleEffect,
     CanSettle, RollBackEffect, MarkEffectUnknown, CanMarkUnknown

LEMMA CallKept ==
    ASSUME PatchInv, [Next]_vars
    PROVE  CallInv'
  <1> SUFFICES ASSUME NEW e \in Executor
               PROVE  /\ pc'[e] \notin {"idle", "dead"} => asked'[e] \in Request
                      /\ saw'[e] = "committed" => row'.status = "committed"
    BY DEF CallInv
  <1>1. pc'[e] \notin {"idle", "dead"} => asked'[e] \in Request
    BY CallMoves DEF PatchInv, CallInv
  <1>2. row.status = "committed" => row'.status = "committed"
    BY SettledStays DEF Settled
  <1>3. saw'[e] = "committed" => row'.status = "committed"
    BY <1>2, CallMoves DEF PatchInv, CallInv
  <1> QED
    BY <1>1, <1>3

LEMMA GrantKept ==
    ASSUME PatchInv, [Next]_vars
    PROVE  GrantInv'
  <1>1. /\ authorization'.status # Absent => authorization'.request \in Request
        /\ capability'.status # Absent =>
              /\ authorization'.status \in Granting
              /\ capability'.request = authorization'.request
    <2>1. CASE UNCHANGED capabilityVars \/ ExpireCapability \/ InvalidatePending
      BY <2>1 DEF PatchInv, TypeOK, GrantInv, Granting, capabilityVars, ExpireCapability,
                  InvalidatePending, Authorization, Capability, Absent
    <2>2. ASSUME NEW r \in Request,
                 \/ RecordDenied(r)
                 \/ RequestAuthorization(r)
                 \/ IssueCapability(r, GrantedAs(r))
                 \/ ConsumeCapability(r)
          PROVE  /\ authorization'.status # Absent => authorization'.request \in Request
                 /\ capability'.status # Absent =>
                       /\ authorization'.status \in Granting
                       /\ capability'.request = authorization'.request
      BY <2>2 DEF PatchInv, TypeOK, GrantInv, Granting, RecordDenied, CanDeny,
                  RequestAuthorization, CanRequest, IssueCapability, CanIssue, CanGrant,
                  GrantedAs, ConsumeCapability, CanConsume, Authorization, Capability, Absent
    <2> QED
      BY <2>1, <2>2, GrantMoves, WantedIsPatch DEF PatchInv
  <1>2. capability.status = "consumed" => UNCHANGED capability
    BY GrantMoves DEF PatchInv, TypeOK, Capability, capabilityVars, ExpireCapability,
       InvalidatePending, RecordDenied, RequestAuthorization, IssueCapability, CanIssue,
       ConsumeCapability, CanConsume, Absent
  <1>3. row'.status # "absent" =>
          /\ capability'.status = "consumed"
          /\ row'.digest = PatchOf[capability'.request]
    <2>1. CASE row'.digest = row.digest /\ row.status # "absent"
      BY <1>2, <2>1 DEF PatchInv, GrantInv
    <2>2. ASSUME NEW e \in Executor, pc[e] = "intending", RecordIntent(Wanted(e))
          PROVE  /\ capability'.status = "consumed"
                 /\ row'.digest = PatchOf[capability'.request]
      BY <1>2, <2>2 DEF PatchInv, TypeOK, Row, GrantInv, Entitled, RecordIntent, Wanted
    <2>3. CASE UNCHANGED row
      BY <2>1, <2>3
    <2>4. ASSUME NEW e,
                 \/ ClaimEffect(e)
                 \/ SettleEffect(e, "success")
                 \/ RollBackEffect(e)
                 \/ MarkEffectUnknown(e)
          PROVE  row'.digest = row.digest /\ row.status # "absent"
      BY <2>4 DEF PatchInv, TypeOK, Row, ClaimEffect, CanClaim, SettleEffect, CanSettle,
                  RollBackEffect, MarkEffectUnknown, CanMarkUnknown
    <2> QED
      BY <2>1, <2>2, <2>3, <2>4, RowMoves
  <1>4. ASSUME NEW e \in Executor, pc'[e] \in Entitled
        PROVE  /\ capability'.status = "consumed"
               /\ capability'.request = asked'[e]
    <2>1. CASE pc[e] \in Entitled /\ asked'[e] = asked[e]
      BY <1>2, <2>1 DEF PatchInv, GrantInv
    <2>2. CASE ConsumeCapability(asked[e]) /\ asked'[e] = asked[e]
      BY <2>2 DEF PatchInv, TypeOK, Capability, ConsumeCapability, CanConsume
    <2>3. CASE /\ capability.status = "consumed" /\ capability.request = asked[e]
               /\ UNCHANGED capabilityVars /\ asked'[e] = asked[e]
      BY <2>3 DEF capabilityVars
    <2> QED
      BY <1>4, <2>1, <2>2, <2>3, CallMoves DEF PatchInv, Entitled
  <1> QED
    BY <1>1, <1>3, <1>4 DEF GrantInv

\* A container is started only for the claim, which is on the row, and for the
\* patch the row names.
LEMMA LaunchMoves ==
    ASSUME PatchInv, NEW e \in Executor, Launch(e), StartScript(Wanted(e))
    PROVE  /\ starts = 0 /\ starts' = 1 /\ row.status = "executing" /\ row.owner = e
           /\ script'.state = "staging" /\ script'.patch = row.digest /\ row.digest \in Patch
           /\ ~script'.broken /\ UNCHANGED <<row, disk, edits, answers>>
  <1>1. starts = 0 /\ row.status = "executing" /\ row.owner = e
    BY DEF PatchInv, ClaimInv, Launch
  <1>2. Wanted(e) = row.digest
    BY <1>1 DEF PatchInv, GrantInv, Entitled, Launch, Wanted
  <1>3. Wanted(e) \in Patch
    BY WantedIsPatch DEF PatchInv, Launch
  <1> QED
    BY <1>1, <1>2, <1>3 DEF StartScript, NewScript, Launch

\* The script's own steps, an edit or a kill leave the count, the patch and an
\* end that was reached.
LEMMA ScriptMoves ==
    ASSUME TypeOK, ScriptStep \/ Edit \/ KillScript
    PROVE  /\ UNCHANGED starts
           /\ script'.patch = script.patch
           /\ script.state = "none" <=> script'.state = "none"
           /\ script.state \in Ends => script'.state = script.state
  <1>1. script \in Script
    BY DEF TypeOK
  <1>2. CASE Edit \/ KillScript
    BY <1>1, <1>2 DEF Edit, KillScript, Script
  <1>3. CASE Stage \/ Check \/ Replace \/ Verify \/ Restored
    BY <1>1, <1>3, GotoMoves DEF Stage, Check, Replace, Verify, Restored, Undo, At, Ends
  <1>4. CASE Restore
    <2>1. CASE Goto("undoing", script.at - 1)
      BY <1>1, <1>4, <2>1, GotoMoves DEF Restore, At, Ends
    <2>2. CASE script' = [script EXCEPT !.at = script.at - 1, !.broken = TRUE]
      BY <1>1, <1>4, <2>2 DEF Restore, At, Ends, Script
    <2> QED
      BY <1>4, <2>1, <2>2 DEF Restore
  <1> QED
    BY <1>2, <1>3, <1>4 DEF ScriptStep

\* A file that holds a patch was written by the one script.
LEMMA AppliedMeansStarted ==
    ASSUME PatchInv, NEW p \in Patch, Applied(p)
    PROVE  starts = 1 /\ row.digest = p /\ script.patch = p
  <1>1. 1 \in File
    BY SizeAssumption DEF File
  <1>2. disk[1] = script.patch /\ Reached(1)
    BY <1>1 DEF PatchInv, DiskInv, Applied
  <1>3. script.state # "none"
    BY <1>2 DEF Reached
  <1> QED
    BY <1>1, <1>2, <1>3 DEF PatchInv, ClaimInv, Applied

\* Whoever marks the row or records the rollback leaves that place with it.
LEMMA OwnMark ==
    ASSUME TypeOK, NEW e \in Executor, RecordRollback(e) \/ Mark(e)
    PROVE  /\ pc'[e] # pc[e]
           /\ RecordRollback(e) => pc[e] = "recording"
           /\ Mark(e) => pc[e] \in {"unresolved", "failing"}
  BY DEF TypeOK, RecordRollback, Mark, Proceed, Leave

\* The row while somebody is past the claim.
LEMMA RowSteps ==
    ASSUME PatchInv, [Next]_vars
    PROVE  \/ UNCHANGED row
           \/ /\ row.status = "absent" /\ row'.status = "intent_recorded"
           \/ /\ row.status = "intent_recorded"
              /\ \E e \in Executor : /\ row' = [row EXCEPT !.status = "executing", !.owner = e]
                                    /\ pc[e] = "claiming"
           \/ /\ row.status = "executing" /\ row'.owner = row.owner /\ row'.digest = row.digest
              /\ \/ /\ row'.status = "committed" /\ row'.result = "success" /\ starts = 1
                    /\ \E e \in Executor : pc[e] \in {"adopting", "committing"}
                 \/ /\ row'.status = "rolled_back" /\ row'.result = "failure" /\ starts = 1
                    /\ script.state = "rolled_back" /\ pc[row.owner] = "recording"
                    /\ pc'[row.owner] # pc[row.owner]
                 \/ /\ row'.status = "unknown" /\ pc[row.owner] \in {"unresolved", "failing"}
                    /\ pc'[row.owner] # pc[row.owner]
  <1>1. TypeOK /\ ClaimInv /\ row \in Row
    BY DEF PatchInv, TypeOK
  <1>2. ASSUME NEW e \in Executor, RecordRollback(e), RollBackEffect(e)
        PROVE  /\ row.status = "executing" /\ row'.owner = row.owner /\ row'.digest = row.digest
               /\ row'.status = "rolled_back" /\ row'.result = "failure" /\ starts = 1
               /\ script.state = "rolled_back" /\ pc[row.owner] = "recording"
               /\ pc'[row.owner] # pc[row.owner]
    BY <1>1, <1>2, OwnMark DEF Row, ClaimInv, RollBackEffect, CanSettle
  <1>3. ASSUME NEW e \in Executor, Mark(e), MarkEffectUnknown(e)
        PROVE  /\ row.status = "executing" /\ row'.owner = row.owner /\ row'.digest = row.digest
               /\ row'.status = "unknown" /\ pc[row.owner] \in {"unresolved", "failing"}
               /\ pc'[row.owner] # pc[row.owner]
    BY <1>1, <1>3, OwnMark DEF Row, MarkEffectUnknown, CanMarkUnknown
  <1>4. ASSUME NEW e \in Executor,
               \/ pc[e] = "adopting" /\ SettleEffect(row.owner, "success")
               \/ pc[e] = "committing" /\ SettleEffect(e, "success")
        PROVE  /\ row.status = "executing" /\ row'.owner = row.owner /\ row'.digest = row.digest
               /\ row'.status = "committed" /\ row'.result = "success" /\ starts = 1
               /\ pc[e] \in {"adopting", "committing"}
    BY <1>1, <1>4 DEF Row, ClaimInv, SettleEffect, CanSettle
  <1>5. ASSUME NEW e \in Executor, pc[e] = "claiming", ClaimEffect(e)
        PROVE  /\ row.status = "intent_recorded"
               /\ row' = [row EXCEPT !.status = "executing", !.owner = e]
    BY <1>5 DEF ClaimEffect, CanClaim
  <1>6. ASSUME NEW e \in Executor, RecordIntent(Wanted(e))
        PROVE  row.status = "absent" /\ row'.status = "intent_recorded"
    BY <1>1, <1>6 DEF Row, RecordIntent
  <1> QED
    BY <1>2, <1>3, <1>4, <1>5, <1>6, RowMoves

\* The three things that can happen to the script.
LEMMA ScriptSplit ==
    ASSUME PatchInv, [Next]_vars
    PROVE  \/ UNCHANGED applierVars
           \/ /\ starts = 0 /\ starts' = 1 /\ row.status = "executing"
              /\ pc[row.owner] = "claimed" /\ row.owner \in Executor
              /\ script'.state = "staging" /\ script'.patch = row.digest /\ row.digest \in Patch
              /\ ~script'.broken /\ UNCHANGED <<row, disk, edits, answers>>
           \/ /\ ScriptStep \/ Edit \/ KillScript
              /\ UNCHANGED starts
              /\ script'.patch = script.patch
              /\ script.state = "none" <=> script'.state = "none"
              /\ script.state \in Ends => script'.state = script.state
  BY ApplierMoves, LaunchMoves, ScriptMoves DEF PatchInv, Launch

LEMMA ClaimKept ==
    ASSUME PatchInv, [Next]_vars
    PROVE  ClaimInv'
  <1>1. /\ starts' \in {0, 1}
        /\ row'.status \in {"absent", "intent_recorded"} => starts' = 0
        /\ starts' = 0 => script'.state = "none"
    BY ScriptSplit, RowSteps DEF PatchInv, ClaimInv, applierVars
  <1>2. starts' = 1 => script'.state # "none" /\ script'.patch = row'.digest
    <2>1. row.status \notin {"absent", "intent_recorded"} => row'.digest = row.digest
      BY RowSteps
    <2> QED
      BY <2>1, ScriptSplit DEF PatchInv, ClaimInv, applierVars
  <1> SUFFICES ASSUME NEW e \in Executor
               PROVE  /\ pc'[e] = "claimed" =>
                           starts' = 0 /\ row'.status = "executing" /\ row'.owner = e
                      /\ pc'[e] \in {"running", "committing", "recording", "unresolved", "failing"} =>
                           row'.status \in {"executing", "committed"} /\ row'.owner = e
                      /\ pc'[e] \in {"running", "committing", "recording", "unresolved", "adopting"} =>
                           starts' = 1
                      /\ pc'[e] = "committing" => script'.state = "applied"
                      /\ pc'[e] = "recording" => script'.state = "rolled_back"
    BY <1>1, <1>2 DEF ClaimInv
  <1>3. ASSUME pc'[e] = "claimed"
        PROVE  starts' = 0 /\ row'.status = "executing" /\ row'.owner = e
    <2>1. CASE pc[e] = "claiming" /\ ClaimEffect(e)
      <3>1. starts = 0 /\ row'.status = "executing" /\ row'.owner = e /\ row' # row
        BY <2>1 DEF PatchInv, TypeOK, Row, ClaimInv, ClaimEffect, CanClaim
      <3>2. starts' = 0
        BY <3>1, ScriptSplit DEF applierVars
      <3> QED
        BY <1>3, <3>1, <3>2
    <2>2. CASE pc[e] = "claimed"
      <3>1. starts = 0 /\ row.status = "executing" /\ row.owner = e
        BY <2>2 DEF PatchInv, ClaimInv
      <3>2. UNCHANGED row
        BY <2>2, <3>1, RowSteps DEF PatchInv, ClaimInv
      <3>3. starts' = 0
        <4>1. ASSUME NEW d \in Executor, Launch(d)
              PROVE  d = e /\ pc'[e] # "claimed"
          BY <3>1, <4>1 DEF PatchInv, ClaimInv, TypeOK, Launch, Proceed
        <4> QED
          BY <1>3, <3>1, <4>1, ApplierMoves, ScriptMoves DEF PatchInv, applierVars
      <3> QED
        BY <1>3, <3>1, <3>2, <3>3
    <2> QED
      BY <1>3, <2>1, <2>2, CallMoves DEF PatchInv
  <1>4. ASSUME pc'[e] \in {"running", "committing", "recording", "unresolved", "failing"}
        PROVE  row'.status \in {"executing", "committed"} /\ row'.owner = e
    <2>1. row.status \in {"executing", "committed"} /\ row.owner = e
          /\ pc[e] \in {"claimed", "running", "committing", "recording", "unresolved", "failing"}
      BY <1>4, CallMoves DEF PatchInv, ClaimInv
    <2>2. pc'[e] # pc[e] => UNCHANGED row
      BY <1>4, CallMoves DEF PatchInv
    <2>3. pc'[e] = pc[e] => row'.status \in {"executing", "committed"} /\ row'.owner = e
      BY <2>1, RowSteps
    <2> QED
      BY <1>4, <2>1, <2>2, <2>3
  <1>5. pc'[e] \in {"running", "committing", "recording", "unresolved", "adopting"} => starts' = 1
    <2>1. starts = 1 => starts' = 1
      BY ScriptSplit DEF applierVars
    <2>2. Applied(Wanted(e)) /\ pc[e] = "reconciling" => starts = 1
      BY AppliedMeansStarted, WantedIsPatch DEF PatchInv
    <2>3. pc[e] = "claimed" /\ StartScript(Wanted(e)) => starts' = 1
      BY DEF PatchInv, ClaimInv, StartScript
    <2> QED
      BY <2>1, <2>2, <2>3, CallMoves DEF PatchInv, ClaimInv
  <1>6. /\ pc'[e] = "committing" => script'.state = "applied"
        /\ pc'[e] = "recording" => script'.state = "rolled_back"
    <2>1. script.state \in Ends => script'.state = script.state
      BY ScriptSplit DEF applierVars, Ends, PatchInv, ClaimInv
    <2> QED
      BY <2>1, CallMoves DEF PatchInv, ClaimInv, Ends
  <1> QED
    BY <1>3, <1>4, <1>5, <1>6

\* The files and the script's place in them: one step of the script, an edit or
\* a kill.
LEMMA DiskKept ==
    ASSUME PatchInv, [Next]_vars
    PROVE  DiskInv'
  <1> USE SizeAssumption, ContentAssumption DEF File, Base, Edited
  <1>1. script \in Script /\ disk \in [File -> Content] /\ edits \in Nat
        /\ script.at \in 0 .. NumFiles /\ DiskInv
    BY DEF PatchInv, TypeOK, Script
  <1>2. CASE UNCHANGED applierVars
    BY <1>1, <1>2 DEF applierVars, DiskInv, Reached
  <1>3. ASSUME starts = 0, script'.state = "staging", script'.patch \in Patch,
               UNCHANGED disk
        PROVE  DiskInv'
    BY <1>1, <1>3 DEF PatchInv, ClaimInv, DiskInv, Reached
  <1>4. CASE KillScript
    BY <1>1, <1>4 DEF KillScript, Script, DiskInv, Reached
  <1>5. CASE Edit
    BY <1>1, <1>5 DEF Edit, DiskInv, Reached
  <1>6. CASE Stage
    BY <1>1, <1>6, GotoMoves DEF Stage, Undo, At, OnBaseline, DiskInv, Reached
  <1>7. CASE Check
    BY <1>1, <1>7, GotoMoves DEF Check, Undo, At, DiskInv, Reached
  <1>8. CASE Replace
    BY <1>1, <1>8, GotoMoves DEF Replace, Undo, At, DiskInv, Reached
  <1>9. CASE Verify
    BY <1>1, <1>9, GotoMoves DEF Verify, Undo, At, DiskInv, Reached
  <1>10. CASE Restore
    <2>1. /\ script.state = "undoing" /\ script'.state = "undoing"
          /\ script'.at = script.at - 1 /\ script'.patch = script.patch /\ edits' = edits
          /\ \/ disk' = [disk EXCEPT ![script.at] = Base] /\ script'.broken = script.broken
             \/ disk' = disk /\ script'.broken
      <3>1. CASE Goto("undoing", script.at - 1) /\ disk' = [disk EXCEPT ![script.at] = Base]
        BY <1>1, <1>10, <3>1, GotoMoves DEF Restore, At
      <3>2. CASE script' = [script EXCEPT !.at = script.at - 1, !.broken = TRUE]
                 /\ UNCHANGED disk
        BY <1>1, <1>10, <3>2 DEF Restore, At, Script
      <3> QED
        BY <1>10, <3>1, <3>2 DEF Restore
    <2>2. ASSUME NEW f \in File, disk'[f] \in Patch
          PROVE  disk'[f] = script'.patch /\ (f <= script.at - 1 \/ script'.broken)
      <3>1. disk'[f] = disk[f]
        BY <1>1, <2>1, <2>2
      <3>2. disk[f] = script.patch /\ (f <= script.at \/ script.broken)
        BY <1>1, <2>1, <2>2, <3>1 DEF DiskInv, Reached
      <3> QED
        BY <1>1, <2>1, <2>2, <3>1, <3>2
    <2> QED
      BY <1>1, <2>1, <2>2 DEF DiskInv, Reached
  <1>11. CASE Restored
    BY <1>1, <1>11, GotoMoves DEF Restored, At, DiskInv, Reached
  <1> QED
    BY <1>2, <1>3, <1>4, <1>5, <1>6, <1>7, <1>8, <1>9, <1>10, <1>11, ScriptSplit
       DEF ScriptStep

\* A patch that is in place stays, except that the script may turn to undoing
\* it: its own file would have to be replaced once more, or put back.
LEMMA InPlaceKept ==
    ASSUME PatchInv, [Next]_vars, InPlace, edits' = 0, starts = 1
    PROVE  InPlace'
  <1>1. script \in Script /\ disk \in [File -> Content] /\ edits \in Nat
        /\ script.at \in 0 .. NumFiles /\ row.digest = script.patch /\ DiskInv
    BY DEF PatchInv, TypeOK, Script, ClaimInv
  <1>2. row'.digest = row.digest
    BY RowSteps DEF PatchInv, ClaimInv
  <1>3. CASE UNCHANGED disk /\ script'.state = script.state
    BY <1>2, <1>3 DEF InPlace, Applied
  <1>4. CASE script'.state \in {"undoing", "rolled_back", "rollback_failed"}
    BY <1>4 DEF InPlace
  <1>5. CASE Stage \/ Check \/ Verify
    BY <1>1, <1>2, <1>5, <1>4, GotoMoves DEF Stage, Check, Verify, Undo, At, InPlace, Applied
  <1>6. CASE Replace
    <2>1. CASE script'.state = "undoing"
      BY <1>4, <2>1
    <2>2. CASE disk' = [disk EXCEPT ![script.at] = script.patch]
      BY <1>1, <1>2, <1>6, <2>2 DEF Replace, At, InPlace, Applied
    <2> QED
      BY <1>1, <1>6, <2>1, <2>2, GotoMoves DEF Replace, Undo
  <1>7. CASE Restore
    <2>1. script'.state = "undoing"
      <3>1. CASE Goto("undoing", script.at - 1)
        BY <1>1, <3>1, GotoMoves
      <3>2. CASE script' = [script EXCEPT !.at = script.at - 1, !.broken = TRUE]
        BY <1>1, <1>7, <3>2 DEF Restore, At, Script
      <3> QED
        BY <1>7, <3>1, <3>2 DEF Restore
    <2> QED
      BY <1>4, <2>1
  <1>8. CASE Restored
    BY <1>1, <1>4, <1>8, GotoMoves DEF Restored
  <1>9. CASE KillScript
    BY <1>1, <1>3, <1>9 DEF KillScript, Script
  <1>10. CASE Edit
    BY <1>1, <1>10 DEF Edit
  <1> QED
    BY <1>3, <1>5, <1>6, <1>7, <1>8, <1>9, <1>10, ScriptSplit DEF ScriptStep, applierVars

LEMMA CommitKept ==
    ASSUME PatchInv, [Next]_vars
    PROVE  CommitInv'
  <1> SUFFICES ASSUME edits' = 0
               PROVE  /\ row'.status = "committed" => InPlace'
                      /\ \A e \in Executor : pc'[e] = "adopting" => InPlace'
    BY DEF CommitInv
  <1>1. edits = 0
    BY ApplierMoves, ScriptTypes DEF PatchInv, TypeOK, applierVars, StartScript, Edit, KillScript
  <1>2. row'.status = "committed" => InPlace'
    <2>1. CASE row.status = "committed"
      BY <1>1, <2>1, InPlaceKept DEF PatchInv, CommitInv, RecordInv
    <2>2. ASSUME row.status # "committed", row'.status = "committed"
          PROVE  InPlace /\ starts = 1
      <3>1. PICK e \in Executor : starts = 1 /\ pc[e] \in {"adopting", "committing"}
        BY <2>2, RowSteps DEF PatchInv, TypeOK, Row
      <3>2. CASE pc[e] = "adopting"
        BY <1>1, <3>1, <3>2 DEF PatchInv, CommitInv
      <3>3. CASE pc[e] = "committing"
        BY <1>1, <3>1, <3>3 DEF PatchInv, ClaimInv, DiskInv, Reached, InPlace, Applied
      <3> QED
        BY <3>1, <3>2, <3>3
    <2> QED
      BY <2>1, <2>2, InPlaceKept
  <1>3. ASSUME NEW e \in Executor, pc'[e] = "adopting"
        PROVE  InPlace'
    <2>1. CASE pc[e] = "adopting"
      BY <1>1, <2>1, InPlaceKept DEF PatchInv, CommitInv, ClaimInv
    <2>2. CASE pc[e] = "reconciling" /\ Applied(Wanted(e))
      <3>1. starts = 1 /\ row.digest = Wanted(e)
        BY <2>2, AppliedMeansStarted, WantedIsPatch DEF PatchInv
      <3> QED
        BY <2>2, <3>1, InPlaceKept DEF InPlace
    <2> QED
      BY <1>3, <2>1, <2>2, CallMoves DEF PatchInv
  <1> QED
    BY <1>2, <1>3

LEMMA RecordKept ==
    ASSUME PatchInv, [Next]_vars
    PROVE  RecordInv'
  <1>1. starts = 1 => starts' = 1
    BY ScriptSplit DEF applierVars
  <1>2. script.state = "rolled_back" => script'.state = "rolled_back"
    BY ScriptSplit DEF applierVars, Ends, PatchInv, ClaimInv
  <1>3. /\ row'.status = "committed" => row'.result = "success" /\ starts' = 1
        /\ row'.status = "rolled_back" =>
              row'.result = "failure" /\ starts' = 1 /\ script'.state = "rolled_back"
        /\ row'.status # "failed"
    BY <1>1, <1>2, RowSteps DEF PatchInv, TypeOK, Row, RecordInv
  <1>4. row.status \in {"committed", "rolled_back"} => UNCHANGED row
    BY SettledStays DEF Settled
  <1>5. ASSUME NEW e \in Executor, pc'[e] = "settled"
        PROVE  row'.status \in {"committed", "rolled_back"}
    BY <1>4, <1>5, CallMoves DEF PatchInv, RecordInv, TypeOK, Row, SettleEffect, RollBackEffect
  <1>6. ASSUME NEW r \in answers' \cap Result
        PROVE  row'.status \in {"committed", "rolled_back"} /\ row'.result = r
    BY <1>4, AnswerMoves DEF PatchInv, RecordInv, CallInv, Result
  <1> QED
    BY <1>3, <1>5, <1>6 DEF RecordInv

-----------------------------------------------------------------------------
(* What the project's runs check on small instances.                        *)

\* Grant, claim, container, files and record fit together in every reachable
\* state.
THEOREM PatchInvariant == Spec => []PatchInv
  <1>1. Init => PatchInv
    <2> SUFFICES ASSUME Init
                 PROVE  PatchInv
      OBVIOUS
    <2>1. TypeOK
      BY SizeAssumption DEF Init, CapabilitiesInit, ApplierInit, LedgerInit, TypeOK,
         Authorization, Capability, Content, Script, Row, PC, EffectStatus
    <2>2. CallInv /\ GrantInv /\ RecordInv
      BY DEF Init, CapabilitiesInit, LedgerInit, CallInv, GrantInv, Entitled, RecordInv, Absent
    <2>3. ClaimInv
      BY DEF Init, ApplierInit, LedgerInit, ClaimInv
    <2>4. DiskInv /\ CommitInv
      BY ContentAssumption DEF Init, ApplierInit, LedgerInit, DiskInv, CommitInv
    <2> QED
      BY <2>1, <2>2, <2>3, <2>4 DEF PatchInv
  <1>2. PatchInv /\ [Next]_vars => PatchInv'
    BY TypesKept, CallKept, GrantKept, ClaimKept, DiskKept, CommitKept, RecordKept DEF PatchInv
  <1> QED
    BY <1>1, <1>2, PTL DEF Spec

\* No container without the grant, the capability and the intent for its patch.
THEOREM OnlyGrantedPatchRunsHolds == Spec => []OnlyGrantedPatchRuns
  <1>1. PatchInv => OnlyGrantedPatchRuns
    BY DEF PatchInv, TypeOK, Row, Capability, CapabilityStatus, GrantInv, ClaimInv,
           OnlyGrantedPatchRuns, Absent
  <1> QED
    BY <1>1, PatchInvariant, PTL

\* A file that holds the patch is on record.
THEOREM ChangeIsOnRecordHolds == Spec => []ChangeIsOnRecord
  <1>1. PatchInv => ChangeIsOnRecord
    BY DEF PatchInv, TypeOK, Row, EffectStatus, ClaimInv, DiskInv, Reached, RecordInv,
           ChangeIsOnRecord
  <1> QED
    BY <1>1, PatchInvariant, PTL

\* What is committed is in place, or was undone after it had been seen.
THEOREM CommittedIsAppliedHolds == Spec => []CommittedIsApplied
  <1>1. PatchInv => CommittedIsApplied
    BY DEF PatchInv, CommitInv, InPlace, CommittedIsApplied
  <1> QED
    BY <1>1, PatchInvariant, PTL

\* Nothing turns a decision of the policy or the user.
THEOREM DecisionStandsHolds == Spec => DecisionStands
  <1>1. ASSUME PatchInv, [Next]_vars, authorization.status \in AuthorizationStatus \ {"pending"}
        PROVE  authorization' = authorization
    BY <1>1, GrantMoves DEF PatchInv, TypeOK, Authorization, AuthorizationStatus, Absent,
       capabilityVars, ExpireCapability, InvalidatePending, RecordDenied, CanDeny,
       RequestAuthorization, IssueCapability, CanIssue, CanGrant, GrantedAs, ConsumeCapability
  <1> QED
    BY <1>1, PatchInvariant, PTL DEF Spec, DecisionStands

\* A row that changes is claimed, settled or lost for the abstract effect.
LEMMA RowSimulates ==
    ASSUME PatchInv, [Next]_vars, row' # row
    PROVE  [Abstract!Next]_(Abstract!vars)
  <1>1. UNCHANGED starts
    BY RowSteps, ScriptSplit DEF applierVars
  <1>2. UNCHANGED (answers \ {"unresolved"})
    BY AnswerMoves
  <1>3. CASE row.status = "absent" /\ row'.status = "intent_recorded"
    BY <1>1, <1>2, <1>3 DEF Abstract!vars
  <1>4. CASE row.status = "intent_recorded" /\ row'.status = "executing"
    BY <1>1, <1>2, <1>4 DEF Abstract!Next, Abstract!Claim
  <1>5. CASE row.status = "executing" /\ row'.status \in {"committed", "rolled_back"} /\ starts = 1
    BY <1>1, <1>2, <1>5 DEF Abstract!Next, Abstract!Settle
  <1>6. CASE row.status = "executing" /\ row'.status = "unknown"
    BY <1>1, <1>2, <1>6 DEF Abstract!Next, Abstract!Lose
  <1> QED
    BY <1>3, <1>4, <1>5, <1>6, RowSteps DEF PatchInv, TypeOK, Row

\* A container that starts performs the effect.
LEMMA LaunchSimulates ==
    ASSUME PatchInv, [Next]_vars, starts' # starts
    PROVE  [Abstract!Next]_(Abstract!vars)
  <1>1. starts = 0 /\ starts' = 1 /\ row.status = "executing" /\ UNCHANGED <<row, answers>>
    BY ScriptSplit DEF applierVars
  <1> QED
    BY <1>1 DEF Abstract!Next, Abstract!Perform

\* An answer is the reply with what is on record.
LEMMA AnswerSimulates ==
    ASSUME PatchInv, [Next]_vars, row' = row, starts' = starts
    PROVE  [Abstract!Next]_(Abstract!vars)
  <1>1. CASE UNCHANGED (answers \ {"unresolved"})
    BY <1>1 DEF Abstract!vars
  <1>2. CASE answers' = answers \cup {row.result} /\ row.status \in {"committed", "rolled_back"}
    <2>1. answers \ {"unresolved"} \subseteq {row.result} /\ row.result # "unresolved"
      BY <1>2 DEF PatchInv, TypeOK, RecordInv, Result
    <2>2. answers' \ {"unresolved"} = {row.result}
      BY <1>2, <2>1
    <2> QED
      BY <1>2, <2>2 DEF PatchInv, RecordInv, Abstract!Next, Abstract!Reply
  <1>3. ASSUME NEW e \in Executor, pc[e] = "settled" \/ saw[e] = "committed"
        PROVE  row.status \in {"committed", "rolled_back"}
    BY <1>3 DEF PatchInv, CallInv, RecordInv
  <1> QED
    BY <1>1, <1>2, <1>3, AnswerMoves

\* One container, one outcome, one answer: each step of the executors, the
\* container and the ledger is a step of EffectOnce or leaves it as it is.
THEOREM ImplementsEffectOnceHolds == Spec => ImplementsEffectOnce
  <1>1. Init => Abstract!Init
    BY DEF Init, ApplierInit, LedgerInit, Abstract!Init
  <1>2. PatchInv /\ [Next]_vars => [Abstract!Next]_(Abstract!vars)
    BY RowSimulates, LaunchSimulates, AnswerSimulates
  <1> QED
    BY <1>1, <1>2, PatchInvariant, PTL DEF Spec, ImplementsEffectOnce, Abstract!Spec
=============================================================================
