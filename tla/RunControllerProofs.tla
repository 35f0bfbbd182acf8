------------------------- MODULE RunControllerProofs -------------------------
(***************************************************************************)
(* Proofs about RunController, for any callers, ttl and bounds: LeaseInv   *)
(* and SaveInv are inductive whatever the surroundings do; FreshInv is     *)
(* inductive when nobody sets a running run aside (MaxPauses = 0), and     *)
(* then the run is the single-writer log of RunLog.                        *)
(***************************************************************************)
EXTENDS RunProperties, TLAPS

-----------------------------------------------------------------------------
(* The lease table.                                                         *)

\* What every transaction of LeaseManager leaves alone: rows are only added,
\* keep their owner, and a released row stays released.
LeasesGrow ==
    /\ Len(leases') >= Len(leases)
    /\ \A t \in Token :
          /\ leases'[t].owner = leases[t].owner
          /\ t \notin ActiveTokens => leases'[t].reason = leases[t].reason

LeaseTableOK == leases \in Seq(LeaseRow) /\ OneOwner /\ TakeoverChain

\* acquire adds a first or a fresh lease after one that was released.
LEMMA AcquireKeeps ==
    ASSUME LeaseTableOK, NEW o \in Owner, NEW now \in Nat, AcquireLease(o, now)
    PROVE  /\ LeaseTableOK' /\ LeasesGrow
           /\ Len(leases') = Len(leases) + 1
           /\ leases'[Len(leases) + 1].owner = o
  <1> DEFINE row == GrantedRow(o, now, NoToken)
  <1>1. row \in LeaseRow /\ row.reason = "none" /\ row.owner = o /\ row.predecessor = 0
    BY TtlAssumption DEF GrantedRow, LeaseRow, ReleaseReason, NoToken
  <1> HIDE DEF row
  <1>2. /\ leases' \in Seq(LeaseRow)
        /\ Len(leases') = Len(leases) + 1
        /\ \A t \in Token : leases'[t] = leases[t]
        /\ leases'[Len(leases) + 1] = row
    BY <1>1 DEF AcquireLease, LeaseTableOK, Token, row
  <1>3. \A t \in Token : leases[t].reason # "none"
    BY DEF AcquireLease, CanAcquire, ActiveTokens
  <1>4. OneOwner'
    BY <1>2, <1>3 DEF OneOwner, ActiveTokens, Token, LeaseTableOK
  <1>5. TakeoverChain'
    BY <1>1, <1>2, <1>3 DEF TakeoverChain, Token, LeaseTableOK, NoToken
  <1>6. LeasesGrow
    BY <1>2 DEF LeasesGrow, Token, LeaseTableOK
  <1> QED
    BY <1>1, <1>2, <1>4, <1>5, <1>6 DEF LeaseTableOK

\* renew and release change one row, the caller's, and neither its owner nor
\* where it came from; release alone changes its reason.
LEMMA UpdateKeeps ==
    ASSUME LeaseTableOK, NEW t \in ActiveTokens, NEW new \in LeaseRow,
           new.owner = leases[t].owner,
           new.predecessor = leases[t].predecessor,
           new.reason # "expired_takeover",
           leases' = [leases EXCEPT ![t] = new]
    PROVE  LeaseTableOK' /\ LeasesGrow /\ Len(leases') = Len(leases)
  <1>1. /\ t \in Token /\ leases[t].reason = "none"
        /\ leases' \in Seq(LeaseRow) /\ Len(leases') = Len(leases)
        /\ \A u \in Token : leases'[u] = IF u = t THEN new ELSE leases[u]
    BY DEF ActiveTokens, Token, LeaseTableOK
  <1>2. OneOwner'
    BY <1>1 DEF OneOwner, ActiveTokens, Token, LeaseTableOK
  <1>3. TakeoverChain'
    BY <1>1 DEF TakeoverChain, Token, LeaseTableOK
  <1>4. LeasesGrow
    BY <1>1 DEF LeasesGrow, ActiveTokens, Token, LeaseTableOK
  <1> QED
    BY <1>1, <1>2, <1>3, <1>4 DEF LeaseTableOK

LEMMA RenewKeeps ==
    ASSUME LeaseTableOK, NEW t, NEW o, NEW now \in Nat, RenewLease(t, o, now)
    PROVE  LeaseTableOK' /\ LeasesGrow /\ Len(leases') = Len(leases)
  <1>1. t \in ActiveTokens /\ leases[t] \in LeaseRow
    BY DEF RenewLease, CanRenew, ActiveTokens, Token, LeaseTableOK
  <1>2. [leases[t] EXCEPT !.expires = now + Ttl] \in LeaseRow
    BY <1>1, TtlAssumption DEF LeaseRow
  <1>3. leases' = [leases EXCEPT ![t] = [leases[t] EXCEPT !.expires = now + Ttl]]
    BY <1>1 DEF RenewLease
  <1>4. leases[t].reason = "none"
    BY <1>1 DEF ActiveTokens
  <1> QED
    BY <1>1, <1>2, <1>3, <1>4, UpdateKeeps DEF LeaseRow

LEMMA ReleaseKeeps ==
    ASSUME LeaseTableOK, NEW t, NEW o, ReleaseLease(t, o)
    PROVE  LeaseTableOK' /\ LeasesGrow /\ Len(leases') = Len(leases)
  <1>1. t \in ActiveTokens /\ leases[t] \in LeaseRow
    BY DEF ReleaseLease, CanRelease, ActiveTokens, Token, LeaseTableOK
  <1>2. [leases[t] EXCEPT !.reason = "explicit_release"] \in LeaseRow
    BY <1>1 DEF LeaseRow, ReleaseReason
  <1>3. leases' = [leases EXCEPT ![t] = [leases[t] EXCEPT !.reason = "explicit_release"]]
    BY <1>1 DEF ReleaseLease
  <1> QED
    BY <1>1, <1>2, <1>3, UpdateKeeps DEF LeaseRow

\* takeover_expired closes the active row, the newest by OneOwner, and links its
\* successor to it.
LEMMA TakeOverKeeps ==
    ASSUME LeaseTableOK, NEW t \in Token, NEW o \in Owner, NEW now \in Nat,
           TakeOverLease(t, o, now)
    PROVE  /\ LeaseTableOK' /\ LeasesGrow
           /\ Len(leases') = Len(leases) + 1
           /\ leases'[Len(leases) + 1].owner = o
  <1> DEFINE row == GrantedRow(o, now, t)
             old == [leases[t] EXCEPT !.reason = "expired_takeover"]
  <1>1. /\ t = Len(leases) /\ leases[t].reason = "none" /\ leases[t] \in LeaseRow
        /\ \A u \in Token : leases[u].reason = "none" => u = Len(leases)
    BY DEF TakeOverLease, CanTakeOver, OneOwner, ActiveTokens, Token, LeaseTableOK
  <1>2. row \in LeaseRow /\ row.reason = "none" /\ row.owner = o /\ row.predecessor = t
    BY <1>1, TtlAssumption DEF GrantedRow, LeaseRow, ReleaseReason, Token, LeaseTableOK
  <1>3. /\ old \in LeaseRow /\ old.owner = leases[t].owner
        /\ old.predecessor = leases[t].predecessor /\ old.reason = "expired_takeover"
    BY <1>1 DEF LeaseRow, ReleaseReason
  <1>4. leases' = Append([leases EXCEPT ![t] = old], row)
    BY <1>1 DEF TakeOverLease
  <1> HIDE DEF row, old
  <1>5. /\ leases' \in Seq(LeaseRow)
        /\ Len(leases') = Len(leases) + 1
        /\ \A u \in Token : leases'[u] = IF u = t THEN old ELSE leases[u]
        /\ leases'[Len(leases) + 1] = row
    BY <1>2, <1>3, <1>4 DEF LeaseTableOK, Token
  <1>6. OneOwner'
    BY <1>1, <1>2, <1>3, <1>5 DEF OneOwner, ActiveTokens, Token, LeaseTableOK
  <1>7. TakeoverChain'
    BY <1>1, <1>2, <1>3, <1>5 DEF TakeoverChain, Token, LeaseTableOK, NoToken
  <1>8. LeasesGrow
    BY <1>1, <1>3, <1>5 DEF LeasesGrow, ActiveTokens, Token, LeaseTableOK
  <1> QED
    BY <1>2, <1>5, <1>6, <1>7, <1>8 DEF LeaseTableOK

-----------------------------------------------------------------------------
(* Types.                                                                   *)

RunInv == TypeOK /\ LeaseInv /\ SaveInv

\* The types of a controller's locals.
ProcTypes ==
    /\ pc \in [Owner -> PC]
    /\ readStatus \in [Owner -> Status]
    /\ version \in [Owner -> Nat]
    /\ base \in [Owner -> Nat]
    /\ token \in [Owner -> Nat]
    /\ since \in [Owner -> Nat]

RunTypes ==
    /\ status \in Status
    /\ stateVersion \in Nat
    /\ attempt \in Nat
    /\ checkpoints \in Seq(Checkpoint)

LEMMA TypeParts ==
    TypeOK <=> clock \in Nat /\ leases \in Seq(LeaseRow) /\ RunTypes /\ ProcTypes /\ pauses \in Nat
  BY DEF TypeOK, RunTypes, ProcTypes

\* A clock sample lies between two natural numbers, so it is one.
LEMMA SampleTypes ==
    ASSUME TypeOK, NEW p \in Owner, NEW now \in since[p]..clock
    PROVE  now \in Nat
  BY DEF TypeOK

\* The locals keep their types in every step of an invocation.
LEMMA ProcTypesStep ==
    ASSUME TypeOK, NEW p \in Owner, ReadRun(p) \/ Step(p) \/ Crash(p)
    PROVE  ProcTypes'
  <1> USE DEF ProcTypes, TypeOK
  <1>1. ASSUME NEW step \in PC, Goto(p, step)
        PROVE  pc' \in [Owner -> PC] /\ since' \in [Owner -> Nat]
    BY <1>1 DEF Goto
  <1>2. ASSUME Exit(p) PROVE ProcTypes'
    BY <1>2 DEF Exit, PC, Status, Waiting, NoToken
  <1>3. AfterLease(p) \in PC /\ AfterRenew(pc[p]) \in PC
    BY DEF AfterLease, AfterRenew, PC
  <1>4. CASE ReadRun(p)
    BY <1>1, <1>4 DEF ReadRun, PC
  <1>5. CASE LoadCheckpoint(p)
    BY <1>1, <1>5 DEF LoadCheckpoint, Latest, PC
  <1>6. CASE Acquire(p)
    BY <1>1, <1>3, <1>6 DEF Acquire
  <1>7. CASE TakeOver(p)
    BY <1>1, <1>3, <1>7 DEF TakeOver
  <1>8. CASE StartRun(p) \/ RefetchRun(p)
    BY <1>1, <1>8 DEF StartRun, RefetchRun, PC
  <1>13. CASE Retry(p) \/ Save(p)
    <2>1. Latest + 1 \in Nat /\ version[p] + 1 \in Nat
      BY DEF Latest
    <2>2. base' \in [Owner -> Nat] /\ version' \in [Owner -> Nat]
      BY <1>13, <2>1 DEF Retry, Save
    <2>3. pc' \in [Owner -> PC] /\ since' \in [Owner -> Nat]
      BY <1>1, <1>13 DEF Retry, Save, PC
    <2> QED
      BY <1>13, <2>2, <2>3 DEF Retry, Save
  <1>9. CASE Renew(p)
    BY <1>3, <1>9 DEF Renew, GotoWith
  <1>10. CASE AcquireConflict(p) \/ CheckCancelled(p) \/ Work(p) \/ RenewFailed(p) \/ SaveRejected(p)
              \/ Complete(p) \/ CompleteRejected(p) \/ Abandon(p) \/ AbandonRejected(p)
    BY <1>1, <1>10
    DEF AcquireConflict, CheckCancelled, Work, RenewFailed, SaveRejected, Complete,
        CompleteRejected, Abandon, AbandonRejected, PC
  <1>11. CASE TakeOverRejected(p) \/ StartRejected(p) \/ RetryRejected(p) \/ Release(p) \/ Crash(p)
    BY <1>2, <1>11 DEF TakeOverRejected, StartRejected, RetryRejected, Release, Crash
  <1>12. CASE ReleaseRejected(p)
    BY <1>1, <1>2, <1>12 DEF ReleaseRejected, PC
  <1> QED
    BY <1>4, <1>5, <1>6, <1>7, <1>8, <1>9, <1>10, <1>11, <1>12, <1>13 DEF Step

\* LeaseManager has four transactions; no other step writes run_leases.
LEMMA LeaseWriters ==
    ASSUME [Next]_vars,
           \A p \in Owner : ~Acquire(p) /\ ~TakeOver(p) /\ ~Renew(p) /\ ~Release(p)
    PROVE  UNCHANGED leases
  <1>1. ASSUME NEW p \in Owner, ReadRun(p) \/ Step(p) \/ Crash(p)
        PROVE  UNCHANGED leases
    BY <1>1
    DEF Step, ReadRun, LoadCheckpoint, AcquireConflict, TakeOverRejected, StartRun,
        StartRejected, Retry, RetryRejected, RefetchRun, CheckCancelled, Work,
        RenewFailed, Save, SaveRejected, Complete, CompleteRejected, Abandon,
        AbandonRejected, ReleaseRejected, Crash
  <1>2. CASE Cancel \/ Pause \/ Tick \/ UNCHANGED vars
    BY <1>2 DEF Cancel, Pause, Tick, vars
  <1> QED
    BY <1>1, <1>2 DEF Next

\* Five steps of an invocation write the run's rows.
LEMMA RunWriters ==
    ASSUME NEW p \in Owner, ReadRun(p) \/ Step(p) \/ Crash(p),
           ~(StartRun(p) \/ Retry(p) \/ Save(p) \/ Complete(p) \/ Abandon(p))
    PROVE  UNCHANGED runVars /\ UNCHANGED pauses
  BY DEF Step, ReadRun, LoadCheckpoint, Acquire, AcquireConflict, TakeOver,
         TakeOverRejected, StartRejected, RetryRejected, RefetchRun, CheckCancelled,
         Work, Renew, RenewFailed, SaveRejected, CompleteRejected, AbandonRejected,
         Release, ReleaseRejected, Crash

\* Each transaction of DurableRunRepository leaves well-typed rows; a loaded
\* state is one of the checkpoints, whose attempt it carries.
LEMMA SaveCheckpointTypes ==
    ASSUME RunTypes, NEW v, NEW b \in 1..Latest, NEW t \in Nat, NEW o, NEW checkedAt,
           SaveCheckpoint(v, b, t, o, checkedAt)
    PROVE  RunTypes'
  <1> DEFINE state == [base |-> b, attempt |-> checkpoints[b].attempt, token |-> t]
  <1>1. state \in Checkpoint /\ state.attempt \in Nat
    <2>1. checkpoints[b] \in Checkpoint /\ b \in Nat
      BY DEF RunTypes, Latest
    <2> QED
      BY <2>1 DEF Checkpoint
  <1>2. /\ checkpoints' = Append(checkpoints, state)
        /\ attempt' = state.attempt
        /\ stateVersion' = stateVersion + 1
        /\ status' = status
    BY DEF SaveCheckpoint
  <1> HIDE DEF state
  <1> QED
    BY <1>1, <1>2 DEF RunTypes

LEMMA BeginRetryTypes ==
    ASSUME RunTypes, NEW v, NEW b \in Nat, NEW t \in Nat, NEW o, NEW checkedAt,
           BeginRetry(v, b, t, o, checkedAt)
    PROVE  RunTypes'
  BY DEF BeginRetry, RunTypes, Checkpoint, Status

LEMMA TransitionTypes ==
    ASSUME RunTypes, NEW expected, NEW target \in Status,
           TransitionStatus(expected, target)
    PROVE  RunTypes'
  BY DEF TransitionStatus, RunTypes

\* The run's rows keep their types in every step.
LEMMA RunTypesStep ==
    ASSUME RunInv, [Next]_vars
    PROVE  RunTypes'
  <1> USE DEF RunInv
  <1>1. RunTypes /\ ProcTypes
    BY TypeParts
  <1>2. ASSUME UNCHANGED runVars PROVE RunTypes'
    BY <1>1, <1>2 DEF runVars, RunTypes
  <1>3. ASSUME NEW p \in Owner, Step(p) PROVE RunTypes'
    <2>1. CASE StartRun(p) \/ Complete(p) \/ Abandon(p)
      BY <1>1, <2>1, TransitionTypes
      DEF StartRun, Complete, Abandon, LeasedTransition, Status
    <2>2. CASE Retry(p)
      BY <1>1, <2>2, BeginRetryTypes DEF Retry, ProcTypes
    <2>3. CASE Save(p)
      <3>1. base[p] \in 1..Latest
        BY <2>3 DEF Save, SaveInv, Loaded, Leased
      <3> QED
        BY <1>1, <2>3, <3>1, SaveCheckpointTypes DEF Save, ProcTypes
    <2>4. CASE ~(StartRun(p) \/ Complete(p) \/ Abandon(p) \/ Retry(p) \/ Save(p))
      BY <1>2, <1>3, <2>4, RunWriters
    <2> QED
      BY <2>1, <2>2, <2>3, <2>4
  <1>4. ASSUME NEW p \in Owner, ReadRun(p) \/ Crash(p) PROVE RunTypes'
    BY <1>2, <1>4 DEF ReadRun, Crash
  <1>5. CASE Cancel
    BY <1>1, <1>5 DEF Cancel, CancelRun, RunTypes, Status
  <1>6. CASE Pause
    BY <1>1, <1>6, TransitionTypes DEF Pause, Status, Waiting
  <1>7. CASE Tick \/ UNCHANGED vars
    BY <1>2, <1>7 DEF Tick, vars
  <1> QED
    BY <1>3, <1>4, <1>5, <1>6, <1>7 DEF Next

-----------------------------------------------------------------------------
(* Leases.                                                                  *)

\* A step of one invocation leaves the locals of the others alone.
LEMMA OthersKept ==
    ASSUME TypeOK, NEW p \in Owner, ReadRun(p) \/ Step(p) \/ Crash(p),
           NEW q \in Owner, q # p
    PROVE  /\ pc'[q] = pc[q] /\ version'[q] = version[q]
           /\ base'[q] = base[q] /\ token'[q] = token[q]
  <1> USE DEF TypeOK
  <1>1. ASSUME NEW step, Goto(p, step) PROVE pc'[q] = pc[q]
    BY <1>1 DEF Goto
  <1>2. ASSUME Exit(p)
        PROVE  /\ pc'[q] = pc[q] /\ version'[q] = version[q]
               /\ base'[q] = base[q] /\ token'[q] = token[q]
    BY <1>2 DEF Exit
  <1>3. CASE ReadRun(p) \/ LoadCheckpoint(p) \/ Acquire(p) \/ TakeOver(p)
    BY <1>1, <1>3 DEF ReadRun, LoadCheckpoint, Acquire, TakeOver
  <1>4. CASE StartRun(p) \/ RefetchRun(p)
    BY <1>1, <1>4 DEF StartRun, RefetchRun
  <1>5. CASE Retry(p)
    BY <1>1, <1>5 DEF Retry
  <1>6. CASE Save(p)
    BY <1>1, <1>6 DEF Save
  <1>7. CASE Renew(p)
    BY <1>7 DEF Renew, GotoWith
  <1>8. CASE AcquireConflict(p) \/ CheckCancelled(p) \/ Work(p) \/ RenewFailed(p) \/ SaveRejected(p)
             \/ Complete(p) \/ CompleteRejected(p) \/ Abandon(p) \/ AbandonRejected(p)
    BY <1>1, <1>8
    DEF AcquireConflict, CheckCancelled, Work, RenewFailed, SaveRejected, Complete,
        CompleteRejected, Abandon, AbandonRejected
  <1>9. CASE TakeOverRejected(p) \/ StartRejected(p) \/ RetryRejected(p) \/ Release(p) \/ Crash(p)
    BY <1>2, <1>9 DEF TakeOverRejected, StartRejected, RetryRejected, Release, Crash
  <1>10. CASE ReleaseRejected(p)
    BY <1>1, <1>2, <1>10 DEF ReleaseRejected
  <1> QED
    BY <1>3, <1>4, <1>5, <1>6, <1>7, <1>8, <1>9, <1>10 DEF Step

\* An invocation comes by a lease only in Acquire and TakeOver, and keeps its
\* token until it ends.
LEMMA TokenKept ==
    ASSUME TypeOK, NEW p \in Owner, ReadRun(p) \/ Step(p) \/ Crash(p),
           ~Acquire(p), ~TakeOver(p), pc'[p] \in Leased
    PROVE  pc[p] \in Leased /\ token'[p] = token[p]
  <1> USE DEF TypeOK
  <1>1. ASSUME NEW step, Goto(p, step) PROVE pc'[p] = step
    BY <1>1 DEF Goto
  <1>2. ~Exit(p)
    BY DEF Exit, Leased
  <1>3. CASE ReadRun(p) \/ LoadCheckpoint(p) \/ AcquireConflict(p)
    BY <1>1, <1>3 DEF ReadRun, LoadCheckpoint, AcquireConflict, Leased
  <1>4. CASE StartRun(p) \/ RefetchRun(p)
    BY <1>4 DEF StartRun, RefetchRun, Leased
  <1>5. CASE Retry(p)
    BY <1>5 DEF Retry, Leased
  <1>6. CASE Save(p)
    BY <1>6 DEF Save, Leased
  <1>7. CASE Renew(p)
    BY <1>7 DEF Renew, Renewing, Leased
  <1>8. CASE CheckCancelled(p) \/ Work(p) \/ RenewFailed(p) \/ SaveRejected(p)
             \/ Complete(p) \/ CompleteRejected(p) \/ Abandon(p) \/ AbandonRejected(p)
    BY <1>8
    DEF CheckCancelled, Work, RenewFailed, SaveRejected, Complete, CompleteRejected,
        Abandon, AbandonRejected, Renewing, Leased
  <1>9. ~(TakeOverRejected(p) \/ StartRejected(p) \/ RetryRejected(p) \/ Release(p) \/ Crash(p))
    BY <1>2 DEF TakeOverRejected, StartRejected, RetryRejected, Release, Crash
  <1>10. CASE ReleaseRejected(p)
    BY <1>2, <1>10 DEF ReleaseRejected, Leased
  <1> QED
    BY <1>3, <1>4, <1>5, <1>6, <1>7, <1>8, <1>9, <1>10 DEF Step

\* The lease table stays a chain with at most one lease in force, and rows are
\* never reopened.
LEMMA LeaseTableStep ==
    ASSUME RunInv, [Next]_vars
    PROVE  LeaseTableOK' /\ LeasesGrow
  <1>1. LeaseTableOK
    BY DEF RunInv, TypeOK, LeaseInv, LeaseTableOK
  <1>2. ASSUME UNCHANGED leases PROVE LeaseTableOK' /\ LeasesGrow
    BY <1>1, <1>2
    DEF LeaseTableOK, LeasesGrow, OneOwner, TakeoverChain, ActiveTokens, Token
  <1>3. ASSUME NEW p \in Owner, Acquire(p) PROVE LeaseTableOK' /\ LeasesGrow
    BY <1>1, <1>3, AcquireKeeps, SampleTypes DEF Acquire, RunInv
  <1>4. ASSUME NEW p \in Owner, TakeOver(p) PROVE LeaseTableOK' /\ LeasesGrow
    BY <1>1, <1>4, TakeOverKeeps, SampleTypes DEF TakeOver, RunInv
  <1>5. ASSUME NEW p \in Owner, Renew(p) PROVE LeaseTableOK' /\ LeasesGrow
    <2>1. PICK checkedAt \in since[p]..clock :
             \E now \in checkedAt..clock : RenewLease(token[p], p, now)
      BY <1>5 DEF Renew
    <2>2. PICK now \in checkedAt..clock : RenewLease(token[p], p, now)
      BY <2>1
    <2>3. now \in Nat
      BY <2>1, <2>2, SampleTypes DEF RunInv, TypeOK
    <2> QED
      BY <1>1, <2>2, <2>3, RenewKeeps
  <1>6. ASSUME NEW p \in Owner, Release(p) PROVE LeaseTableOK' /\ LeasesGrow
    BY <1>1, <1>6, ReleaseKeeps DEF Release
  <1> QED
    BY <1>2, <1>3, <1>4, <1>5, <1>6, LeaseWriters

LEMMA LeaseInvStep ==
    ASSUME RunInv, [Next]_vars
    PROVE  LeaseInv'
  <1>1. LeaseTableOK' /\ LeasesGrow /\ LeaseTableOK
    BY LeaseTableStep DEF RunInv, TypeOK, LeaseInv, LeaseTableOK
  <1>2. ASSUME NEW q \in Owner, pc[q] \in Leased, token'[q] = token[q]
        PROVE  token'[q] \in Token' /\ leases'[token'[q]].owner = q
    BY <1>1, <1>2 DEF RunInv, LeaseInv, LeasesGrow, LeaseTableOK, Token
  <1>3. ASSUME NEW q \in Owner, pc'[q] \in Leased
        PROVE  token'[q] \in Token' /\ leases'[token'[q]].owner = q
    <2>1. ASSUME NEW p \in Owner, ReadRun(p) \/ Step(p) \/ Crash(p)
          PROVE  token'[q] \in Token' /\ leases'[token'[q]].owner = q
      <3>1. CASE q # p
        BY <1>2, <1>3, <2>1, <3>1, OthersKept DEF RunInv
      <3>2. CASE q = p /\ ~Acquire(p) /\ ~TakeOver(p)
        BY <1>2, <1>3, <2>1, <3>2, TokenKept DEF RunInv
      <3>3. CASE q = p /\ (Acquire(p) \/ TakeOver(p))
        <4>1. token'[p] = Len(leases) + 1
          BY <3>3 DEF Acquire, TakeOver, RunInv, TypeOK
        <4>2. Len(leases') = Len(leases) + 1 /\ leases'[Len(leases) + 1].owner = p
          BY <1>1, <3>3, AcquireKeeps, TakeOverKeeps, SampleTypes
          DEF Acquire, TakeOver, RunInv
        <4>3. token'[p] \in Token'
          BY <1>1, <4>1, <4>2 DEF Token, LeaseTableOK
        <4> QED
          BY <3>3, <4>1, <4>2, <4>3
      <3> QED
        BY <3>1, <3>2, <3>3
    <2>2. CASE Cancel \/ Pause \/ Tick \/ UNCHANGED vars
      BY <1>2, <1>3, <2>2 DEF Cancel, Pause, Tick, vars, procVars
    <2> QED
      BY <2>1, <2>2 DEF Next
  <1> QED
    BY <1>1, <1>3 DEF LeaseInv, LeaseTableOK

-----------------------------------------------------------------------------
(* The history.                                                             *)

\* A quiet step reads no row into the locals that a save depends on.
LEMMA QuietKept ==
    ASSUME TypeOK, NEW p \in Owner, ReadRun(p) \/ Step(p) \/ Crash(p),
           ~LoadCheckpoint(p), ~StartRun(p), ~Retry(p), ~RefetchRun(p), ~Save(p),
           pc'[p] \in Loaded
    PROVE  /\ pc[p] \in Loaded /\ base'[p] = base[p] /\ version'[p] = version[p]
           /\ pc'[p] # "refetching"
           /\ pc[p] \in Leased => pc'[p] \in Leased /\ token'[p] = token[p]
           /\ UNCHANGED checkpoints /\ UNCHANGED stateVersion
  <1> USE DEF TypeOK, Loaded, Leased, runVars
  <1>1. ASSUME NEW step, Goto(p, step) PROVE pc'[p] = step
    BY <1>1 DEF Goto
  <1>2. ~Exit(p)
    BY DEF Exit
  <1>3. ~ReadRun(p)
    BY <1>1 DEF ReadRun
  <1>4. CASE AcquireConflict(p)
    BY <1>1, <1>4 DEF AcquireConflict
  <1>5. CASE Acquire(p) \/ TakeOver(p)
    BY <1>1, <1>5 DEF Acquire, TakeOver, AfterLease
  <1>6. CASE Renew(p)
    BY <1>6 DEF Renew, GotoWith, Renewing, AfterRenew
  <1>7. CASE CheckCancelled(p) \/ Work(p) \/ RenewFailed(p) \/ SaveRejected(p)
             \/ CompleteRejected(p) \/ AbandonRejected(p)
    BY <1>1, <1>7
    DEF CheckCancelled, Work, RenewFailed, SaveRejected, CompleteRejected,
        AbandonRejected, Renewing
  <1>8. CASE Complete(p) \/ Abandon(p)
    BY <1>1, <1>8 DEF Complete, Abandon, LeasedTransition, TransitionStatus
  <1>9. ~(TakeOverRejected(p) \/ StartRejected(p) \/ RetryRejected(p) \/ Release(p) \/ Crash(p))
    BY <1>2 DEF TakeOverRejected, StartRejected, RetryRejected, Release, Crash
  <1>10. CASE ReleaseRejected(p)
    BY <1>1, <1>2, <1>10 DEF ReleaseRejected
  <1> QED
    BY <1>3, <1>4, <1>5, <1>6, <1>7, <1>8, <1>9, <1>10 DEF Step

\* A save or a retry appends one checkpoint, under the one lease in force.
Appended(c) ==
    /\ checkpoints' = Append(checkpoints, c)
    /\ c \in Checkpoint
    /\ c.token = Len(leases)
    /\ attempt' = c.attempt
    /\ stateVersion' = stateVersion + 1
    /\ UNCHANGED leases

LEMMA AppendedRows ==
    ASSUME TypeOK, NEW c, Appended(c)
    PROVE  /\ Latest \in Nat /\ Latest' = Latest + 1
           /\ DOMAIN checkpoints' = 1..(Latest + 1)
           /\ DOMAIN checkpoints = 1..Latest
           /\ \A i \in DOMAIN checkpoints : checkpoints'[i] = checkpoints[i]
           /\ checkpoints'[Latest + 1] = c
  BY DEF Appended, Latest, TypeOK

LEMMA RetryAppends ==
    ASSUME RunInv, NEW p \in Owner, Retry(p)
    PROVE  /\ Appended([base |-> base[p], attempt |-> attempt + 1, token |-> token[p]])
           /\ version[p] = stateVersion /\ token[p] \in ActiveTokens
           /\ pc'[p] = "refetching" /\ base'[p] = Latest + 1
           /\ version'[p] = version[p] /\ token'[p] = token[p]
           /\ status = "failed" /\ status' = "running"
  <1> DEFINE c == [base |-> base[p], attempt |-> attempt + 1, token |-> token[p]]
  <1>1. PICK checkedAt : BeginRetry(version[p], base[p], token[p], p, checkedAt)
    BY DEF Retry
  <1>2. /\ token[p] \in ActiveTokens /\ version[p] = stateVersion /\ status = "failed"
        /\ token[p] = Len(leases)
    BY <1>1 DEF BeginRetry, CanRetry, LeaseWritable, RunInv, LeaseInv, OneOwner
  <1>3. c \in Checkpoint /\ c.attempt = attempt + 1 /\ c.token = token[p]
    BY DEF RunInv, TypeOK, Checkpoint
  <1>4. /\ checkpoints' = Append(checkpoints, c) /\ attempt' = attempt + 1
        /\ stateVersion' = stateVersion + 1 /\ status' = "running"
    BY <1>1 DEF BeginRetry
  <1> HIDE DEF c
  <1>5. Appended(c)
    BY <1>2, <1>3, <1>4 DEF Appended, Retry
  <1>6. /\ pc'[p] = "refetching" /\ base'[p] = Latest + 1
        /\ version'[p] = version[p] /\ token'[p] = token[p]
    BY DEF Retry, Goto, RunInv, TypeOK
  <1> QED
    BY <1>2, <1>4, <1>5, <1>6 DEF c

LEMMA SaveAppends ==
    ASSUME RunInv, NEW p \in Owner, Save(p)
    PROVE  /\ Appended([base |-> base[p], attempt |-> checkpoints[base[p]].attempt,
                        token |-> token[p]])
           /\ version[p] = stateVersion /\ token[p] \in ActiveTokens
           /\ pc[p] = "writing" /\ pc'[p] \in {"boundary", "completing"}
           /\ base'[p] = Latest + 1 /\ base[p] \in 1..Latest
           /\ version'[p] = version[p] + 1 /\ token'[p] = token[p]
           /\ status = "running" /\ status' = "running"
  <1> DEFINE c == [base |-> base[p], attempt |-> checkpoints[base[p]].attempt,
                   token |-> token[p]]
  <1>1. SaveCheckpoint(version[p], base[p], token[p], p, since[p]) /\ pc[p] = "writing"
    BY DEF Save
  <1>2. /\ token[p] \in ActiveTokens /\ version[p] = stateVersion /\ status = "running"
        /\ token[p] = Len(leases)
    BY <1>1 DEF SaveCheckpoint, CanSave, LeaseWritable, RunInv, LeaseInv, OneOwner
  <1>3. base[p] \in 1..Latest
    BY <1>1 DEF RunInv, SaveInv, Loaded, Leased
  <1>4. c \in Checkpoint /\ c.attempt = checkpoints[base[p]].attempt /\ c.token = token[p]
    <2>1. checkpoints[base[p]] \in Checkpoint /\ base[p] \in Nat /\ token[p] \in Nat
      BY <1>3 DEF RunInv, TypeOK, Latest
    <2> QED
      BY <2>1 DEF Checkpoint
  <1>5. /\ checkpoints' = Append(checkpoints, c) /\ attempt' = c.attempt
        /\ stateVersion' = stateVersion + 1 /\ status' = status
    BY <1>1 DEF SaveCheckpoint
  <1> HIDE DEF c
  <1>6. Appended(c)
    BY <1>2, <1>4, <1>5 DEF Appended, Save
  <1>7. /\ pc'[p] \in {"boundary", "completing"} /\ base'[p] = Latest + 1
        /\ version'[p] = version[p] + 1 /\ token'[p] = token[p]
    BY DEF Save, Goto, RunInv, TypeOK
  <1> QED
    BY <1>1, <1>2, <1>3, <1>5, <1>6, <1>7 DEF c

\* Nothing else writes the history.
LEMMA HistoryStep ==
    ASSUME [Next]_vars, \A p \in Owner : ~Retry(p) /\ ~Save(p)
    PROVE  UNCHANGED <<checkpoints, stateVersion, attempt>>
  <1>1. ASSUME NEW p \in Owner, StartRun(p) \/ Complete(p) \/ Abandon(p)
        PROVE  UNCHANGED <<checkpoints, stateVersion, attempt>>
    BY <1>1 DEF StartRun, Complete, Abandon, LeasedTransition, TransitionStatus
  <1>2. ASSUME NEW p \in Owner, ReadRun(p) \/ Step(p) \/ Crash(p),
               ~(StartRun(p) \/ Complete(p) \/ Abandon(p))
        PROVE  UNCHANGED <<checkpoints, stateVersion, attempt>>
    BY <1>2, RunWriters DEF runVars
  <1>3. CASE Cancel \/ Pause \/ Tick \/ UNCHANGED vars
    BY <1>3 DEF Cancel, CancelRun, Pause, TransitionStatus, Tick, vars, runVars
  <1> QED
    BY <1>1, <1>2, <1>3 DEF Next

\* A state once loaded stays a checkpoint of the run's.
LEMMA BaseStep ==
    ASSUME RunInv, [Next]_vars, Latest' >= Latest, Latest' \in Nat,
           NEW q \in Owner, pc'[q] \in Loaded
    PROVE  base'[q] \in 1..Latest'
  <1>1. Latest \in Nat /\ Latest >= 1 /\ TypeOK
    BY DEF RunInv, TypeOK, Latest, SaveInv
  <1>2. ASSUME pc[q] \in Loaded, base'[q] = base[q] PROVE base'[q] \in 1..Latest'
    BY <1>1, <1>2 DEF RunInv, SaveInv
  <1>3. ASSUME NEW p \in Owner, ReadRun(p) \/ Step(p) \/ Crash(p)
        PROVE  base'[q] \in 1..Latest'
    <2>1. CASE q # p
      BY <1>1, <1>2, <1>3, <2>1, OthersKept
    <2>2. CASE q = p /\ LoadCheckpoint(p)
      BY <1>1, <2>2 DEF LoadCheckpoint, TypeOK
    <2>3. CASE q = p /\ (StartRun(p) \/ RefetchRun(p))
      BY <1>1, <1>2, <2>3 DEF StartRun, RefetchRun, Loaded, Leased
    <2>4. CASE q = p /\ (Retry(p) \/ Save(p))
      <3>1. base'[p] = Latest + 1 /\ Latest' = Latest + 1
        BY <1>1, <2>4, RetryAppends, SaveAppends, AppendedRows
      <3> QED
        BY <1>1, <2>4, <3>1
    <2>5. CASE q = p /\ ~(LoadCheckpoint(p) \/ StartRun(p) \/ RefetchRun(p) \/ Retry(p) \/ Save(p))
      BY <1>1, <1>2, <1>3, <2>5, QuietKept
    <2> QED
      BY <2>1, <2>2, <2>3, <2>4, <2>5
  <1>4. CASE Cancel \/ Pause \/ Tick \/ UNCHANGED vars
    BY <1>2, <1>4 DEF Cancel, Pause, Tick, vars, procVars
  <1> QED
    BY <1>3, <1>4 DEF Next

LEMMA SaveInvStep ==
    ASSUME RunInv, [Next]_vars
    PROVE  SaveInv'
  <1>1. LeaseTableOK' /\ LeasesGrow
    BY LeaseTableStep
  <1>2. /\ TypeOK /\ SaveInv /\ Latest \in Nat
        /\ Len(leases) \in Nat /\ Len(leases') \in Nat
    BY <1>1 DEF RunInv, TypeOK, Latest, LeaseTableOK
  <1>3. ASSUME NEW c, Appended(c) PROVE SaveInv'
    <2>1. /\ Latest' = Latest + 1
          /\ DOMAIN checkpoints' = 1..(Latest + 1)
          /\ DOMAIN checkpoints = 1..Latest
          /\ \A i \in DOMAIN checkpoints : checkpoints'[i] = checkpoints[i]
          /\ checkpoints'[Latest + 1] = c
      BY <1>2, <1>3, AppendedRows
    <2>2. VersionedHistory'
      BY <1>2, <1>3, <2>1 DEF Appended, SaveInv, VersionedHistory
    <2>3. \A i \in DOMAIN checkpoints' :
              checkpoints'[i].token <= Len(leases) /\ (i = Latest + 1 \/ i \in DOMAIN checkpoints)
      BY <1>2, <1>3, <2>1 DEF Appended, SaveInv
    <2>4. Fenced'
      BY <1>2, <1>3, <2>1, <2>3 DEF Appended, SaveInv, Fenced
    <2>5. Latest' >= Latest /\ Latest' \in Nat /\ Latest' >= 1
      BY <1>2, <2>1
    <2>6. \A p \in Owner : pc'[p] \in Loaded => base'[p] \in 1..Latest'
      BY <2>5, BaseStep
    <2> QED
      BY <1>3, <2>2, <2>3, <2>4, <2>5, <2>6 DEF SaveInv, Appended
  <1>4. CASE \E p \in Owner : Retry(p) \/ Save(p)
    BY <1>3, <1>4, RetryAppends, SaveAppends
  <1>5. CASE \A p \in Owner : ~Retry(p) /\ ~Save(p)
    <2>1. UNCHANGED <<checkpoints, stateVersion, attempt>>
      BY <1>5, HistoryStep
    <2>2. VersionedHistory' /\ Fenced' /\ Latest' = Latest
      BY <1>2, <2>1 DEF SaveInv, VersionedHistory, Fenced, Latest
    <2>3. \A i \in DOMAIN checkpoints : checkpoints[i].token <= Len(leases')
      <3>1. SUFFICES ASSUME NEW i \in DOMAIN checkpoints
                     PROVE  checkpoints[i].token <= Len(leases')
        OBVIOUS
      <3>2. checkpoints[i] \in Checkpoint
        BY <1>2 DEF TypeOK
      <3>3. checkpoints[i].token \in Nat /\ checkpoints[i].token <= Len(leases)
        BY <1>2, <3>2 DEF SaveInv, Checkpoint
      <3> QED
        BY <1>1, <1>2, <3>3 DEF LeasesGrow
    <2>4. \A p \in Owner : pc'[p] \in Loaded => base'[p] \in 1..Latest'
      BY <1>2, <2>2, BaseStep
    <2> QED
      BY <1>2, <2>1, <2>2, <2>3, <2>4 DEF SaveInv
  <1> QED
    BY <1>4, <1>5

-----------------------------------------------------------------------------
(* The invariant of every execution, pauses included.                       *)

LEMMA RunInvInit == Init => RunInv
  <1> SUFFICES ASSUME Init PROVE RunInv
    OBVIOUS
  <1>1. /\ leases = <<>> /\ leases \in Seq(LeaseRow) /\ Len(leases) = 0 /\ Token = {}
        /\ \A p \in Owner : pc[p] = "idle"
    BY DEF Init, Token
  <1> DEFINE c == [base |-> 0, attempt |-> 1, token |-> NoToken]
  <1>2. c \in Checkpoint /\ c.attempt = 1 /\ c.token = 0
    BY DEF Checkpoint, NoToken
  <1>3. checkpoints = <<c>> /\ stateVersion = 1 /\ attempt = 1
    BY DEF Init, RunInit
  <1> HIDE DEF c
  <1>4. checkpoints \in Seq(Checkpoint) /\ Latest = 1 /\ checkpoints[1] = c /\ DOMAIN checkpoints = {1}
    BY <1>2, <1>3 DEF Latest
  <1>5. TypeOK
    BY <1>1, <1>3, <1>4 DEF Init, RunInit, TypeOK, Status, Waiting, PC, NoToken
  <1>6. LeaseInv
    BY <1>1 DEF LeaseInv, OneOwner, ActiveTokens, TakeoverChain, Leased
  <1>7. SaveInv
    BY <1>1, <1>2, <1>3, <1>4 DEF SaveInv, VersionedHistory, Fenced, Loaded, Leased
  <1> QED
    BY <1>5, <1>6, <1>7 DEF RunInv

LEMMA RunInvStep == RunInv /\ [Next]_vars => RunInv'
  <1> SUFFICES ASSUME RunInv, [Next]_vars PROVE RunInv'
    OBVIOUS
  <1>1. TypeOK'
    <2>1. leases' \in Seq(LeaseRow)
      BY LeaseTableStep DEF LeaseTableOK
    <2>2. RunTypes'
      BY RunTypesStep
    <2>3. clock' \in Nat /\ pauses' \in Nat /\ ProcTypes'
      <3>1. TypeOK /\ ProcTypes
        BY TypeParts DEF RunInv
      <3>2. ASSUME NEW p \in Owner, ReadRun(p) \/ Step(p) \/ Crash(p)
            PROVE  UNCHANGED <<clock, pauses>>
        BY <3>2
        DEF Step, ReadRun, LoadCheckpoint, Acquire, AcquireConflict, TakeOver,
            TakeOverRejected, StartRun, StartRejected, Retry, RetryRejected,
            RefetchRun, CheckCancelled, Work, Renew, RenewFailed, Save, SaveRejected,
            Complete, CompleteRejected, Abandon, AbandonRejected, Release,
            ReleaseRejected, Crash
      <3>3. CASE \E p \in Owner : ReadRun(p) \/ Step(p) \/ Crash(p)
        BY <3>1, <3>2, <3>3, ProcTypesStep DEF TypeOK
      <3>4. CASE Cancel \/ Pause \/ Tick \/ UNCHANGED vars
        BY <3>1, <3>4 DEF Cancel, Pause, Tick, vars, procVars, TypeOK, ProcTypes
      <3> QED
        BY <3>3, <3>4 DEF Next
    <2> QED
      BY <2>1, <2>2, <2>3, TypeParts DEF TypeOK, RunTypes, ProcTypes
  <1> QED
    BY <1>1, LeaseInvStep, SaveInvStep DEF RunInv

\* Types, leases and saves are right in every execution, for any callers, ttl
\* and bounds, and whether or not running runs are set aside.
THEOREM RunInvariant == Spec => []RunInv
  BY RunInvInit, RunInvStep, PTL DEF Spec

\* Every variable keeps its type.
THEOREM RunTypesHold == Spec => []TypeOK
  BY RunInvariant, PTL DEF RunInv

\* A controller that holds a token holds the lease it was granted under.
THEOREM RunLeasesAreOwned == Spec => []LeaseInv
  BY RunInvariant, PTL DEF RunInv

\* No checkpoint was written under a lease yet to come, and a loaded state is
\* that of some checkpoint there is.
THEOREM RunSavesAreGrounded == Spec => []SaveInv
  BY RunInvariant, PTL DEF RunInv

\* At most one lease is in force, and it is the newest.
THEOREM RunHasOneOwner == Spec => []OneOwner
  BY RunInvariant, PTL DEF RunInv, LeaseInv

\* The chain of takeovers can be read off the lease rows.
THEOREM TakeoversAreRecorded == Spec => []TakeoverChain
  BY RunInvariant, PTL DEF RunInv, LeaseInv

\* No checkpoint is written under a lease once a later one has written.
THEOREM WritesAreFenced == Spec => []Fenced
  BY RunInvariant, PTL DEF RunInv, SaveInv

\* state_version counts the checkpoints, and row and checkpoint agree on the
\* attempt.
THEOREM HistoryIsVersioned == Spec => []VersionedHistory
  BY RunInvariant, PTL DEF RunInv, SaveInv

-----------------------------------------------------------------------------
(* Without pauses: the history is linear.                                   *)

\* A controller whose lease is no longer in force never gets it back.
LEMMA StaleStays ==
    ASSUME RunInv, LeasesGrow, NEW q \in Owner, pc[q] \in Leased,
           token[q] \notin ActiveTokens, token'[q] = token[q]
    PROVE  token'[q] \notin ActiveTokens'
  BY DEF RunInv, LeaseInv, LeasesGrow, ActiveTokens, Token

\* Two controllers never hold the lease in force at once.
LEMMA OneHolder ==
    ASSUME RunInv, NEW p \in Owner, NEW q \in Owner,
           pc[p] \in Leased, pc[q] \in Leased,
           token[p] \in ActiveTokens, token[q] \in ActiveTokens
    PROVE  p = q
  BY DEF RunInv, LeaseInv, OneOwner

\* The version a controller holds was read from the row, or counts on from
\* there with its own save.
LEMMA VersionStep ==
    ASSUME TypeOK, NEW p \in Owner, ReadRun(p) \/ Step(p) \/ Crash(p), ~Save(p)
    PROVE  version'[p] \in {version[p], stateVersion, 0}
  <1> USE DEF TypeOK
  <1>1. ASSUME Exit(p) PROVE version'[p] = 0
    BY <1>1 DEF Exit
  <1>2. CASE ReadRun(p) \/ StartRun(p) \/ RefetchRun(p)
    BY <1>2 DEF ReadRun, StartRun, RefetchRun
  <1>3. CASE TakeOverRejected(p) \/ StartRejected(p) \/ RetryRejected(p) \/ Release(p) \/ Crash(p)
    BY <1>1, <1>3 DEF TakeOverRejected, StartRejected, RetryRejected, Release, Crash
  <1>4. CASE ReleaseRejected(p)
    BY <1>1, <1>4 DEF ReleaseRejected
  <1>5. CASE \/ LoadCheckpoint(p) \/ Acquire(p) \/ AcquireConflict(p) \/ TakeOver(p)
             \/ Retry(p) \/ CheckCancelled(p) \/ Work(p) \/ Renew(p) \/ RenewFailed(p)
             \/ SaveRejected(p) \/ Complete(p) \/ CompleteRejected(p) \/ Abandon(p)
             \/ AbandonRejected(p)
    BY <1>5
    DEF LoadCheckpoint, Acquire, AcquireConflict, TakeOver, Retry, CheckCancelled, Work,
        Renew, RenewFailed, SaveRejected, Complete, CompleteRejected, Abandon,
        AbandonRejected
  <1> QED
    BY <1>2, <1>3, <1>4, <1>5 DEF Step

\* Only a transition to RUNNING leaves the waiting statuses, and without pauses
\* nothing enters them.
LEMMA WaitingStep ==
    ASSUME RunInv, FreshInv, MaxPauses = 0, [Next]_vars
    PROVE  /\ pauses' = 0
           /\ status' \in Waiting =>
                 status \in Waiting /\ UNCHANGED <<checkpoints, stateVersion, attempt>>
  <1>1. ~Pause /\ pauses = 0
    BY DEF Pause, FreshInv
  <1>2. ASSUME NEW p \in Owner, StartRun(p) \/ Retry(p) \/ Save(p) \/ Complete(p) \/ Abandon(p)
        PROVE  status' \notin Waiting
    <2>1. CASE StartRun(p) \/ Complete(p) \/ Abandon(p)
      BY <2>1
      DEF StartRun, Complete, Abandon, LeasedTransition, TransitionStatus, Waiting
    <2>2. CASE Retry(p) \/ Save(p)
      BY <2>2, RetryAppends, SaveAppends DEF Waiting
    <2> QED
      BY <1>2, <2>1, <2>2
  <1>3. ASSUME NEW p \in Owner, ReadRun(p) \/ Step(p) \/ Crash(p)
        PROVE  /\ pauses' = pauses
               /\ \/ UNCHANGED runVars
                  \/ StartRun(p) \/ Retry(p) \/ Save(p) \/ Complete(p) \/ Abandon(p)
    BY <1>3, RunWriters DEF StartRun, Retry, Save, Complete, Abandon
  <1>4. CASE Cancel
    BY <1>1, <1>4 DEF Cancel, CancelRun, Waiting
  <1>5. CASE Tick \/ UNCHANGED vars
    BY <1>1, <1>5 DEF Tick, vars, runVars
  <1> QED
    BY <1>1, <1>2, <1>3, <1>4, <1>5 DEF Next, runVars

\* Each append continues the newest checkpoint: a save or a retry passes only
\* under the lease in force and the present version, and then SafeToSave leaves
\* the loaded state no choice but to be the newest.
LEMMA AppendsContinue ==
    ASSUME RunInv, FreshInv, NEW p \in Owner, Retry(p) \/ Save(p)
    PROVE  base[p] = Latest
  <1>1. version[p] = stateVersion /\ token[p] \in ActiveTokens
    BY RetryAppends, SaveAppends
  <1>2. pc[p] \in Loaded
    BY SaveAppends DEF Retry, Loaded, Leased
  <1>3. SafeToSave(p) /\ stateVersion = Latest /\ version[p] \in Nat
    BY <1>2 DEF FreshInv, RunInv, SaveInv, VersionedHistory, TypeOK
  <1> QED
    BY <1>1, <1>3 DEF SafeToSave

LEMMA LinearStep ==
    ASSUME RunInv, FreshInv, [Next]_vars
    PROVE  LinearHistory'
  <1>1. ASSUME NEW c, Appended(c), c.base = Latest
        PROVE  LinearHistory'
    <2>1. TypeOK /\ LinearHistory
      BY DEF RunInv, FreshInv
    <2> QED
      BY <1>1, <2>1, AppendedRows DEF LinearHistory
  <1>2. ASSUME NEW p \in Owner, Retry(p) \/ Save(p) PROVE LinearHistory'
    BY <1>1, <1>2, RetryAppends, SaveAppends, AppendsContinue
  <1>3. CASE \A p \in Owner : ~Retry(p) /\ ~Save(p)
    BY <1>3, HistoryStep DEF FreshInv, LinearHistory
  <1> QED
    BY <1>2, <1>3

\* The conjuncts of FreshInv that speak of one controller.
Fresh(q) ==
    /\ version[q] <= stateVersion
    /\ pc[q] \in Loaded => SafeToSave(q)
    /\ pc[q] = "refetching" => base[q] = Latest \/ token[q] \notin ActiveTokens

\* What other controllers and the surroundings do cannot make a save by q pass
\* that should not: the version only grows, a lost lease stays lost, and while
\* q's is in force nobody else appends.
LEMMA FreshKept ==
    ASSUME RunInv, FreshInv, [Next]_vars, NEW q \in Owner,
           pc'[q] = pc[q], version'[q] = version[q], base'[q] = base[q],
           token'[q] = token[q],
           ~Retry(q), ~Save(q)
    PROVE  Fresh(q)'
  <1>1. /\ LeasesGrow /\ TypeOK /\ Fresh(q) /\ stateVersion = Latest
        /\ version[q] \in Nat /\ Latest \in Nat
    BY LeaseTableStep DEF RunInv, FreshInv, Fresh, SaveInv, VersionedHistory, TypeOK, Latest
  <1>2. stateVersion' = stateVersion \/ stateVersion' = stateVersion + 1
    BY HistoryStep, RetryAppends, SaveAppends DEF Appended
  <1>3. pc[q] \in Leased /\ token[q] \notin ActiveTokens => token'[q] \notin ActiveTokens'
    BY <1>1, StaleStays
  <1>4. pc'[q] \in Loaded => SafeToSave(q)'
    BY <1>1, <1>2, <1>3 DEF Fresh, SafeToSave
  <1>5. ASSUME pc[q] = "refetching"
        PROVE  base'[q] = Latest' \/ token'[q] \notin ActiveTokens'
    <2>1. CASE UNCHANGED checkpoints
      BY <1>1, <1>3, <1>5, <2>1 DEF Fresh, Latest, Leased
    <2>2. CASE \E p \in Owner : Retry(p) \/ Save(p)
      <3>1. PICK p \in Owner : Retry(p) \/ Save(p)
        BY <2>2
      <3>2. pc[p] \in Leased /\ token[p] \in ActiveTokens /\ p # q
        BY <3>1, RetryAppends, SaveAppends DEF Retry, Leased
      <3>3. token[q] \notin ActiveTokens
        BY <1>5, <3>2, OneHolder DEF Leased
      <3> QED
        BY <1>3, <1>5, <3>3 DEF Leased
    <2> QED
      BY <2>1, <2>2, HistoryStep
  <1> QED
    BY <1>1, <1>2, <1>4, <1>5 DEF Fresh

LEMMA FreshStep ==
    ASSUME RunInv, FreshInv, [Next]_vars, NEW p \in Owner,
           ReadRun(p) \/ Step(p) \/ Crash(p)
    PROVE  Fresh(p)'
  <1>1. /\ LeasesGrow /\ TypeOK /\ Fresh(p) /\ stateVersion = Latest
        /\ version[p] \in Nat /\ Latest \in Nat /\ token[p] \in Nat
    BY LeaseTableStep DEF RunInv, FreshInv, Fresh, SaveInv, VersionedHistory, TypeOK, Latest
  <1>2. CASE Save(p)
    <2>1. /\ version'[p] = stateVersion + 1 /\ base'[p] = stateVersion + 1
          /\ stateVersion' = stateVersion + 1 /\ pc'[p] # "refetching"
      BY <1>1, <1>2, SaveAppends DEF Appended
    <2> QED
      BY <1>1, <2>1 DEF Fresh, SafeToSave
  <1>3. CASE Retry(p)
    <2>1. /\ version'[p] = stateVersion /\ base'[p] = Latest + 1
          /\ stateVersion' = stateVersion + 1 /\ Latest' = Latest + 1
      BY <1>1, <1>3, RetryAppends, AppendedRows DEF Appended
    <2> QED
      BY <1>1, <2>1 DEF Fresh, SafeToSave
  <1>4. CASE LoadCheckpoint(p)
    <2>1. /\ base'[p] = Latest /\ version'[p] = version[p] /\ pc'[p] = "acquiring"
          /\ stateVersion' = stateVersion
      BY <1>1, <1>4 DEF LoadCheckpoint, Goto, runVars, TypeOK
    <2> QED
      BY <1>1, <2>1 DEF Fresh, SafeToSave
  <1>5. CASE StartRun(p)
    <2>1. status \in Waiting /\ pc[p] = "starting"
      BY <1>1, <1>5
      DEF StartRun, LeasedTransition, TransitionStatus, CanTransition,
          AllowedTransitions, TypeOK, Status, Waiting
    <2>2. base[p] = 1 /\ Latest = 1
      BY <2>1 DEF RunInv, SaveInv, FreshInv, Loaded, Leased
    <2>3. /\ version'[p] = stateVersion /\ base'[p] = base[p] /\ pc'[p] = "boundary"
          /\ stateVersion' = stateVersion
      BY <1>1, <1>5 DEF StartRun, LeasedTransition, TransitionStatus, Goto, TypeOK
    <2> QED
      BY <1>1, <2>2, <2>3 DEF Fresh, SafeToSave
  <1>6. CASE RefetchRun(p)
    <2>1. /\ version'[p] = stateVersion /\ base'[p] = base[p] /\ pc'[p] = "boundary"
          /\ token'[p] = token[p] /\ stateVersion' = stateVersion /\ pc[p] = "refetching"
      BY <1>1, <1>6 DEF RefetchRun, Goto, runVars, TypeOK
    <2>2. base[p] = Latest \/ token'[p] \notin ActiveTokens'
      BY <1>1, <2>1, StaleStays DEF Fresh, Leased
    <2> QED
      BY <1>1, <2>1, <2>2 DEF Fresh, SafeToSave, Leased
  <1>7. CASE ~(Save(p) \/ Retry(p) \/ LoadCheckpoint(p) \/ StartRun(p) \/ RefetchRun(p))
    <2>1. stateVersion' = stateVersion \/ stateVersion' = stateVersion + 1
      BY HistoryStep, RetryAppends, SaveAppends DEF Appended
    <2>2. version'[p] <= stateVersion'
      BY <1>1, <1>7, <2>1, VersionStep DEF Fresh
    <2>3. pc'[p] \in Loaded => SafeToSave(p)' /\ pc'[p] # "refetching"
      <3> SUFFICES ASSUME pc'[p] \in Loaded PROVE SafeToSave(p)' /\ pc'[p] # "refetching"
        OBVIOUS
      <3>1. /\ pc[p] \in Loaded /\ base'[p] = base[p] /\ version'[p] = version[p]
            /\ pc'[p] # "refetching" /\ stateVersion' = stateVersion
            /\ pc[p] \in Leased => pc'[p] \in Leased /\ token'[p] = token[p]
        BY <1>1, <1>7, QuietKept
      <3> QED
        BY <1>1, <3>1, StaleStays DEF Fresh, SafeToSave
    <2> QED
      BY <2>2, <2>3 DEF Fresh, Loaded, Leased
  <1> QED
    BY <1>2, <1>3, <1>4, <1>5, <1>6, <1>7

LEMMA FreshInvInit == Init => FreshInv
  BY DEF Init, RunInit, FreshInv, LinearHistory, Latest, Loaded, Leased

LEMMA FreshInvStep ==
    MaxPauses = 0 /\ RunInv /\ FreshInv /\ [Next]_vars => FreshInv'
  <1> SUFFICES ASSUME MaxPauses = 0, RunInv, FreshInv, [Next]_vars PROVE FreshInv'
    OBVIOUS
  <1>1. LinearHistory' /\ pauses' = 0
    BY LinearStep, WaitingStep
  <1>2. status' \in Waiting => Latest' = 1
    BY WaitingStep DEF FreshInv, Latest
  <1>3. ASSUME NEW q \in Owner PROVE Fresh(q)'
    <2>1. ASSUME NEW p \in Owner, ReadRun(p) \/ Step(p) \/ Crash(p) PROVE Fresh(q)'
      <3>1. CASE q = p
        BY <2>1, <3>1, FreshStep
      <3>2. CASE q # p /\ (Retry(q) \/ Save(q))
        BY <3>2, FreshStep DEF Step
      <3>3. CASE q # p /\ ~Retry(q) /\ ~Save(q)
        BY <2>1, <3>3, OthersKept, FreshKept DEF RunInv
      <3> QED
        BY <3>1, <3>2, <3>3
    <2>2. CASE UNCHANGED procVars
      <3>1. ~Retry(q) /\ ~Save(q)
        BY <2>2, RetryAppends, SaveAppends DEF procVars, Retry
      <3> QED
        BY <2>2, <3>1, FreshKept DEF procVars
    <2>3. CASE Cancel \/ Pause \/ Tick \/ UNCHANGED vars
      BY <2>2, <2>3 DEF Cancel, Pause, Tick, vars
    <2> QED
      BY <2>1, <2>3 DEF Next
  <1> QED
    BY <1>1, <1>2, <1>3 DEF FreshInv, Fresh

\* Without pauses a controller's save passes only with the newest state.
THEOREM RunStaysFresh == MaxPauses = 0 /\ Spec => []FreshInv
  <1>1. ASSUME MaxPauses = 0 PROVE Spec => []FreshInv
    BY <1>1, FreshInvInit, FreshInvStep, RunInvariant, PTL DEF Spec
  <1> QED
    BY <1>1

\* No update is lost: without pauses every checkpoint continues the one before.
THEOREM HistoryIsLinear == MaxPauses = 0 /\ Spec => []LinearHistory
  <1>1. FreshInv => LinearHistory
    BY DEF FreshInv
  <1> QED
    BY <1>1, RunStaysFresh, PTL

-----------------------------------------------------------------------------
(* What no step does.                                                       *)

\* A completed or cancelled run never changes again.
THEOREM TerminalForGood == Spec => TerminalIsFinal
  <1>1. RunInv /\ [Next]_vars => [(status \in Terminal) => UNCHANGED runVars]_vars
    <2> SUFFICES ASSUME RunInv, Next, status \in Terminal PROVE UNCHANGED runVars
      BY DEF vars
    <2>1. AllowedTransitions[status] = {} /\ status \notin {"running", "failed"}
      BY DEF Terminal, AllowedTransitions, Status, Waiting
    <2>2. ASSUME NEW p \in Owner PROVE ~(StartRun(p) \/ Complete(p) \/ Abandon(p))
      BY <2>1 DEF StartRun, Complete, Abandon, LeasedTransition, TransitionStatus,
                  CanTransition
    <2>3. ASSUME NEW p \in Owner PROVE ~(Retry(p) \/ Save(p))
      BY <2>1, RetryAppends, SaveAppends
    <2>4. ~Cancel /\ ~Pause
      BY <2>1 DEF Cancel, CancelRun, Cancellable, Terminal, Waiting, Pause,
                  TransitionStatus, CanTransition
    <2>5. ASSUME NEW p \in Owner, ReadRun(p) \/ Step(p) \/ Crash(p)
          PROVE  UNCHANGED runVars
      BY <2>2, <2>3, <2>5, RunWriters
    <2>6. CASE Tick
      BY <2>6 DEF Tick
    <2> QED
      BY <2>4, <2>5, <2>6 DEF Next
  <1> QED
    BY <1>1, RunInvariant, PTL DEF Spec, TerminalIsFinal

\* Retrying one failure twice makes one new attempt.
THEOREM OneAttemptEach == MaxPauses = 0 /\ Spec => OneAttemptPerFailure
  <1> DEFINE A == /\ attempt' # attempt
                        => status = "failed" /\ status' = "running" /\ attempt' = attempt + 1
                  /\ status = "failed" /\ status' # "failed" => attempt' = attempt + 1
  <1>1. RunInv /\ FreshInv /\ [Next]_vars => [A]_vars
    <2> SUFFICES ASSUME RunInv, FreshInv, Next PROVE A
      BY DEF vars
    <2>1. ASSUME NEW p \in Owner, Retry(p) PROVE A
      BY <2>1, RetryAppends DEF Appended
    <2>2. ASSUME NEW p \in Owner, Save(p) PROVE A
      <3>1. attempt' = checkpoints[Latest].attempt
        BY <2>2, SaveAppends, AppendsContinue DEF Appended
      <3> QED
        BY <2>2, <3>1, SaveAppends DEF RunInv, SaveInv, VersionedHistory
    <2>3. CASE \A p \in Owner : ~Retry(p) /\ ~Save(p)
      <3>1. attempt' = attempt
        BY <2>3, HistoryStep
      <3>2. ASSUME NEW p \in Owner, StartRun(p) \/ Complete(p) \/ Abandon(p)
            PROVE  status # "failed"
        BY <3>2 DEF StartRun, Complete, Abandon, LeasedTransition, TransitionStatus,
                    CanTransition, AllowedTransitions, RunInv, TypeOK, Status, Waiting
      <3>3. ASSUME NEW p \in Owner, ReadRun(p) \/ Step(p) \/ Crash(p),
                   ~(StartRun(p) \/ Complete(p) \/ Abandon(p))
            PROVE  status' = status
        BY <2>3, <3>3, RunWriters DEF runVars
      <3>4. ASSUME Cancel \/ Pause PROVE status # "failed"
        BY <3>4 DEF Cancel, CancelRun, Cancellable, Waiting, Pause, TransitionStatus,
                    CanTransition
      <3>5. ASSUME Tick PROVE status' = status
        BY <3>5 DEF Tick, runVars
      <3>6. status = "failed" => status' = "failed"
        BY <3>2, <3>3, <3>4, <3>5 DEF Next
      <3> QED
        BY <3>1, <3>6
    <2> QED
      BY <2>1, <2>2, <2>3
  <1> QED
    BY <1>1, RunInvariant, RunStaysFresh, PTL DEF Spec, OneAttemptPerFailure

\* No lease is taken over before its time, whenever the taker read the clock.
THEOREM TakenOnlyLate == Spec => TakenOnlyWhenExpired
  <1> DEFINE A == \A t \in Token :
                    leases[t].reason # "expired_takeover"
                       /\ leases'[t].reason = "expired_takeover"
                       => leases[t].expires <= clock
  <1>1. RunInv /\ [Next]_vars => [A]_vars
    <2> SUFFICES ASSUME RunInv, Next,
                        NEW t \in Token,
                        leases[t].reason # "expired_takeover",
                        leases'[t].reason = "expired_takeover"
                 PROVE  leases[t].expires <= clock
      BY DEF vars
    <2>1. leases \in Seq(LeaseRow) /\ leases[t] \in LeaseRow /\ TypeOK
      BY DEF RunInv, TypeOK, Token
    <2>2. ASSUME NEW p \in Owner, TakeOver(p) PROVE leases[t].expires <= clock
      <3>1. PICK u \in Token, now \in since[p]..clock : TakeOverLease(u, p, now)
        BY <2>2 DEF TakeOver
      <3>2. now \in Nat /\ now <= clock
        BY <2>1, <3>1, SampleTypes DEF TypeOK
      <3>3. t = u
        BY <2>1, <3>1 DEF TakeOverLease, Token
      <3> QED
        BY <2>1, <3>1, <3>2, <3>3 DEF TakeOverLease, CanTakeOver, LeaseRow, TypeOK
    <2>3. ASSUME NEW p \in Owner, Acquire(p) \/ Renew(p) \/ Release(p) PROVE FALSE
      <3>1. CASE Acquire(p)
        BY <2>1, <3>1 DEF Acquire, AcquireLease, Token
      <3>2. CASE Renew(p)
        BY <2>1, <3>2 DEF Renew, RenewLease, CanRenew, Token
      <3>3. CASE Release(p)
        BY <2>1, <3>3 DEF Release, ReleaseLease, Token
      <3> QED
        BY <2>3, <3>1, <3>2, <3>3
    <2> QED
      BY <2>2, <2>3, LeaseWriters
  <1> QED
    BY <1>1, RunInvariant, PTL DEF Spec, TakenOnlyWhenExpired

-----------------------------------------------------------------------------
(* Refinement: without pauses the run is the log of a single writer.        *)

\* An append of a checkpoint is an append of its entry.
LEMMA LogAppends ==
    ASSUME TypeOK, NEW c, Appended(c), c.base = Latest
    PROVE  AbstractLog' = Append(AbstractLog, [continues |-> Len(AbstractLog),
                                               attempt   |-> c.attempt])
  <1>1. /\ Latest \in Nat /\ DOMAIN checkpoints = 1..Latest
        /\ DOMAIN checkpoints' = 1..(Latest + 1)
        /\ \A i \in DOMAIN checkpoints : checkpoints'[i] = checkpoints[i]
        /\ checkpoints'[Latest + 1] = c
    BY AppendedRows
  <1>2. Len(AbstractLog) = Latest
    BY <1>1 DEF AbstractLog
  <1>3. AbstractLog \in Seq([continues : {checkpoints[i].base : i \in 1..Latest},
                             attempt   : {checkpoints[i].attempt : i \in 1..Latest}])
    BY <1>1 DEF AbstractLog
  <1> QED
    BY <1>1, <1>2, <1>3 DEF AbstractLog

\* Without pauses every step of the program is a step of the log or stutters.
LEMMA RunSimulation ==
    RunInv /\ FreshInv /\ MaxPauses = 0 /\ [Next]_vars
        => [Abstract!Next]_(Abstract!vars)
  <1> SUFFICES ASSUME RunInv, FreshInv, MaxPauses = 0, [Next]_vars
               PROVE  [Abstract!Next]_(Abstract!vars)
    OBVIOUS
  <1>1. /\ TypeOK /\ Latest >= 1 /\ Len(AbstractLog) = Latest
        /\ AbstractLog[Latest].attempt = attempt
    BY DEF RunInv, SaveInv, VersionedHistory, AbstractLog, TypeOK, Latest
  <1>2. ASSUME UNCHANGED checkpoints PROVE UNCHANGED AbstractLog
    BY <1>2 DEF AbstractLog
  <1>3. ASSUME UNCHANGED runVars PROVE UNCHANGED Abstract!vars
    BY <1>2, <1>3 DEF runVars, Abstract!vars, AbstractPhase
  <1>4. ASSUME NEW p \in Owner, StartRun(p) PROVE Abstract!Begin
    <2>1. status \in Waiting /\ status' = "running" /\ UNCHANGED checkpoints
      BY <1>1, <1>4
      DEF StartRun, LeasedTransition, TransitionStatus, CanTransition,
          AllowedTransitions, TypeOK, Status, Waiting
    <2> QED
      BY <1>2, <2>1 DEF Abstract!Begin, AbstractPhase, Waiting
  <1>5. ASSUME NEW p \in Owner, Complete(p) \/ Abandon(p) PROVE Abstract!Settle
    <2>1. status = "running" /\ status' \in {"completed", "failed"} /\ UNCHANGED checkpoints
      BY <1>5 DEF Complete, Abandon, LeasedTransition, TransitionStatus, CanTransition
    <2> QED
      BY <1>2, <2>1 DEF Abstract!Settle, AbstractPhase, Waiting
  <1>6. ASSUME NEW p \in Owner, Retry(p) PROVE Abstract!Reopen
    <2> DEFINE c == [base |-> base[p], attempt |-> attempt + 1, token |-> token[p]]
    <2>1. Appended(c) /\ c.base = Latest /\ c.attempt = attempt + 1
          /\ status = "failed" /\ status' = "running"
      BY <1>6, RetryAppends, AppendsContinue
    <2> HIDE DEF c
    <2> QED
      BY <1>1, <2>1, LogAppends
      DEF Abstract!Reopen, Abstract!Entry, Abstract!CurrentAttempt, AbstractPhase, Waiting
  <1>7. ASSUME NEW p \in Owner, Save(p) PROVE Abstract!Extend
    <2> DEFINE c == [base |-> base[p], attempt |-> checkpoints[base[p]].attempt,
                     token |-> token[p]]
    <2>1. Appended(c) /\ c.base = Latest /\ c.attempt = attempt
          /\ status = "running" /\ status' = "running"
      BY <1>7, SaveAppends, AppendsContinue DEF RunInv, SaveInv, VersionedHistory
    <2> HIDE DEF c
    <2> QED
      BY <1>1, <2>1, LogAppends
      DEF Abstract!Extend, Abstract!Entry, Abstract!CurrentAttempt, AbstractPhase, Waiting
  <1>8. ASSUME NEW p \in Owner, ReadRun(p) \/ Step(p) \/ Crash(p)
        PROVE  [Abstract!Next]_(Abstract!vars)
    BY <1>3, <1>4, <1>5, <1>6, <1>7, <1>8, RunWriters DEF Abstract!Next
  <1>9. CASE Cancel
    BY <1>2, <1>9 DEF Cancel, CancelRun, Cancellable, Abstract!Next, Abstract!Cancel,
                      AbstractPhase, Waiting
  <1>10. ~Pause
    BY DEF Pause, FreshInv
  <1>11. CASE Tick \/ UNCHANGED vars
    BY <1>3, <1>11 DEF Tick, vars
  <1> QED
    BY <1>8, <1>9, <1>10, <1>11 DEF Next

\* Controllers, leases, versions and crashes together implement RunLog, as long
\* as nobody sets a running run aside.
THEOREM RunRefinement == MaxPauses = 0 /\ Spec => ImplementsRunLog
  <1>1. Init => Abstract!Init
    <2> SUFFICES ASSUME Init PROVE Abstract!Init
      OBVIOUS
    <2>1. DOMAIN checkpoints = {1} /\ checkpoints[1] = [base |-> 0, attempt |-> 1, token |-> NoToken]
          /\ Len(checkpoints) = 1
      BY DEF Init, RunInit
    <2>2. AbstractLog = <<[continues |-> 0, attempt |-> 1]>>
      BY <2>1 DEF AbstractLog
    <2> QED
      BY <2>2 DEF Init, RunInit, Abstract!Init, AbstractPhase, Waiting
  <1>2. ASSUME MaxPauses = 0 PROVE Spec => ImplementsRunLog
    <2>1. RunInv /\ FreshInv /\ [Next]_vars => [Abstract!Next]_(Abstract!vars)
      BY <1>2, RunSimulation
    <2>2. Spec => []FreshInv
      BY <1>2, RunStaysFresh
    <2> QED
      BY <1>1, <2>1, <2>2, RunInvariant, PTL
      DEF Spec, ImplementsRunLog, Abstract!Spec
  <1> QED
    BY <1>2
=============================================================================
