---------------------------- MODULE EffectProofs ----------------------------
(***************************************************************************)
(* Proofs about IdempotentExecutor, for any executors, calls and digests:  *)
(* EffectInv is an inductive invariant, the properties of EffectProperties *)
(* follow from it, and every step is a step of EffectOnce or stutters.     *)
(***************************************************************************)
EXTENDS EffectProperties, TLAPS

\* A call is a pair of an executor, its home, and a slot.
LEMMA CallHome ==
    ASSUME NEW c \in Call
    PROVE  Home(c) \in Executor
  BY DEF Call, Home

-----------------------------------------------------------------------------
(* The steps that several actions share.                                    *)

\* A call that ends leaves the invariant intact, if what it hands back is the
\* result on a committed or failed row (Exit, in every action that uses it).
LEMMA ExitKeeps ==
    ASSUME EffectInv,
           NEW c \in Call, NEW results,
           Exit(c, results),
           UNCHANGED <<row, executions>>,
           alive' \subseteq Executor,
           results = {} \/ (row.status \in {"committed", "failed"} /\ results = {row.result})
    PROVE  EffectInv'
  <1>1. TypeOK'
    <2>1. delivered' \subseteq Result
      BY DEF EffectInv, TypeOK, RowInv, Exit, Result
    <2>2. lock' \in [Executor -> Call \cup {Unlocked}]
      BY CallHome DEF EffectInv, TypeOK, Exit
    <2>3. /\ pc' \in [Call -> PC]
          /\ sawOwner' \in [Call -> Executor \cup {NoOne}]
          /\ outcome' \in [Call -> Outcome]
      BY DEF EffectInv, TypeOK, Exit, PC, Outcome
    <2> QED
      BY <2>1, <2>2, <2>3 DEF EffectInv, TypeOK
  <1>2. AtMostOnce' /\ OpenInv' /\ RowInv'
    BY DEF EffectInv, TypeOK, AtMostOnce, OpenInv, RowInv, Exit
  <1>3. OneClaimant' /\ ClaimInv' /\ SettledInv'
    BY DEF EffectInv, TypeOK, OneClaimant, ClaimInv, SettledInv, Exit
  <1>4. AnswersAgree'
    BY DEF EffectInv, AnswersAgree, RowInv, Exit
  <1> QED
    BY <1>1, <1>2, <1>3, <1>4 DEF EffectInv

\* A step that only moves one call to a place short of the claim leaves the
\* invariant intact (Goto to "locking" or "claiming", taking the lock, setting
\* out to mark a row).
LEMMA MoveKeeps ==
    ASSUME EffectInv,
           NEW c \in Call,
           pc' \in [Call -> PC],
           sawOwner' \in [Call -> Executor \cup {NoOne}],
           lock' \in [Executor -> Call \cup {Unlocked}],
           pc'[c] \in {"locking", "locked", "claiming", "marking"},
           \A d \in Call \ {c} : pc'[d] = pc[d],
           UNCHANGED <<row, executions, alive, delivered, outcome>>
    PROVE  EffectInv'
  <1>1. TypeOK' /\ AtMostOnce' /\ OpenInv' /\ RowInv' /\ AnswersAgree'
    BY DEF EffectInv, TypeOK, AtMostOnce, OpenInv, RowInv, AnswersAgree
  <1>2. OneClaimant' /\ ClaimInv' /\ SettledInv'
    BY DEF EffectInv, TypeOK, OneClaimant, ClaimInv, SettledInv
  <1> QED
    BY <1>1, <1>2 DEF EffectInv

\* _handle_existing_record keeps the invariant wherever the call goes on.
LEMMA HandleExistingKeeps ==
    ASSUME EffectInv,
           NEW c \in Call, NEW next \in {"locking", "claiming"},
           HandleExisting(c, next),
           UNCHANGED <<row, alive, executions>>
    PROVE  EffectInv'
  <1>1. CASE row.status \in {"committed", "failed"} /\ Exit(c, {row.result})
    BY <1>1, ExitKeeps DEF EffectInv, TypeOK
  <1>2. CASE Exit(c, {})
    BY <1>2, ExitKeeps DEF EffectInv, TypeOK
  <1>3. CASE /\ pc' = [pc EXCEPT ![c] = "marking"]
             /\ sawOwner' = [sawOwner EXCEPT ![c] = row.owner]
             /\ UNCHANGED <<outcome, lock, delivered>>
    <2>1. row.owner \in Executor \cup {NoOne}
      BY DEF EffectInv, TypeOK, Row
    <2> QED
      BY <1>3, <2>1, MoveKeeps DEF EffectInv, TypeOK, PC
  <1>4. CASE Goto(c, next) /\ UNCHANGED delivered
    BY <1>4, MoveKeeps DEF EffectInv, TypeOK, PC, Goto
  <1> QED
    BY <1>1, <1>2, <1>3, <1>4 DEF HandleExisting

\* Marking an executing row UNKNOWN and ending the call keeps the invariant,
\* whoever the call took the owner for (mark_unknown, for both reasons).
LEMMA MarkKeeps ==
    ASSUME EffectInv,
           NEW c \in Call, NEW owner,
           MarkEffectUnknown(owner),
           Exit(c, {}),
           UNCHANGED <<alive, executions>>
    PROVE  EffectInv'
  <1>1. /\ row.status = "executing"
        /\ row' = [row EXCEPT !.status = "unknown"]
        /\ delivered = {}
    BY DEF MarkEffectUnknown, CanMarkUnknown, EffectInv, AnswersAgree, Exit
  <1>2. row' \in Row /\ row'.status = "unknown" /\ row'.owner = row.owner
    BY <1>1 DEF EffectInv, TypeOK, Row, EffectStatus
  <1>3. TypeOK'
    <2>1. lock' \in [Executor -> Call \cup {Unlocked}]
      BY CallHome DEF EffectInv, TypeOK, Exit
    <2> QED
      BY <1>2, <2>1 DEF EffectInv, TypeOK, Exit, PC, Outcome
  <1>4. AtMostOnce' /\ OpenInv' /\ RowInv' /\ AnswersAgree'
    BY <1>1, <1>2 DEF EffectInv, AtMostOnce, OpenInv, RowInv, AnswersAgree, Exit
  <1>5. \A d \in Call : pc[d] # "settled"
    BY <1>1 DEF EffectInv, SettledInv
  <1>6. OneClaimant' /\ ClaimInv' /\ SettledInv'
    BY <1>1, <1>2, <1>5
    DEF EffectInv, TypeOK, OneClaimant, ClaimInv, SettledInv, Exit
  <1> QED
    BY <1>3, <1>4, <1>6 DEF EffectInv

-----------------------------------------------------------------------------
(* The invariant.                                                           *)

LEMMA EffectInvInit == Init => EffectInv
  <1> SUFFICES ASSUME Init PROVE EffectInv
    OBVIOUS
  <1>1. TypeOK
    BY DEF Init, LedgerInit, TypeOK, Row, EffectStatus, PC, Outcome, Call, Unlocked
  <1>2. AtMostOnce /\ OneClaimant /\ OpenInv /\ ClaimInv /\ SettledInv /\ RowInv /\ AnswersAgree
    BY DEF Init, LedgerInit, AtMostOnce, OneClaimant, OpenInv, ClaimInv, SettledInv,
           RowInv, AnswersAgree
  <1> QED
    BY <1>1, <1>2 DEF EffectInv

\* Each of the ledger's and the executor's steps keeps the invariant; the claim
\* and the run of the tool are where it earns its parts.
LEMMA EffectInvStep == EffectInv /\ [Next]_vars => EffectInv'
  <1> SUFFICES ASSUME EffectInv, [Next]_vars PROVE EffectInv'
    OBVIOUS
  <1>1. ASSUME NEW c \in Call, Prepare(c) PROVE EffectInv'
    <2>1. PICK d \in Digest :
             \/ RecordIntent(d) /\ Goto(c, "locking") /\ UNCHANGED delivered
             \/ SameIntent(d) /\ HandleExisting(c, "locking") /\ UNCHANGED row
      BY <1>1 DEF Prepare
    <2>2. CASE RecordIntent(d) /\ Goto(c, "locking") /\ UNCHANGED delivered
      <3>1. /\ row.status = "absent"
            /\ row' \in Row /\ row'.status = "intent_recorded"
            /\ row'.owner = row.owner /\ row'.result = row.result
        BY <2>2 DEF RecordIntent, EffectInv, TypeOK, Row, EffectStatus
      <3>2. UNCHANGED <<executions, alive, delivered, sawOwner, outcome, lock>>
        BY <1>1, <2>2 DEF Prepare, Goto
      <3>3. pc' = [pc EXCEPT ![c] = "locking"]
        BY <2>2 DEF Goto
      <3>4. TypeOK' /\ AtMostOnce' /\ OpenInv' /\ RowInv' /\ AnswersAgree'
        BY <3>1, <3>2, <3>3
        DEF EffectInv, TypeOK, PC, AtMostOnce, OpenInv, RowInv, AnswersAgree
      <3>5. OneClaimant' /\ ClaimInv' /\ SettledInv'
        BY <3>1, <3>2, <3>3
        DEF EffectInv, TypeOK, OneClaimant, ClaimInv, SettledInv, OpenInv
      <3> QED
        BY <3>4, <3>5 DEF EffectInv
    <2>3. CASE SameIntent(d) /\ HandleExisting(c, "locking") /\ UNCHANGED row
      BY <1>1, <2>3, HandleExistingKeeps DEF Prepare
    <2> QED
      BY <2>1, <2>2, <2>3
  <1>2. ASSUME NEW c \in Call, Lock(c) PROVE EffectInv'
    BY <1>2, CallHome, MoveKeeps DEF Lock, EffectInv, TypeOK, PC
  <1>3. ASSUME NEW c \in Call, Recheck(c) PROVE EffectInv'
    BY <1>3, HandleExistingKeeps DEF Recheck
  <1>4. ASSUME NEW c \in Call, MarkStale(c) PROVE EffectInv'
    BY <1>4, MarkKeeps, ExitKeeps DEF MarkStale, EffectInv, TypeOK
  <1>5. ASSUME NEW c \in Call, Claim(c) PROVE EffectInv'
    <2>1. CASE ClaimEffect(Home(c)) /\ Goto(c, "claimed") /\ UNCHANGED delivered
      <3>1. /\ row.status = "intent_recorded"
            /\ row' \in Row /\ row'.status = "executing"
            /\ row'.owner = Home(c) /\ row'.result = row.result
        BY <2>1, CallHome
        DEF ClaimEffect, CanClaim, EffectInv, TypeOK, Row, EffectStatus
      <3>2. UNCHANGED <<executions, alive, delivered, sawOwner, outcome, lock>>
        BY <1>5, <2>1 DEF Claim, Goto
      <3>3. pc' = [pc EXCEPT ![c] = "claimed"]
        BY <2>1 DEF Goto
      <3>4. /\ executions = 0
            /\ \A d \in Call : pc[d] \notin {"claimed", "ran", "settled"}
        BY <3>1 DEF EffectInv, OpenInv
      <3>5. TypeOK' /\ AtMostOnce' /\ OpenInv' /\ RowInv' /\ AnswersAgree'
        BY <3>1, <3>2, <3>3
        DEF EffectInv, TypeOK, PC, AtMostOnce, OpenInv, RowInv, AnswersAgree
      <3>6. OneClaimant' /\ ClaimInv' /\ SettledInv'
        BY <3>1, <3>2, <3>3, <3>4
        DEF EffectInv, TypeOK, OneClaimant, ClaimInv, SettledInv
      <3> QED
        BY <3>5, <3>6 DEF EffectInv
    <2>2. CASE Exit(c, {}) /\ UNCHANGED row
      BY <1>5, <2>2, ExitKeeps DEF Claim, EffectInv, TypeOK
    <2> QED
      BY <1>5, <2>1, <2>2 DEF Claim
  <1>6. ASSUME NEW c \in Call, Execute(c) PROVE EffectInv'
    <2>1. /\ executions = 0 /\ executions' = 1
          /\ row.status \in {"executing", "unknown"}
      BY <1>6 DEF Execute, EffectInv, ClaimInv
    <2>2. /\ pc' = [pc EXCEPT ![c] = "ran"]
          /\ outcome' \in [Call -> Outcome]
          /\ \A d \in Call \ {c} : outcome'[d] = outcome[d]
          /\ UNCHANGED <<row, sawOwner, lock, alive, delivered>>
      BY <1>6 DEF Execute, EffectInv, TypeOK, Outcome
    <2>3. TypeOK' /\ AtMostOnce' /\ OpenInv' /\ RowInv' /\ AnswersAgree'
      BY <2>1, <2>2 DEF EffectInv, TypeOK, PC, AtMostOnce, OpenInv, RowInv, AnswersAgree
    <2>4. OneClaimant' /\ ClaimInv' /\ SettledInv'
      BY <1>6, <2>1, <2>2
      DEF Execute, EffectInv, TypeOK, OneClaimant, ClaimInv, SettledInv
    <2> QED
      BY <2>3, <2>4 DEF EffectInv
  <1>7. ASSUME NEW c \in Call, Settle(c) PROVE EffectInv'
    <2>1. CASE SettleEffect(Home(c), outcome[c]) /\ Goto(c, "settled") /\ UNCHANGED delivered
      <3>1. outcome[c] \in Result /\ executions = 1 /\ row.status = "executing"
        BY <1>7, <2>1 DEF Settle, SettleEffect, CanSettle, EffectInv, ClaimInv
      <3>2. /\ row' \in Row /\ row'.result = outcome[c]
            /\ row'.status = IF outcome[c] = "success" THEN "committed" ELSE "failed"
        BY <2>1, <3>1 DEF SettleEffect, EffectInv, TypeOK, Row, EffectStatus, Result
      <3>3. UNCHANGED <<executions, alive, delivered, sawOwner, outcome, lock>>
        BY <1>7, <2>1 DEF Settle, Goto
      <3>4. pc' = [pc EXCEPT ![c] = "settled"]
        BY <2>1 DEF Goto
      <3>5. /\ delivered = {}
            /\ \A d \in Call \ {c} : pc[d] \notin {"claimed", "ran", "settled"}
        BY <1>7, <3>1 DEF Settle, EffectInv, AnswersAgree, OneClaimant, SettledInv
      <3>6. TypeOK' /\ AtMostOnce' /\ OpenInv' /\ RowInv' /\ AnswersAgree'
        BY <3>1, <3>2, <3>3, <3>4, <3>5
        DEF EffectInv, TypeOK, PC, AtMostOnce, OpenInv, RowInv, AnswersAgree, Result
      <3>7. OneClaimant' /\ ClaimInv' /\ SettledInv'
        BY <3>1, <3>2, <3>3, <3>4, <3>5
        DEF EffectInv, TypeOK, OneClaimant, ClaimInv, SettledInv
      <3> QED
        BY <3>6, <3>7 DEF EffectInv
    <2>2. CASE Exit(c, {}) /\ UNCHANGED row
      BY <1>7, <2>2, ExitKeeps DEF Settle, EffectInv, TypeOK
    <2> QED
      BY <1>7, <2>1, <2>2 DEF Settle
  <1>8. ASSUME NEW c \in Call, MarkFailed(c) PROVE EffectInv'
    BY <1>8, MarkKeeps, ExitKeeps DEF MarkFailed, EffectInv, TypeOK
  <1>9. ASSUME NEW c \in Call, Return(c) PROVE EffectInv'
    <2>1. row.status \in {"committed", "failed"} /\ row.result = outcome[c]
      BY <1>9 DEF Return, EffectInv, SettledInv
    <2> QED
      BY <1>9, <2>1, ExitKeeps DEF Return, EffectInv, TypeOK
  <1>10. ASSUME NEW c \in Call, Abort(c) PROVE EffectInv'
    BY <1>10, ExitKeeps DEF Abort, EffectInv, TypeOK
  <1>11. ASSUME NEW e \in Executor, Crash(e) PROVE EffectInv'
    <2>1. /\ \A c \in Call : pc'[c] = pc[c] \/ pc'[c] = "dead"
          /\ UNCHANGED <<row, sawOwner, outcome, executions, delivered>>
      BY <1>11 DEF Crash
    <2>2. TypeOK'
      BY <1>11 DEF Crash, EffectInv, TypeOK, PC
    <2>3. AtMostOnce' /\ OneClaimant' /\ OpenInv' /\ ClaimInv' /\ SettledInv'
          /\ RowInv' /\ AnswersAgree'
      BY <2>1 DEF EffectInv, AtMostOnce, OneClaimant, OpenInv, ClaimInv, SettledInv,
                  RowInv, AnswersAgree
    <2> QED
      BY <2>2, <2>3 DEF EffectInv
  <1>12. CASE UNCHANGED vars
    BY <1>12 DEF vars, EffectInv, TypeOK, AtMostOnce, OneClaimant, OpenInv, ClaimInv,
                 SettledInv, RowInv, AnswersAgree
  <1> QED
    BY <1>1, <1>2, <1>3, <1>4, <1>5, <1>6, <1>7, <1>8, <1>9, <1>10, <1>11, <1>12
    DEF Next, Step

\* EffectInv holds in every state of every execution, for any number of
\* executors, concurrent calls and digests.
THEOREM EffectInvariant == Spec => []EffectInv
  BY EffectInvInit, EffectInvStep, PTL DEF Spec

-----------------------------------------------------------------------------
(* What follows.                                                            *)

\* The state and the row always have their types.
THEOREM EffectTypes == Spec => []TypeOK
  BY EffectInvariant, PTL DEF EffectInv

\* The tool acts at most once, however many executors are asked for the call,
\* crash or are cancelled.
THEOREM ActsAtMostOnce == Spec => []AtMostOnce
  BY EffectInvariant, PTL DEF EffectInv

\* Never are two calls, in any process, past the claim at once.
THEOREM OneClaimantAtATime == Spec => []OneClaimant
  BY EffectInvariant, PTL DEF EffectInv

\* All answers ever given are the one on record.
THEOREM AllAnswersAgree == Spec => []AnswersAgree
  BY EffectInvariant, PTL DEF EffectInv

\* The record never claims an outcome of a tool that did not run, nor hides a
\* run behind a row that was never claimed.
THEOREM RecordNeverLies == Spec => []RecordIsTruthful
  <1>1. EffectInv => RecordIsTruthful
    BY DEF EffectInv, RowInv, OpenInv, RecordIsTruthful
  <1> QED
    BY <1>1, EffectInvariant, PTL

\* A settled effect keeps its status, owner and result for good.
THEOREM SettledForGood == Spec => SettledNeverChanges
  <1>1. EffectInv /\ [Next]_vars => [(row.status \in Settled) => row' = row]_vars
    <2> SUFFICES ASSUME EffectInv, Next, row.status \in Settled PROVE row' = row
      BY DEF vars
    <2>1. row.status \notin {"absent", "intent_recorded", "executing"}
      BY DEF Settled
    <2> QED
      BY <2>1
      DEF Next, Step, Prepare, Lock, Recheck, MarkStale, Claim, Execute, Settle,
          MarkFailed, Return, Abort, Crash, RecordIntent, ClaimEffect, CanClaim,
          SettleEffect, CanSettle, MarkEffectUnknown, CanMarkUnknown
  <1> QED
    BY <1>1, EffectInvariant, PTL DEF Spec, SettledNeverChanges

-----------------------------------------------------------------------------
(* Refinement.                                                              *)

\* A step that leaves row, executions and delivered alone is a stutter of the
\* one effect the callers see.
LEMMA Invisible ==
    ASSUME UNCHANGED <<row, executions, delivered>>
    PROVE  UNCHANGED Abstract!vars
  BY DEF Abstract!vars

\* A call that ends either says nothing or repeats the answer on record.
LEMMA ExitAnswers ==
    ASSUME EffectInv,
           NEW c \in Call, NEW results,
           Exit(c, results),
           UNCHANGED <<row, executions>>,
           results = {} \/ (row.status \in {"committed", "failed"} /\ results = {row.result})
    PROVE  [Abstract!Next]_(Abstract!vars)
  <1>1. CASE results = {}
    BY <1>1, Invisible DEF Exit
  <1>2. CASE row.status \in {"committed", "failed"} /\ results = {row.result}
    <2>1. delivered \subseteq results
      BY <1>2 DEF EffectInv, AnswersAgree
    <2>2. delivered' = results
      BY <2>1 DEF Exit
    <2>3. results = IF row.status = "committed" THEN {"success"} ELSE {"failure"}
      BY <1>2 DEF EffectInv, RowInv
    <2> QED
      BY <1>2, <2>2, <2>3 DEF Abstract!Next, Abstract!Reply
  <1> QED
    BY <1>1, <1>2

LEMMA MarkLoses ==
    ASSUME EffectInv, NEW c \in Call, NEW owner,
           MarkEffectUnknown(owner), Exit(c, {}), UNCHANGED executions
    PROVE  Abstract!Lose
  <1>1. row.status = "executing" /\ row'.status = "unknown"
    BY DEF MarkEffectUnknown, CanMarkUnknown, EffectInv, TypeOK, Row
  <1> QED
    BY <1>1 DEF Abstract!Lose, Exit

\* Every step of the executors is a step of the one effect or invisible to it.
LEMMA EffectSimulation ==
    EffectInv /\ [Next]_vars => [Abstract!Next]_(Abstract!vars)
  <1> SUFFICES ASSUME EffectInv, [Next]_vars
               PROVE  [Abstract!Next]_(Abstract!vars)
    OBVIOUS
  <1>1. ASSUME NEW c \in Call, NEW next,
               HandleExisting(c, next), UNCHANGED <<row, executions>>
        PROVE  [Abstract!Next]_(Abstract!vars)
    <2>1. CASE row.status \in {"committed", "failed"} /\ Exit(c, {row.result})
      BY <1>1, <2>1, ExitAnswers
    <2>2. CASE Exit(c, {})
      BY <1>1, <2>2, ExitAnswers
    <2>3. CASE UNCHANGED delivered
      BY <1>1, <2>3, Invisible
    <2> QED
      BY <1>1, <2>1, <2>2, <2>3 DEF HandleExisting
  <1>2. ASSUME NEW c \in Call, Prepare(c) PROVE [Abstract!Next]_(Abstract!vars)
    <2>1. PICK d \in Digest :
             \/ RecordIntent(d) /\ UNCHANGED delivered
             \/ HandleExisting(c, "locking") /\ UNCHANGED row
      BY <1>2 DEF Prepare
    <2>2. CASE RecordIntent(d) /\ UNCHANGED delivered
      <3>1. row.status = "absent" /\ row'.status = "intent_recorded"
        BY <2>2 DEF RecordIntent, EffectInv, TypeOK, Row
      <3> QED
        BY <1>2, <2>2, <3>1 DEF Prepare, Abstract!vars
    <2> QED
      BY <1>1, <1>2, <2>1, <2>2 DEF Prepare
  <1>3. ASSUME NEW c \in Call, Lock(c) PROVE [Abstract!Next]_(Abstract!vars)
    BY <1>3, Invisible DEF Lock
  <1>4. ASSUME NEW c \in Call, Recheck(c) PROVE [Abstract!Next]_(Abstract!vars)
    BY <1>1, <1>4 DEF Recheck
  <1>5. ASSUME NEW c \in Call, MarkStale(c) PROVE [Abstract!Next]_(Abstract!vars)
    BY <1>5, MarkLoses, ExitAnswers DEF MarkStale, Abstract!Next
  <1>6. ASSUME NEW c \in Call, Claim(c) PROVE [Abstract!Next]_(Abstract!vars)
    <2>1. CASE ClaimEffect(Home(c)) /\ Goto(c, "claimed") /\ UNCHANGED delivered
      <3>1. row.status = "intent_recorded" /\ row'.status = "executing"
        BY <2>1 DEF ClaimEffect, CanClaim, EffectInv, TypeOK, Row
      <3> QED
        BY <1>6, <2>1, <3>1 DEF Claim, Abstract!Next, Abstract!Claim
    <2>2. CASE Exit(c, {}) /\ UNCHANGED row
      BY <1>6, <2>2, ExitAnswers DEF Claim
    <2> QED
      BY <1>6, <2>1, <2>2 DEF Claim
  <1>7. ASSUME NEW c \in Call, Execute(c) PROVE [Abstract!Next]_(Abstract!vars)
    <2>1. executions = 0 /\ row.status \in {"executing", "unknown"}
      BY <1>7 DEF Execute, EffectInv, ClaimInv
    <2> QED
      BY <1>7, <2>1 DEF Execute, Abstract!Next, Abstract!Perform
  <1>8. ASSUME NEW c \in Call, Settle(c) PROVE [Abstract!Next]_(Abstract!vars)
    <2>1. CASE SettleEffect(Home(c), outcome[c]) /\ Goto(c, "settled") /\ UNCHANGED delivered
      <3>1. /\ row.status = "executing" /\ executions = 1
            /\ row'.status \in {"committed", "failed"}
        BY <1>8, <2>1
        DEF Settle, SettleEffect, CanSettle, EffectInv, TypeOK, Row, ClaimInv
      <3> QED
        BY <1>8, <2>1, <3>1 DEF Settle, Abstract!Next, Abstract!Settle
    <2>2. CASE Exit(c, {}) /\ UNCHANGED row
      BY <1>8, <2>2, ExitAnswers DEF Settle
    <2> QED
      BY <1>8, <2>1, <2>2 DEF Settle
  <1>9. ASSUME NEW c \in Call, MarkFailed(c) PROVE [Abstract!Next]_(Abstract!vars)
    BY <1>9, MarkLoses, ExitAnswers DEF MarkFailed, Abstract!Next
  <1>10. ASSUME NEW c \in Call, Return(c) PROVE [Abstract!Next]_(Abstract!vars)
    <2>1. row.status \in {"committed", "failed"} /\ row.result = outcome[c]
      BY <1>10 DEF Return, EffectInv, SettledInv
    <2> QED
      BY <1>10, <2>1, ExitAnswers DEF Return
  <1>11. ASSUME NEW c \in Call, Abort(c) PROVE [Abstract!Next]_(Abstract!vars)
    BY <1>11, ExitAnswers DEF Abort
  <1>12. ASSUME NEW e \in Executor, Crash(e) PROVE [Abstract!Next]_(Abstract!vars)
    BY <1>12, Invisible DEF Crash
  <1>13. CASE UNCHANGED vars
    BY <1>13, Invisible DEF vars
  <1> QED
    BY <1>2, <1>3, <1>4, <1>5, <1>6, <1>7, <1>8, <1>9, <1>10, <1>11, <1>12, <1>13
    DEF Next, Step

\* The executors together implement the effect that happens at most once and
\* gives one answer.
THEOREM EffectRefinement == Spec => ImplementsEffectOnce
  <1>1. Init => Abstract!Init
    BY DEF Init, LedgerInit, Abstract!Init
  <1> QED
    BY <1>1, EffectSimulation, EffectInvariant, PTL
    DEF Spec, ImplementsEffectOnce, Abstract!Spec
=============================================================================
