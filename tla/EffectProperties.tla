-------------------------- MODULE EffectProperties --------------------------
(***************************************************************************)
(* What the intent-claim-settle protocol of IdempotentToolCallExecutor is  *)
(* for, stated over the state of IdempotentExecutor.                       *)
(***************************************************************************)
EXTENDS IdempotentExecutor

TypeOK ==
    /\ row \in Row
    /\ pc \in [Call -> PC]
    /\ sawOwner \in [Call -> Executor \cup {NoOne}]
    /\ outcome \in [Call -> Outcome]
    /\ lock \in [Executor -> Call \cup {Unlocked}]
    /\ alive \subseteq Executor
    /\ executions \in Nat
    /\ delivered \subseteq Result

\* The tool acts on the world at most once for one tool call, whichever of the
\* executors, before or after a crash, is asked for it and however often
\* (claim is a compare-and-set from INTENT_RECORDED, and no status leads back).
AtMostOnce == executions <= 1

\* Every answer an agent loop was ever given is the answer on record: a row
\* that has answered anybody is committed or failed with that very result, so
\* a replayed call can never be told anything else.
AnswersAgree ==
    \A r \in delivered :
        /\ row.result = r
        /\ row.status = IF r = "success" THEN "committed" ELSE "failed"

\* A row claims an outcome only if the tool really ran, and a row that never
\* reached EXECUTING guarantees it did not: a crash leaves no false record.
RecordIsTruthful ==
    /\ row.status \in {"committed", "failed"} => executions = 1
    /\ row.status \in {"absent", "intent_recorded"} => executions = 0

\* Once an effect is settled nothing changes its row, not even a late answer
\* from an executor that was presumed stale and marked UNKNOWN.
SettledNeverChanges == [][(row.status \in Settled) => row' = row]_vars

\* The lock of one executor and the claim in the database serialize the calls:
\* never are two calls, in any process, past the claim at once.
OneClaimant ==
    \A c, d \in Call :
        /\ pc[c] \in {"claimed", "ran"}
        /\ pc[d] \in {"claimed", "ran"}
        => c = d

\* The one effect the callers see.
Abstract == INSTANCE EffectOnce WITH
    stage     <- CASE row.status \in {"absent", "intent_recorded"} -> "open"
                   [] row.status = "executing" -> "claimed"
                   [] row.status = "committed" -> "succeeded"
                   [] row.status = "failed"    -> "failed"
                   [] OTHER                    -> "lost",
    performed <- executions,
    answers   <- delivered

\* All executors together behave as one that acts at most once and then
\* repeats its answer.
ImplementsEffectOnce == Abstract!Spec

-----------------------------------------------------------------------------
(* Why it works: where a call stands, what the row says and what happened   *)
(* in the world fit together.                                               *)

\* Before the claim nothing has happened and nobody is past it.
OpenInv ==
    row.status \in {"absent", "intent_recorded"} =>
        /\ executions = 0
        /\ row.result = Nothing
        /\ \A c \in Call : pc[c] \notin {"claimed", "ran", "settled"}

\* A call that is about to run the tool, or has run it, holds the one claim
\* there ever was, although its row may have been marked UNKNOWN since.
ClaimInv ==
    \A c \in Call : pc[c] \in {"claimed", "ran"} =>
        /\ row.status \in {"executing", "unknown"}
        /\ row.owner = Home(c)
        /\ executions = IF pc[c] = "ran" THEN 1 ELSE 0

\* A call about to return its result has it on record.
SettledInv ==
    \A c \in Call : pc[c] = "settled" =>
        /\ outcome[c] \in Result
        /\ row.result = outcome[c]
        /\ row.status = IF outcome[c] = "success" THEN "committed" ELSE "failed"

\* A settled row holds the result its status names, of a tool that ran.
RowInv ==
    row.status \in {"committed", "failed"} =>
        /\ row.result = IF row.status = "committed" THEN "success" ELSE "failure"
        /\ executions = 1

\* The inductive invariant: at every step of every call, row, claim and world
\* agree, whatever crashed or was cancelled in between.
EffectInv ==
    /\ TypeOK
    /\ AtMostOnce
    /\ OneClaimant
    /\ OpenInv
    /\ ClaimInv
    /\ SettledInv
    /\ RowInv
    /\ AnswersAgree

-----------------------------------------------------------------------------
\* No call hangs: whatever the other calls do, even when they are cancelled
\* while they hold the lock, a call that has begun ends.
CallsReturn ==
    \A c \in Call : pc[c] # "idle" ~> pc[c] \in {"idle", "dead"}
=============================================================================
