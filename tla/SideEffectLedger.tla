-------------------------- MODULE SideEffectLedger --------------------------
(***************************************************************************)
(* One row of side_effects, the record of one tool call of a run, and the  *)
(* compare-and-set transactions of SideEffectLedger on it                  *)
(* (durable/effects.py over durable/repository.py).  The row's identity    *)
(* (run_id, tool_call_id, tool_name) is unique, and no transaction touches *)
(* two rows, so one row is enough.  The digest stands for the arguments of *)
(* the call, which the identity does not determine.                        *)
(***************************************************************************)
EXTENDS Naturals

CONSTANTS
    Executor,  \* the execution_owner_ids, one per executor object
    Digest     \* the intent digests that callers may present

VARIABLE row   \* [status, owner, digest, result]

NoOne == "no one"
Nothing == "nothing"

EffectStatus == {"absent", "intent_recorded", "executing",
                 "committed", "failed", "unknown", "rolled_back"}

\* The statuses the ledger never leaves.
Settled == {"committed", "failed", "unknown", "rolled_back"}

Result == {"success", "failure"}

Row == [status : EffectStatus,
        owner  : Executor \cup {NoOne},
        digest : Digest \cup {Nothing},
        result : Result \cup {Nothing}]

LedgerInit ==
    row = [status |-> "absent", owner |-> NoOne, digest |-> Nothing, result |-> Nothing]

\* _prepare_side_effect_sync: insert the intent, or hand back the row there is
\* when it records the same intent.
RecordIntent(d) ==
    /\ row.status = "absent"
    /\ row' = [row EXCEPT !.status = "intent_recorded", !.digest = d]

SameIntent(d) == row.status # "absent" /\ row.digest = d

\* _transition_side_effect_sync, one operator for each target status; the
\* status an operator requires is the caller's expected_status.
\* Mutation: an executing row can be claimed as well.
CanClaimAgain == row.status \in {"intent_recorded", "executing"}

CanClaim == row.status = "intent_recorded"

\* Mutation: the claim does not write its owner.
ClaimEffectOwnerless(e) ==
    /\ CanClaim
    /\ row' = [row EXCEPT !.status = "executing"]

ClaimEffect(e) ==
    /\ CanClaim
    /\ row' = [row EXCEPT !.status = "executing", !.owner = e]

\* Mutation: an effect marked unknown can still be settled.
CanSettleLate(e) == row.status \in {"executing", "unknown"} /\ row.owner = e

\* commit and fail: only the owner that claimed it settles the effect.
CanSettle(e) == row.status = "executing" /\ row.owner = e

\* Mutation: the result is written where the status belongs.
SettleEffectConfused(e, result) ==
    /\ CanSettle(e)
    /\ row' = [row EXCEPT !.status = result]

SettleEffect(e, result) ==
    /\ CanSettle(e)
    /\ row' = [row EXCEPT !.status = IF result = "success" THEN "committed" ELSE "failed",
                          !.result = result]

\* mark_effect_rolled_back: the owner's tool has undone what it did.
RollBackEffect(e) ==
    /\ CanSettle(e)
    /\ row' = [row EXCEPT !.status = "rolled_back", !.result = "failure"]

\* Mutation: the row's status is not compared.
CanMarkUnknownAnytime(owner) == row.owner = owner

\* mark_unknown: by whoever saw this owner executing.
CanMarkUnknown(owner) == row.status = "executing" /\ row.owner = owner

\* Mutations: a stale effect is set up for another try, or declared failed.
MarkEffectRetryable(owner) ==
    /\ CanMarkUnknown(owner)
    /\ row' = [row EXCEPT !.status = "intent_recorded"]
MarkEffectFailed(owner) ==
    /\ CanMarkUnknown(owner)
    /\ row' = [row EXCEPT !.status = "failed", !.result = "failure"]

MarkEffectUnknown(owner) ==
    /\ CanMarkUnknown(owner)
    /\ row' = [row EXCEPT !.status = "unknown"]
=============================================================================
