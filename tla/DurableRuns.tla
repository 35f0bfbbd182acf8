----------------------------- MODULE DurableRuns -----------------------------
(***************************************************************************)
(* The durable_runs row of one run and its run_checkpoints, with the       *)
(* transactions of DurableRunRepository (durable/repository.py).  Each     *)
(* transaction is atomic (BEGIN IMMEDIATE).                                *)
(*                                                                         *)
(* A checkpoint's state_json is abstracted to what tells two histories     *)
(* apart: which checkpoint the saved state continues (base), the attempt   *)
(* number inside the state, and the token it was written under.            *)
(***************************************************************************)
EXTENDS RunLeases

VARIABLES
    status,        \* durable_runs.status
    stateVersion,  \* durable_runs.state_version
    attempt,       \* durable_runs.attempt
    checkpoints    \* the rows of run_checkpoints by sequence

runVars == <<status, stateVersion, attempt, checkpoints>>

Waiting  == {"created", "paused", "waiting_approval"}
Status   == Waiting \cup {"running", "completed", "failed", "cancelled"}
Terminal == {"completed", "cancelled"}

Checkpoint == [base : Nat, attempt : Nat, token : Nat]

AllowedTransitions ==
    [s \in Status |->
        CASE s \in Waiting   -> {"running", "cancelled"}
          [] s = "running"   -> Status \ {"created", "running"}
          [] OTHER           -> {}]

Cancellable == Waiting \cup {"running"}

Latest == Len(checkpoints)

\* create_run with the first checkpoint saved, as every caller leaves a run
\* before it is resumed; state_version starts at 0 and that save makes it 1.
RunInit ==
    /\ status \in Waiting \cup {"running", "failed"}
    /\ checkpoints = <<[base |-> 0, attempt |-> 1, token |-> NoToken]>>
    /\ stateVersion = 1
    /\ attempt = 1

-----------------------------------------------------------------------------
CanTransition(expected, target) ==
    /\ target \in AllowedTransitions[expected]
    /\ status = expected

\* _transition_status_sync without a lease.
TransitionStatus(expected, target) ==
    /\ CanTransition(expected, target)
    /\ status' = target
    /\ UNCHANGED <<stateVersion, attempt, checkpoints>>

\* _transition_status_sync with a lease and checked_at.
LeasedTransition(expected, target, t, o, checkedAt) ==
    /\ LeaseWritable(t, o, checkedAt)
    /\ TransitionStatus(expected, target)

\* Mutations: a save that skips the version, or the status.
CanSaveAnyVersion(version, t, o, checkedAt) ==
    status = "running" /\ LeaseWritable(t, o, checkedAt)
CanSaveAnyStatus(version, t, o, checkedAt) ==
    LeaseWritable(t, o, checkedAt) /\ stateVersion = version

CanSave(version, t, o, checkedAt) ==
    /\ status = "running"
    /\ LeaseWritable(t, o, checkedAt)
    /\ stateVersion = version

\* _save_checkpoint_sync as the controller calls it: expected_status RUNNING,
\* a lease, and the version the state was read at.  The row takes the attempt
\* number of the state it is given.
SaveCheckpoint(version, base, t, o, checkedAt) ==
    /\ CanSave(version, t, o, checkedAt)
    /\ LET state == [base    |-> base,
                     attempt |-> checkpoints[base].attempt,
                     token   |-> t]
       IN /\ checkpoints' = Append(checkpoints, state)
          /\ attempt' = state.attempt
    /\ stateVersion' = stateVersion + 1
    /\ UNCHANGED status

\* Mutation: a retry that skips the version.
CanRetryAnyVersion(version, t, o, checkedAt) ==
    status = "failed" /\ LeaseWritable(t, o, checkedAt)

CanRetry(version, t, o, checkedAt) ==
    /\ status = "failed"
    /\ LeaseWritable(t, o, checkedAt)
    /\ stateVersion = version

\* Mutations: a retry that does not count the version up, one that leaves the
\* old attempt in the checkpoint, and one that leaves it everywhere.
BeginRetryWithoutVersion(version, base, t, o, checkedAt) ==
    /\ CanRetry(version, t, o, checkedAt)
    /\ checkpoints' = Append(checkpoints,
                             [base |-> base, attempt |-> attempt + 1, token |-> t])
    /\ attempt' = attempt + 1
    /\ status' = "running"
    /\ UNCHANGED stateVersion
BeginRetryOldState(version, base, t, o, checkedAt) ==
    /\ CanRetry(version, t, o, checkedAt)
    /\ checkpoints' = Append(checkpoints,
                             [base |-> base, attempt |-> attempt, token |-> t])
    /\ attempt' = attempt + 1
    /\ stateVersion' = stateVersion + 1
    /\ status' = "running"
BeginRetrySameAttempt(version, base, t, o, checkedAt) ==
    /\ CanRetry(version, t, o, checkedAt)
    /\ checkpoints' = Append(checkpoints,
                             [base |-> base, attempt |-> attempt, token |-> t])
    /\ stateVersion' = stateVersion + 1
    /\ status' = "running"
    /\ UNCHANGED attempt

\* _begin_retry_sync: back to RUNNING, the next attempt, and a checkpoint of
\* the loaded state that carries the new attempt number, all in one step.
BeginRetry(version, base, t, o, checkedAt) ==
    /\ CanRetry(version, t, o, checkedAt)
    /\ checkpoints' = Append(checkpoints,
                             [base |-> base, attempt |-> attempt + 1, token |-> t])
    /\ attempt' = attempt + 1
    /\ stateVersion' = stateVersion + 1
    /\ status' = "running"

\* _cancel_run_sync: no lease; cancelling does not wait for the owner.
CancelRun ==
    /\ status \in Cancellable
    /\ status' = "cancelled"
    /\ UNCHANGED <<stateVersion, attempt, checkpoints>>
=============================================================================
