---------------------------- MODULE RunProperties ----------------------------
(***************************************************************************)
(* What the leases, the versioned checkpoints and the controller are for,  *)
(* stated over the state of RunController.                                 *)
(***************************************************************************)
EXTENDS RunController

TypeOK ==
    /\ clock \in Nat
    /\ leases \in Seq(LeaseRow)
    /\ status \in Status
    /\ stateVersion \in Nat
    /\ attempt \in Nat
    /\ checkpoints \in Seq(Checkpoint)
    /\ pc \in [Owner -> PC]
    /\ readStatus \in [Owner -> Status]
    /\ version \in [Owner -> Nat]
    /\ base \in [Owner -> Nat]
    /\ token \in [Owner -> Nat]
    /\ since \in [Owner -> Nat]
    /\ pauses \in Nat

-----------------------------------------------------------------------------
(* Leases.                                                                  *)

\* At any time at most one lease of the run is in force, the newest one: the
\* rows before it are all released (LeaseManager.acquire, takeover_expired and
\* the partial unique index of run_leases).
OneOwner == \A t \in ActiveTokens : t = Len(leases)

\* The audit trail of ownership: every lease that was taken over names exactly
\* one successor, the next row, and no other lease names a predecessor.
TakeoverChain ==
    \A t \in Token :
        /\ leases[t].reason = "expired_takeover"
              <=> t + 1 \in Token /\ leases[t + 1].predecessor = t
        /\ leases[t].predecessor # NoToken => leases[t].predecessor = t - 1

\* A lease is taken from its owner only once it has run out by the real clock,
\* although takeover_expired decides on a time sampled before its transaction.
TakenOnlyWhenExpired ==
    [][\A t \in Token :
          leases[t].reason # "expired_takeover" /\ leases'[t].reason = "expired_takeover"
              => leases[t].expires <= clock]_vars

\* Fencing: once a later lease has written a checkpoint no earlier lease can,
\* so the tokens in the history never step back (_assert_lease_write inside
\* _save_checkpoint_sync and _begin_retry_sync).
Fenced ==
    \A i, j \in DOMAIN checkpoints :
        i <= j => checkpoints[i].token <= checkpoints[j].token

-----------------------------------------------------------------------------
(* The history.                                                             *)

\* No lost update: every checkpoint continues the one just before it, however
\* resumes, takeovers, retries and stale writers interleave.
LinearHistory ==
    \A i \in DOMAIN checkpoints : checkpoints[i].base = i - 1

\* state_version counts the checkpoints, and the run row and the newest
\* checkpoint agree on the attempt, though different statements write them
\* (attempt = ? in save_checkpoint, attempt + 1 in begin_retry).
VersionedHistory ==
    /\ stateVersion = Latest
    /\ attempt = checkpoints[Latest].attempt

\* A completed or cancelled run is final: no status, no checkpoint and no
\* attempt changes afterwards, whatever invocations are still under way.
TerminalIsFinal == [][(status \in Terminal) => UNCHANGED runVars]_vars

\* Two callers that retry the same failure produce one new attempt: the
\* attempt goes up only as the run leaves FAILED, and by one.
OneAttemptPerFailure ==
    [][/\ attempt' # attempt
              => status = "failed" /\ status' = "running" /\ attempt' = attempt + 1
       /\ status = "failed" /\ status' # "failed" => attempt' = attempt + 1]_vars

\* The run as its clients see it.
AbstractPhase == IF status \in Waiting THEN "waiting" ELSE status

AbstractLog ==
    [i \in DOMAIN checkpoints |-> [continues |-> checkpoints[i].base,
                                   attempt   |-> checkpoints[i].attempt]]

Abstract == INSTANCE RunLog WITH phase <- AbstractPhase, log <- AbstractLog

\* Without external pauses the controllers, leases, versions and crashes
\* together implement the single-writer log.
ImplementsRunLog == Abstract!Spec

-----------------------------------------------------------------------------
(* Why it works: the inductive invariants.                                  *)

Leased == {"starting", "retrying", "refetching", "boundary", "working", "saving",
           "writing", "completing", "committing", "returning", "failing",
           "abandoning", "releasing"}

Loaded == Leased \cup {"acquiring", "taking"}

\* A controller past _acquire_or_takeover has a lease row of its own; with
\* OneOwner, whose lease is in force is then the only one whose writes pass.
LeaseInv ==
    /\ OneOwner
    /\ TakeoverChain
    /\ \A p \in Owner : pc[p] \in Leased =>
          token[p] \in Token /\ leases[token[p]].owner = p

\* No checkpoint was written under a lease yet to come, and a loaded state is
\* that of some checkpoint there is.
SaveInv ==
    /\ VersionedHistory
    /\ Fenced
    /\ Latest >= 1
    /\ \A i \in DOMAIN checkpoints : checkpoints[i].token <= Len(leases)
    /\ \A p \in Owner : pc[p] \in Loaded => base[p] \in 1..Latest

\* The state p holds belongs to the version it will save against, unless that
\* version is out of date or p's lease is, so that the save is refused.
SafeToSave(p) ==
    \/ base[p] = version[p]
    \/ version[p] < stateVersion
    \/ pc[p] \in Leased /\ token[p] \notin ActiveTokens

\* Needs that nobody sets a running run aside: then a waiting run has only its
\* first checkpoint, and the fresh version resume takes from its transition
\* cannot outrun the state it loaded before.
FreshInv ==
    /\ LinearHistory
    /\ pauses = 0
    /\ status \in Waiting => Latest = 1
    /\ \A p \in Owner :
          /\ version[p] <= stateVersion
          /\ pc[p] \in Loaded => SafeToSave(p)
          /\ pc[p] = "refetching" => base[p] = Latest \/ token[p] \notin ActiveTokens

-----------------------------------------------------------------------------
(* What the documents claim and the code does not keep.                     *)

\* "Recovery does not replay persisted model decisions or tool results"
\* (docs/agent-plans/2026-08-08-phase-2-controllable-coding-agent-plan.md,
\* Task 9, Acceptance): a controller that holds the lease in force begins work
\* only on the newest checkpoint.
NoReplayOfPersistedWork ==
    [][\A p \in Owner :
          /\ pc[p] # "working" /\ pc'[p] = "working"
          /\ token[p] \in ActiveTokens
          => base[p] = Latest]_vars

-----------------------------------------------------------------------------
(* Liveness.                                                                *)

\* Once a run is completed or cancelled every controller still at work on it
\* stops by itself, and none starts again.
TerminalQuiesces ==
    status \in Terminal ~> [](\A p \in Owner : pc[p] = "idle")
=============================================================================
