---------------------------- MODULE RunController ----------------------------
(***************************************************************************)
(* DurableRunController (durable/controller.py) driven by several callers  *)
(* at once on one run.  A controller invocation is a coroutine whose calls *)
(* into the database are separate transactions, so every one of them is a  *)
(* step of its own, and other invocations, a cancel, the clock and crashes *)
(* come between any two of them.                                           *)
(*                                                                         *)
(* A call that samples the clock and then opens its transaction may be     *)
(* delayed in between: the time it works with is any value from since[p],  *)
(* the clock when the call began, up to the present one.                   *)
(*                                                                         *)
(* The agent loop is abstracted to what the controller sees of it: check   *)
(* for cancellation, do a unit of work (a model request or a tool call),   *)
(* then save a checkpoint, raise, or return after the last save.           *)
(***************************************************************************)
EXTENDS DurableRuns, FiniteSets

CONSTANTS
    MaxClock,        \* bound: ticks of the clock
    MaxLeases,       \* bound: rows of run_leases
    MaxCheckpoints,  \* bound: checkpoints the loop may leave
    MaxPauses        \* bound: external RUNNING -> PAUSED transitions

ASSUME BoundsAssumption ==
    /\ MaxClock \in Nat
    /\ MaxLeases \in Nat
    /\ MaxCheckpoints \in Nat
    /\ MaxPauses \in Nat

VARIABLES
    pc,          \* where p's invocation is
    readStatus,  \* the status get_run returned to it
    version,     \* run.state_version, later state_version_holder[0]
    base,        \* the checkpoint its in-memory state continues
    token,       \* lease_holder[0]
    since,       \* when the call about to sample the clock began, or checked_at
    pauses       \* external pauses so far

procVars == <<pc, readStatus, version, base, token, since>>
vars == <<clock, leases, runVars, procVars, pauses>>

PC == {"idle", "loading", "acquiring", "taking", "starting", "retrying",
       "refetching", "boundary", "working", "saving", "writing", "completing",
       "committing", "returning", "failing", "abandoning", "releasing"}

\* The steps whose call samples the clock.
Sampling == {"acquiring", "taking", "starting", "retrying",
             "saving", "completing", "failing"}

Goto(p, step) ==
    /\ pc' = [pc EXCEPT ![p] = step]
    /\ since' = [since EXCEPT ![p] = IF step \in Sampling THEN clock ELSE 0]

\* As Goto, but keeping checkedAt for the write that comes next.
GotoWith(p, step, checkedAt) ==
    /\ pc' = [pc EXCEPT ![p] = step]
    /\ since' = [since EXCEPT ![p] = checkedAt]

\* The invocation returned or raised to its caller; its locals are gone.
Exit(p) ==
    /\ pc' = [pc EXCEPT ![p] = "idle"]
    /\ readStatus' = [readStatus EXCEPT ![p] = "created"]
    /\ version' = [version EXCEPT ![p] = 0]
    /\ base' = [base EXCEPT ![p] = 0]
    /\ token' = [token EXCEPT ![p] = NoToken]
    /\ since' = [since EXCEPT ![p] = 0]

Init ==
    /\ RunInit
    /\ clock = 0
    /\ leases = <<>>
    /\ pc = [p \in Owner |-> "idle"]
    /\ readStatus = [p \in Owner |-> "created"]
    /\ version = [p \in Owner |-> 0]
    /\ base = [p \in Owner |-> 0]
    /\ token = [p \in Owner |-> NoToken]
    /\ since = [p \in Owner |-> 0]
    /\ pauses = 0

-----------------------------------------------------------------------------
(* resume and retry, up to the point where the loop runs.                   *)

BeforeLease == {"loading", "acquiring", "taking"}

\* Mutation: resume does not look at the status it read.
ReadRunAnyStatus(p) ==
    /\ pc[p] = "idle"
    /\ Len(leases) + Cardinality({q \in Owner : pc[q] \in BeforeLease}) < MaxLeases
    /\ readStatus' = [readStatus EXCEPT ![p] = status]
    /\ version' = [version EXCEPT ![p] = stateVersion]
    /\ Goto(p, "loading")
    /\ UNCHANGED <<clock, leases, runVars, base, token, pauses>>

\* The call's get_run.  resume turns down FAILED, COMPLETED and CANCELLED
\* runs, retry everything but FAILED: together they admit every status that
\* is not terminal.  The bound keeps a lease row for every invocation begun.
ReadRun(p) ==
    /\ pc[p] = "idle"
    /\ status \notin Terminal
    /\ Len(leases) + Cardinality({q \in Owner : pc[q] \in BeforeLease}) < MaxLeases
    /\ readStatus' = [readStatus EXCEPT ![p] = status]
    /\ version' = [version EXCEPT ![p] = stateVersion]
    /\ Goto(p, "loading")
    /\ UNCHANGED <<clock, leases, runVars, base, token, pauses>>

\* Mutation: the oldest checkpoint is loaded (ORDER BY without DESC).
LoadOldestCheckpoint(p) ==
    /\ pc[p] = "loading"
    /\ base' = [base EXCEPT ![p] = 1]
    /\ Goto(p, "acquiring")
    /\ UNCHANGED <<clock, leases, runVars, readStatus, version, token, pauses>>

LoadCheckpoint(p) ==
    /\ pc[p] = "loading"
    /\ base' = [base EXCEPT ![p] = Latest]
    /\ Goto(p, "acquiring")
    /\ UNCHANGED <<clock, leases, runVars, readStatus, version, token, pauses>>

\* What follows _acquire_or_takeover: a resumed run that was read as RUNNING
\* goes straight to the loop, with the version and state read before.
AfterLease(p) ==
    CASE readStatus[p] = "failed"  -> "retrying"
      [] readStatus[p] = "running" -> "boundary"
      [] OTHER                     -> "starting"

Acquire(p) ==
    /\ pc[p] = "acquiring"
    /\ \E now \in since[p]..clock : AcquireLease(p, now)
    /\ token' = [token EXCEPT ![p] = Len(leases) + 1]
    /\ Goto(p, AfterLease(p))
    /\ UNCHANGED <<clock, runVars, readStatus, version, base, pauses>>

AcquireConflict(p) ==
    /\ pc[p] = "acquiring"
    /\ ~CanAcquire
    /\ Goto(p, "taking")
    /\ UNCHANGED <<clock, leases, runVars, readStatus, version, base, token, pauses>>

TakeOver(p) ==
    /\ pc[p] = "taking"
    /\ \E t \in Token, now \in since[p]..clock : TakeOverLease(t, p, now)
    /\ token' = [token EXCEPT ![p] = Len(leases) + 1]
    /\ Goto(p, AfterLease(p))
    /\ UNCHANGED <<clock, runVars, readStatus, version, base, pauses>>

\* The active lease is still good, or it went away since the conflict: both
\* raise to the caller.
TakeOverRejected(p) ==
    /\ pc[p] = "taking"
    /\ \E now \in since[p]..clock : \A t \in Token : ~CanTakeOver(t, now)
    /\ Exit(p)
    /\ UNCHANGED <<clock, leases, runVars, pauses>>

\* resume's transition to RUNNING.  The row it returns replaces run, so the
\* version is the fresh one while the state is the one loaded before.
StartRun(p) ==
    /\ pc[p] = "starting"
    /\ \E checkedAt \in since[p]..clock :
           LeasedTransition(readStatus[p], "running", token[p], p, checkedAt)
    /\ version' = [version EXCEPT ![p] = stateVersion]
    /\ Goto(p, "boundary")
    /\ UNCHANGED <<clock, leases, readStatus, base, token, pauses>>

\* The transition raised.  Nothing releases the lease: it lasts out its ttl.
StartRejected(p) ==
    /\ pc[p] = "starting"
    /\ \E checkedAt \in since[p]..clock :
           ~(/\ CanTransition(readStatus[p], "running")
             /\ LeaseWritable(token[p], p, checkedAt))
    /\ Exit(p)
    /\ UNCHANGED <<clock, leases, runVars, pauses>>

Retry(p) ==
    /\ pc[p] = "retrying"
    /\ \E checkedAt \in since[p]..clock :
           BeginRetry(version[p], base[p], token[p], p, checkedAt)
    /\ base' = [base EXCEPT ![p] = Latest + 1]
    /\ Goto(p, "refetching")
    /\ UNCHANGED <<clock, leases, readStatus, version, token, pauses>>

RetryRejected(p) ==
    /\ pc[p] = "retrying"
    /\ \E checkedAt \in since[p]..clock :
           ~CanRetry(version[p], token[p], p, checkedAt)
    /\ Exit(p)
    /\ UNCHANGED <<clock, leases, runVars, pauses>>

\* retry's second get_run.
RefetchRun(p) ==
    /\ pc[p] = "refetching"
    /\ version' = [version EXCEPT ![p] = stateVersion]
    /\ Goto(p, "boundary")
    /\ UNCHANGED <<clock, leases, runVars, readStatus, base, token, pauses>>

-----------------------------------------------------------------------------
(* The loop, under _execute_with_lease.                                     *)

\* _check_cancelled at the loop's boundary: RunCancelledError releases the
\* lease and leaves.
CheckCancelled(p) ==
    /\ pc[p] = "boundary"
    /\ Goto(p, IF status = "cancelled" THEN "releasing" ELSE "working")
    /\ UNCHANGED <<clock, leases, runVars, readStatus, version, base, token, pauses>>

\* A model request or a tool call ended, for better or worse.
Work(p) ==
    /\ pc[p] = "working"
    /\ \/ base[p] < MaxCheckpoints /\ Goto(p, "saving")
       \/ Goto(p, "failing")
    /\ UNCHANGED <<clock, leases, runVars, readStatus, version, base, token, pauses>>

\* The three places that read checked_at and then renew: the sink's save, the
\* end of a completed loop, and the handler of any exception.  A renewal that
\* fails sends the first two to the handler, the third on to the release.
Renewing == {"saving", "completing", "failing"}

AfterRenew(step) ==
    CASE step = "saving"     -> "writing"
      [] step = "completing" -> "committing"
      [] OTHER               -> "abandoning"

Renew(p) ==
    /\ pc[p] \in Renewing
    /\ \E checkedAt \in since[p]..clock :
       \E now \in checkedAt..clock :
           /\ RenewLease(token[p], p, now)
           /\ GotoWith(p, AfterRenew(pc[p]), checkedAt)
    /\ UNCHANGED <<clock, runVars, readStatus, version, base, token, pauses>>

RenewFailed(p) ==
    /\ pc[p] \in Renewing
    /\ \E now \in since[p]..clock : ~CanRenew(token[p], p, now)
    /\ Goto(p, IF pc[p] = "failing" THEN "releasing" ELSE "failing")
    /\ UNCHANGED <<clock, leases, runVars, readStatus, version, base, token, pauses>>

\* The sink's save_checkpoint; the loop goes on, or returns after this save.
Save(p) ==
    /\ pc[p] = "writing"
    /\ SaveCheckpoint(version[p], base[p], token[p], p, since[p])
    /\ version' = [version EXCEPT ![p] = @ + 1]
    /\ base' = [base EXCEPT ![p] = Latest + 1]
    /\ \/ Goto(p, "boundary")
       \/ Goto(p, "completing")
    /\ UNCHANGED <<clock, leases, readStatus, token, pauses>>

SaveRejected(p) ==
    /\ pc[p] = "writing"
    /\ ~CanSave(version[p], token[p], p, since[p])
    /\ Goto(p, "failing")
    /\ UNCHANGED <<clock, leases, runVars, readStatus, version, base, token, pauses>>

Complete(p) ==
    /\ pc[p] = "committing"
    /\ LeasedTransition("running", "completed", token[p], p, since[p])
    /\ Goto(p, "returning")
    /\ UNCHANGED <<clock, leases, readStatus, version, base, token, pauses>>

CompleteRejected(p) ==
    /\ pc[p] = "committing"
    /\ ~(CanTransition("running", "completed") /\ LeaseWritable(token[p], p, since[p]))
    /\ Goto(p, "failing")
    /\ UNCHANGED <<clock, leases, runVars, readStatus, version, base, token, pauses>>

\* The exception handler's transition; when it raises too the handler goes on.
Abandon(p) ==
    /\ pc[p] = "abandoning"
    /\ LeasedTransition("running", "failed", token[p], p, since[p])
    /\ Goto(p, "releasing")
    /\ UNCHANGED <<clock, leases, readStatus, version, base, token, pauses>>

AbandonRejected(p) ==
    /\ pc[p] = "abandoning"
    /\ ~(CanTransition("running", "failed") /\ LeaseWritable(token[p], p, since[p]))
    /\ Goto(p, "releasing")
    /\ UNCHANGED <<clock, leases, runVars, readStatus, version, base, token, pauses>>

Release(p) ==
    /\ pc[p] \in {"returning", "releasing"}
    /\ ReleaseLease(token[p], p)
    /\ Exit(p)
    /\ UNCHANGED <<clock, runVars, pauses>>

\* Somebody took the lease over.  Inside the try block this is one more
\* exception; from a handler it reaches the caller.
ReleaseRejected(p) ==
    /\ pc[p] \in {"returning", "releasing"}
    /\ ~CanRelease(token[p], p)
    /\ \/ /\ pc[p] = "returning"
          /\ Goto(p, "failing")
          /\ UNCHANGED <<readStatus, version, base, token>>
       \/ /\ pc[p] = "releasing"
          /\ Exit(p)
    /\ UNCHANGED <<clock, leases, runVars, pauses>>

-----------------------------------------------------------------------------
(* The surroundings.                                                        *)

\* The process dies, or the task is cancelled (a BaseException, which
\* _execute_with_lease lets through): the lease stays behind.
Crash(p) ==
    /\ pc[p] # "idle"
    /\ Exit(p)
    /\ UNCHANGED <<clock, leases, runVars, pauses>>

Cancel ==
    /\ CancelRun
    /\ UNCHANGED <<clock, leases, procVars, pauses>>

\* transition_status called from outside to set a RUNNING run aside.
Pause ==
    /\ pauses < MaxPauses
    /\ \E target \in {"paused", "waiting_approval"} :
           TransitionStatus("running", target)
    /\ pauses' = pauses + 1
    /\ UNCHANGED <<clock, leases, procVars>>

Tick ==
    /\ clock < MaxClock
    /\ clock' = clock + 1
    /\ UNCHANGED <<leases, runVars, procVars, pauses>>

\* The steps an invocation takes by itself once it has begun.
Step(p) ==
    \/ LoadCheckpoint(p)
    \/ Acquire(p)
    \/ AcquireConflict(p)
    \/ TakeOver(p)
    \/ TakeOverRejected(p)
    \/ StartRun(p)
    \/ StartRejected(p)
    \/ Retry(p)
    \/ RetryRejected(p)
    \/ RefetchRun(p)
    \/ CheckCancelled(p)
    \/ Work(p)
    \/ Renew(p)
    \/ RenewFailed(p)
    \/ Save(p)
    \/ SaveRejected(p)
    \/ Complete(p)
    \/ CompleteRejected(p)
    \/ Abandon(p)
    \/ AbandonRejected(p)
    \/ Release(p)
    \/ ReleaseRejected(p)

Next ==
    \/ \E p \in Owner : ReadRun(p) \/ Step(p) \/ Crash(p)
    \/ Cancel
    \/ Pause
    \/ Tick

Spec == Init /\ [][Next]_vars

\* A coroutine that has begun is run by the event loop until it returns;
\* nothing obliges anyone to start, cancel, pause or crash.
FairSpec == Spec /\ \A p \in Owner : WF_vars(Step(p))
=============================================================================
