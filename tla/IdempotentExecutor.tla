------------------------- MODULE IdempotentExecutor -------------------------
(***************************************************************************)
(* IdempotentToolCallExecutor (runtime/tool_execution.py): several         *)
(* executor objects, in processes that may die, asked again and again for  *)
(* the same tool call of the same run.  Each executor runs its calls as    *)
(* coroutines that share one asyncio.Lock for the effect's key; an         *)
(* executor created after a restart has an owner id of its own.            *)
(*                                                                         *)
(* The ledger's transactions are atomic; between any two of them another   *)
(* call, a cancelled task or the death of an executor may come, which      *)
(* covers the crash points of durable/faults.py.                           *)
(***************************************************************************)
EXTENDS SideEffectLedger

CONSTANT Slot    \* the calls one executor may have under way at once

Call == Executor \X Slot
Home(c) == c[1]

VARIABLES
    pc,          \* where each call is
    sawOwner,    \* the owner of the executing row the call read
    outcome,     \* how the downstream executor ended
    lock,        \* the call that holds an executor's lock, by executor
    alive,       \* the executors whose process has not died
    executions,  \* how often the downstream tool was run in the real world
    delivered    \* the results that calls have handed back to the agent loop

vars == <<row, pc, sawOwner, outcome, lock, alive, executions, delivered>>

PC == {"idle", "locking", "locked", "marking", "claiming", "claimed",
       "ran", "settled", "dead"}

Outcome == Result \cup {"exception", Nothing}

Unlocked == <<NoOne, Nothing>>

Init ==
    /\ LedgerInit
    /\ pc = [c \in Call |-> "idle"]
    /\ sawOwner = [c \in Call |-> NoOne]
    /\ outcome = [c \in Call |-> Nothing]
    /\ lock = [e \in Executor |-> Unlocked]
    /\ alive = Executor
    /\ executions = 0
    /\ delivered = {}

-----------------------------------------------------------------------------
Goto(c, step) ==
    /\ pc' = [pc EXCEPT ![c] = step]
    /\ UNCHANGED <<sawOwner, outcome, lock>>

\* Mutation: a call that ends early keeps the lock.
ExitHoldingLock(c, results) ==
    /\ pc' = [pc EXCEPT ![c] = "idle"]
    /\ sawOwner' = [sawOwner EXCEPT ![c] = NoOne]
    /\ outcome' = [outcome EXCEPT ![c] = Nothing]
    /\ delivered' = delivered \cup results
    /\ UNCHANGED lock

\* The call ends, handing back results or raising (results = {}); leaving the
\* async with block gives the lock back.
Exit(c, results) ==
    /\ pc' = [pc EXCEPT ![c] = "idle"]
    /\ sawOwner' = [sawOwner EXCEPT ![c] = NoOne]
    /\ outcome' = [outcome EXCEPT ![c] = Nothing]
    /\ lock' = [lock EXCEPT ![Home(c)] = IF @ = c THEN Unlocked ELSE @]
    /\ delivered' = delivered \cup results

\* _handle_existing_record on the row just read: hand back a stored result,
\* refuse an unresolved effect, set out to mark another owner's execution as
\* unknown, or go on to next.
HandleExisting(c, next) ==
    \/ /\ row.status \in {"committed", "failed"}
       /\ Exit(c, {row.result})
    \/ /\ row.status \in {"unknown", "rolled_back"}
       /\ Exit(c, {})
    \/ /\ row.status = "executing" /\ row.owner # Home(c)
       /\ pc' = [pc EXCEPT ![c] = "marking"]
       /\ sawOwner' = [sawOwner EXCEPT ![c] = row.owner]
       /\ UNCHANGED <<outcome, lock, delivered>>
    \/ /\ \/ row.status = "intent_recorded"
          \/ row.status = "executing" /\ row.owner = Home(c)
       /\ Goto(c, next)
       /\ UNCHANGED delivered

\* ledger.prepare, then the first _handle_existing_record on what it returned.
Prepare(c) ==
    /\ pc[c] = "idle"
    /\ \E d \in Digest :
          \/ /\ RecordIntent(d)
             /\ Goto(c, "locking")
             /\ UNCHANGED delivered
          \/ /\ SameIntent(d)
             /\ HandleExisting(c, "locking")
             /\ UNCHANGED row
    /\ UNCHANGED <<alive, executions>>

\* async with lock
Lock(c) ==
    /\ pc[c] = "locking"
    /\ lock[Home(c)] = Unlocked
    /\ lock' = [lock EXCEPT ![Home(c)] = c]
    /\ pc' = [pc EXCEPT ![c] = "locked"]
    /\ UNCHANGED <<row, sawOwner, outcome, alive, executions, delivered>>

\* ledger.get under the lock, and the second _handle_existing_record.
Recheck(c) ==
    /\ pc[c] = "locked"
    /\ HandleExisting(c, "claiming")
    /\ UNCHANGED <<row, alive, executions>>

\* mark_unknown("stale_executor"); the call raises whether or not the row is
\* still as it was read.
MarkStale(c) ==
    /\ pc[c] = "marking"
    /\ \/ MarkEffectUnknown(sawOwner[c])
       \/ ~CanMarkUnknown(sawOwner[c]) /\ UNCHANGED row
    /\ Exit(c, {})
    /\ UNCHANGED <<alive, executions>>

Claim(c) ==
    /\ pc[c] = "claiming"
    /\ \/ /\ ClaimEffect(Home(c))
          /\ Goto(c, "claimed")
          /\ UNCHANGED delivered
       \/ /\ ~CanClaim
          /\ Exit(c, {})
          /\ UNCHANGED row
    /\ UNCHANGED <<alive, executions>>

\* downstream.execute: the tool acts on the world, then returns a result or
\* raises.
Execute(c) ==
    /\ pc[c] = "claimed"
    /\ executions' = executions + 1
    /\ \E o \in Result \cup {"exception"} : outcome' = [outcome EXCEPT ![c] = o]
    /\ pc' = [pc EXCEPT ![c] = "ran"]
    /\ UNCHANGED <<row, sawOwner, lock, alive, delivered>>

\* Mutation: a refused commit is swallowed and the result handed back.
SettleSwallowing(c) ==
    /\ pc[c] = "ran"
    /\ outcome[c] \in Result
    /\ \/ /\ SettleEffect(Home(c), outcome[c])
          /\ Goto(c, "settled")
          /\ UNCHANGED delivered
       \/ /\ ~CanSettle(Home(c))
          /\ Exit(c, {outcome[c]})
          /\ UNCHANGED row
    /\ UNCHANGED <<alive, executions>>

\* ledger.commit or ledger.fail, as the result says; the transition raises if
\* another executor has marked the effect meanwhile.
Settle(c) ==
    /\ pc[c] = "ran"
    /\ outcome[c] \in Result
    /\ \/ /\ SettleEffect(Home(c), outcome[c])
          /\ Goto(c, "settled")
          /\ UNCHANGED delivered
       \/ /\ ~CanSettle(Home(c))
          /\ Exit(c, {})
          /\ UNCHANGED row
    /\ UNCHANGED <<alive, executions>>

\* The downstream executor raised: mark_unknown("downstream_exception") under
\* the executor's own owner id, and raise; the marking itself raises when
\* another executor has marked the effect meanwhile.
MarkFailed(c) ==
    /\ pc[c] = "ran"
    /\ outcome[c] = "exception"
    /\ \/ MarkEffectUnknown(Home(c))
       \/ ~CanMarkUnknown(Home(c)) /\ UNCHANGED row
    /\ Exit(c, {})
    /\ UNCHANGED <<alive, executions>>

\* return record.result
Return(c) ==
    /\ pc[c] = "settled"
    /\ Exit(c, {outcome[c]})
    /\ UNCHANGED <<row, alive, executions>>

-----------------------------------------------------------------------------
\* The call's task is cancelled where it stands; a CancelledError is not an
\* Exception, so no handler marks the row.
Abort(c) ==
    /\ pc[c] \notin {"idle", "dead"}
    /\ Exit(c, {})
    /\ UNCHANGED <<row, alive, executions>>

\* The process dies and with it the executor, its calls and its lock.
Crash(e) ==
    /\ e \in alive
    /\ alive' = alive \ {e}
    /\ pc' = [c \in Call |-> IF Home(c) = e THEN "dead" ELSE pc[c]]
    /\ lock' = [lock EXCEPT ![e] = Unlocked]
    /\ UNCHANGED <<row, sawOwner, outcome, executions, delivered>>

\* What a call does by itself once it has begun.
Step(c) ==
    \/ Lock(c)
    \/ Recheck(c)
    \/ MarkStale(c)
    \/ Claim(c)
    \/ Execute(c)
    \/ Settle(c)
    \/ MarkFailed(c)
    \/ Return(c)

Next ==
    \/ \E c \in Call : Prepare(c) \/ Step(c) \/ Abort(c)
    \/ \E e \in Executor : Crash(e)

Spec == Init /\ [][Next]_vars

\* The event loop runs every call that can go on, and asyncio.Lock hands the
\* lock to its waiters in turn, so none waits for it forever.
FairSpec ==
    /\ Spec
    /\ \A c \in Call : WF_vars(Step(c)) /\ SF_vars(Lock(c))
=============================================================================
