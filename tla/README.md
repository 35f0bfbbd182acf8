# agent-engineering-foundations: the verification project

TLA+ models of the program in `src/src/agent_foundations` (a coding agent: an agent loop that asks a model, runs
tools under a security policy, keeps its runs in SQLite, and is driven from a command line or a local chat server) and
of its two browser programs, the chat in `src/web/chat` and the run viewer in `viewer/static`: what TLC checks about
them on small instances, and what TLAPS proves about them for all instances. Paths below are relative to
`src/src/agent_foundations` unless they start with `src/`; those of the chat page (`App.tsx`, `state/`, `components/`) to
`src/web/chat`.

- [1. The system](#1-the-system)
- [2. What is modelled: the durable run](#2-the-durable-run)
- [3. What is modelled: the side effect](#3-the-side-effect)
- [4. What is modelled: the controlled patch](#4-the-controlled-patch)
- [5. What is modelled: the chat](#5-the-chat)
- [6. What is modelled: the run viewer](#6-the-run-viewer)
- [7. Runs](#7-runs)
- [8. Proofs](#8-proofs)
- [9. Disagreements found](#9-disagreements-between-documents-and-code)
- [10. Not modelled, and the plan](#10-not-modelled-and-the-plan)

## 1. The system

| Part | State it keeps | Operations | Talks to | What makes it correct |
| --- | --- | --- | --- | --- |
| Run leases (`durable/lease.py`) | `run_leases`: owner, token, expiry, release reason, predecessor | acquire, renew, release, take over when expired | SQLite; clock | one owner at a time; an expired owner is fenced off; takeovers leave a trail |
| Durable runs (`durable/repository.py`) | `durable_runs` (status, state_version, attempt), `run_checkpoints` | create, transition, save, retry, cancel, load, reserve a provider attempt | SQLite | compare-and-set: no lost update, one attempt per failure, final states final |
| Durable controller (`durable/controller.py`) | the locals of each `resume`/`retry` coroutine: lease, version, loaded state | resume, retry, cancel | leases, repository, agent loop | all controllers together look like one writer |
| Side-effect ledger (`durable/effects.py`) | `side_effects`: intent digest, status, owner, result | prepare, claim, commit, fail, mark unknown, get | SQLite | an effect is recorded before it happens and settled once |
| Idempotent executor (`runtime/tool_execution.py`) | a lock per effect key; an owner id | execute | ledger, downstream tool | at most one execution; the same answer to everybody |
| Agent loop (`runtime/loop.py`, `state_machine.py`) | AgentRunState: phase, messages, pending tool calls, counters | run, resume; one model request or tool call per turn | provider, tools, checkpoint sink, cancellation token | nothing persisted is done again; each phase change is a legal one |
| Provider attempts, limits, budgets (`runtime/provider_attempt_budget.py`, `rate_limit.py`, `coding_budget.py`, `providers/resilient.py`) | attempts per request, token bucket, coding counters | reserve, acquire, retry with back-off | repository, provider | attempts never exceed the budget, also across restarts |
| Recovery (`runtime/recovery.py`) | history of tool results | classify, detect no progress | loop | no endless repetition |
| Security (`security/`) | profiles, approvals, authorizations, one-shot capabilities | authorize, grant, consume, revoke | tools, chat | a capability is used once, for exactly the request that was approved, under the profile in force |
| Patch tool (`tools/patch/`) | files, ledger row, journal of originals | validate, authorize, apply, roll back, reconcile | workspace, ledger, security | all files or none; after a crash the truth is found out |
| Command tool and backends (`tools/command/`, `execution/`) | containers, ledger row | run with a time limit, clean up | docker, ledger, security | every container ends; at most one execution |
| Command output (`command_output/`) | artifacts, permissions, retention | store, read, expire | disk, SQLite | nothing is deleted under a reader; output is not shown without permission |
| Planning (`planning/`) | plan, current step | create, start, complete, revise | loop, chat | one current step; completed steps stay completed |
| Context (`context/`) | compacted history, cache, critical facts | build, compact, rehydrate | loop | tool calls keep their results; facts survive compaction |
| Chat (`chat/`) | conversations, runs, messages, approvals, events, activities | begin, complete, fail, interrupt; ask, answer; publish | everything above, browser | one active run per conversation; every approval is resolved; events in order |
| Browser client (`src/web/chat/`) | the reduced chat state per conversation, the selection and its epoch, requests in flight, one event source | select, submit, stop, decide, retry; the continuation of each await; each event | chat API and events | nothing shown that is not in the database, nothing taken back; in step when all is quiet; events only of the conversation selected |
| Run viewer (`viewer/`) | the events shown, the run named, the trace loads in flight; the broker's queue | select a trace or the live events; each load and event | trace files, the agents' posts | the events of one run, in order, under its own name |
| Storage (`storage/`) | schema version | migrate | SQLite | each migration once, in order |
| Providers, read-only tools, evals, cli, domain types | none worth a model | | | |

How they interact. A chat or CLI run drives an agent loop; each turn is a model request or a tool call. A tool call
with side effects goes through the policy, possibly an approval by a person, a one-shot capability, and the side-effect
ledger. The loop hands its state to a checkpoint sink at its safe points. The durable controller is one such driver:
it owns the run by a lease, gives the loop a sink that renews the lease and saves by compare-and-set, and a
cancellation token that reads the run's status. The controller, the lease manager, the idempotent executor and the
durable provider budget are library code with tests; the CLI and the chat use the ledger and the repository directly.

What is hard here. Every database call is a `BEGIN IMMEDIATE` transaction in a worker thread, so each is atomic, but a
coroutine is suspended at every one of them: whatever it read before may be out of date after. Processes die between
any two of them and leave leases and EXECUTING rows behind. Leases expire by a wall clock that is read before the
transaction that uses the reading. A cancel takes no lease and waits for nobody. A slow process cannot be told from
a dead one. The browser does the same with HTTP: every answer is older than its arrival, answers overtake one another and
the events, and an event published while nobody is subscribed is gone. `PROJECT.json` lists these hazards one by one, at their lines.

## 2. The durable run

| Module | Models |
| --- | --- |
| `RunLeases` | `run_leases` of one run and LeaseManager's transactions |
| `DurableRuns` | `durable_runs` and `run_checkpoints` of one run and the repository's transactions (extends `RunLeases`) |
| `RunController` | `DurableRunController`: any number of invocations at once, the clock, crashes, cancels, external pauses |
| `RunLog` | the abstract specification: one log, one apparent writer |
| `RunProperties` | the properties, the refinement mapping, the inductive invariants |
| `MCRunController` | for TLC: the symmetry of the callers |
| `RunControllerProofs` | the theorems |

**State.** `leases` is the table's rows, oldest first; a lease token (a fresh uuid) is the row's position, so that
"later lease" is "larger token". `checkpoints` is the rows of `run_checkpoints` by `sequence`. Of `state_json` a
checkpoint keeps the three things that tell histories apart: `base`, the checkpoint whose state it continues (a ghost:
the code's state has no parent pointer), `attempt`, which the code stores in the state and copies into the run's row,
and `token`, the lease it was written under (a ghost). Each caller has the locals of its coroutine: `pc`, the status
and version it read, the checkpoint its state continues, its lease.

**Actions.** One per await of `resume`, `retry`, `_acquire_or_takeover`, `_RepositoryCheckpointSink.save` and
`_execute_with_lease`, with the failing outcome of each as an action of its own (`...Rejected`, `...Failed`). A raise
goes where the code's handlers send it: to the exception handler (`failing`), to the release, or to the caller.
`Crash` is the death of the process or a cancelled task (a BaseException, which the code lets pass): in both nothing
is released.

**Time.** Every call that uses the clock reads it before its transaction begins, and the transaction may wait for the
database. `since[p]` is the clock when the call began; the transaction works with any value between that and now. So
a lease may be judged by an old time, which is the case that matters.

**Abstractions.** One run: no statement relates two. The loop is reduced to what the controller observes (`boundary`:
check for cancellation; `working`: a unit of work that ends in a save or an exception; after a save the loop goes on or
has finished). Work takes no step of its own, but the clock, other callers and crashes move while it lasts. `retry` and
`resume` share `ReadRun`: together they accept exactly the statuses that are not terminal. A run without a checkpoint
is refused by `load_latest_checkpoint` and is not an initial state.
`reserve_provider_attempt` is left to the provider-attempt module.

**Properties.** `OneOwner`, `TakeoverChain`, `TakenOnlyWhenExpired`: about leases. `Fenced`, `LinearHistory`,
`VersionedHistory`: about the checkpoint history. `OneAttemptPerFailure`, `TerminalIsFinal`: about what a step may
never do. `ImplementsRunLog`: the whole refines `RunLog`, mapping the three waiting statuses to one and the checkpoints
to log entries. `TerminalQuiesces`: liveness. (SQLite's partial unique index on active leases would also refuse a
second active row; the model does not use it, so `OneOwner` shows the code's own tests are enough.)

## 3. The side effect

| Module | Models |
| --- | --- |
| `SideEffectLedger` | one row of `side_effects` and the ledger's compare-and-set transactions |
| `IdempotentExecutor` | `IdempotentToolCallExecutor`: several executors (processes), several concurrent calls of each, all for one tool call |
| `EffectOnce` | the abstract specification: an effect that happens at most once and has one answer |
| `EffectProperties` | the properties, the refinement mapping, the inductive invariant |
| `MCEffects` | for TLC: the symmetries |
| `EffectProofs` | the theorems |

**State.** `row` is the ledger's row (absent before `prepare`), `lock` the `asyncio.Lock` an executor keeps for the
effect's key, `executions` how often the tool acted on the world, `delivered` the results handed back to agent loops;
the last two are not in the program, they are what its promise is about.

**Actions.** One per await of `execute`: prepare and the first look at the row, the lock, the second look under the
lock, the claim, the downstream execution, the settlement, the return; `HandleExisting` is `_handle_existing_record`.
`Abort` is a cancelled task anywhere, `Crash` the death of a process anywhere: this includes the five crash points of
`durable/faults.py`. After a crash another executor, with another owner id, takes the dead one's row for stale; so it
does when the other one is only slow. Calls may present another digest (other arguments for the same call id), which
`prepare` refuses: for those `Prepare` is simply not enabled, since refusing changes nothing.

## 4. The controlled patch

| Module | Models |
| --- | --- |
| `Capabilities` | the rows of `authorization_requests` and `capabilities` of one tool call, and AuthorizationRepository's transactions on them |
| `PatchApplier` | the script that applies a patch inside the container, file by file, and the project's files |
| `PatchExecutor` | `ControlledPatchExecutor`: several executors (processes) for one tool call; composes `Capabilities`, `PatchApplier` and `SideEffectLedger` |
| `PatchProperties` | the properties, the refinement of `EffectOnce`, the inductive invariant |
| `MCPatches` | for TLC: two patches, four requests, the policy's verdicts |
| `PatchProofs` | the theorems |

**State.** `authorization` and `capability` are the two rows a tool call can have, each with the request it is bound to. A
request is the exact facts the code compares (resource, operation, profile and its version); `PatchOf` says which patch it is for,
`PolicyDecision` what `PolicyEngine.decide`, a pure function, says of it. `row` is the ledger's row. `disk` is the content
of each file of the patch: the baseline, a patch's, or something the user wrote. `script` is the container: how far its script
has got, at which file, whether a restore failed (`broken`), whether it was killed where it stands. Each executor has the locals
of its call: `pc`, the request, the row's status when the call began (`saw`). `starts`, `edits` and `answers` are not in
the program: they count the containers and edits and keep what was handed back.

**Actions.** One per await of `execute`, `_authorize`, `_reconcile_existing` and `_resolve_backend_result`, each with its refusals:
a refusal that raises or returns a failure before the container was started just ends the call. The
container's script takes its steps beside the call, as it does beside the process: it goes on when the process dies. Its
steps are the looks and replacements between which a file may change: `Stage`, then for each file `Check`, `Replace`,
`Verify`, and `Restore` for each file to be undone; each can fail. Docker can lose or remove the container at any time
(`KillScript`), also when the time limit or a cancellation asks for it, and can fail to.
Another call, of the same executor or another, may find the row executing and commit it from what the files say (`Adopt`).

**Abstractions.** A patch rewrites each of its files, and an edit never happens to equal a patch. One container is kept, with
`starts` to notice a second. `expires_at` is a step the clock takes (`ExpireCapability`); `consume` reads the clock just before
its transaction, and a consumer that came too late by less than that is indistinguishable from one that came in time. A crash at a
transaction is a crash before or after it. A call that is cancelled while its transaction is on its way in a worker thread does not
wait for it; the model has it cancelled right after that transaction instead. An executor has one call at a time, as the agent
loop makes them. A decider that answers at once and one that answers by a later call are both there (`RequestApproval`).

**Properties.** `OnlyGrantedPatchRuns`: policy, approval, capability and intent, in this order, whoever made which part of
the way. `DecisionStands`: about what a step may never do. `ChangeIsOnRecord`: files against the ledger. `CommittedIsApplied`:
the ledger against the files. `ImplementsEffectOnce`: the same abstract effect as in section 3, here with the container as
the tool, a rollback as its failure and reconciliation as another way to settle it. `CallsReturn`: liveness.

`CommittedIsApplied` has a second case, and needs it: a second executor can see all files in place and commit the row after the
script's last `os.replace`, and the script, which is still to read the file back, can then fail and undo all. The row
stays committed; the owner, which is told of the rollback, is refused the record of it. It takes a script that fails to read what it
has just written.

## 5. The chat

| Module | Models |
| --- | --- |
| `ChatView` | the state of one conversation in the browser and its reducer (`state/reducer.ts`, `types.ts`, `turns.ts`); no variables |
| `ChatServer` | the tables, the supervisor's task of each conversation, the waiter of an approval, the broker, crashes and start-up recovery (`chat/`) |
| `ChatClient` | `App.tsx` with its components: selection, requests in flight, continuations, event source, faults; extends `ChatServer` |
| `ChatProperties` | the properties |
| `ChatInvariants` | the inductive invariants behind the properties of the view |
| `MCChat` | for TLC: the bounds per conversation |
| `ChatProofs` | the theorems about the server, the epochs and the reducer |
| `ChatViewProofs` | the theorems about the view against the server |
| `ChatCatchUpProofs` | the theorems about the view when nothing more is on its way |

**State.** The n-th run of a conversation is called n. Its session id, its user message, its one tool call and its one
approval all follow from n, and 0 is null. `runs[c][n]` is the row of the run with the status of its tool call and of its
approval. `task[c]` is the supervisor's task: its run and `out`, the events of what it has just written and not yet
published. A write that its cancelled task has left in its worker thread waits in `late` of the row: no column, but what the thread
will do to it. `stream[c]` is the event connection: asked for, subscribed with its queue, broken, or closed. `view[c]` is the
slice of `ChatState` of one conversation. `requests` is what the page awaits, in the order of issue; each has the
answers that have come so far (`got`) and whether its epoch is still current (`fresh`: the code compares a number with
`selectionEpochRef`, and only equality matters). `locked` is `submitting` of the mounted approval card.

`missed`, `excused`, `told` and `orphaned` are history variables: they change nothing. The first three say since the last
restoration whether an event was published with nobody subscribed or dropped from a full queue (by a task's `Publish` or by the
`approval.resolved` a Stop has published), whether the view was overwritten by something older or a run changed that nobody is told of,
and which run's end an event has told of; `orphaned` says whether a Stop has ever left an active run without its task. `missed` and `excused` make `FallsBehindOnlyWhen` a
complete list: wherever the page stays behind the server with nothing left on its way, it is for one of the steps that set them.

**Actions.** On the server a repository call is one step, and a task writes and publishes in separate steps
(`StartTurn` ... `FailRun`, then `Publish`), so that a Stop, a crash or an answer comes in between. `request()` of an
approval is two writes (`AwaitApproval`, `CreateApproval`). `post_message` is two steps, begin and start (`PostBegins`, `PostStarts`);
`interrupt_run` is two, the reads and the rest (`StopRead`, `StopServed`). A cancelled task's call that was already in its worker thread is not
cancelled with it (`asyncio.to_thread`). It may never come to anything, it may land before the interruption (`Landed`, `Cancelled`), between
its two transactions or after it. Between the two, a change of the status makes the second one raise `ChatConflictError`: the Stop is refused, the
task is gone and the run as the call has left it (`Overtaking`, `InterruptFails`). After it, every call that looks at the status is refused by the
repository; `upsert_tool_activity` does not look, so that of a tool call is still written (`Stopped`, `LateWrite`). A Stop that meets the
task of another run leaves it before its first write, after it, or with it still to land (`Abandoned`, `GivenUp`). On the page, each `await` is a request: it is issued, each GET it
waits for is answered at a time of its own (`Serve`), and then its continuation is one step (`RestoreDone`,
`ActivitiesRefreshed`, `StateFetched`, `TerminalReloaded`, `PostAnswered`, ...). `Deliver` is an event with everything its listener
does. `StreamError` is `onerror`; the browser's own reconnection is there where the listener returns early.

**Faults.** A request or its answer is lost, the activities of a restoration fail by themselves, the connection breaks, the server
crashes and runs `interrupt_unfinished` when it starts again.

**Abstractions.** Contents are left out: a message is its run and role, an approved and a denied approval are the same.
A run makes at most one tool call and asks at most once. A run has an assistant message exactly when it is completed (`complete_run`
writes both). Begin-run's failure to be started is written together with the refusal; the reads of `interrupt_run` are one step, and so
are the cancellation, the interruption and the invalidation, during which the supervisor has no task for the conversation
and its row is still active, so that no other POST succeeds in between; what the cancelled task itself may write meanwhile is said by
`Cancelled` and `InterruptFails`. What the waiter of an approval does when it is cancelled with its decision there (`_settle_cancelled_request`) is awaited by the Stop and
done before the interruption. Left out is that its own first transition, still in its thread, makes the second one raise: the error
takes the place of the cancellation, the task goes on, and the Stop waits for its end, which the model has as a Stop that comes later. An upsert that fails is logged and its event not
published (`ChatProjectionSink.emit`), so a run may end with its tool call unseen or still running in the table (`ToolEnded`, `Completed`). Of a decision only the lock of its card is left; its answer
is not shown. An event is for the one page there is; several pages share nothing but the server.

**Properties.** `OneActiveRun`, `OwnedRun`, `EndedIsFinal`: the server, whatever is submitted, stopped, decided, lost or restarted.
`OwnedRun` matters because an active run that nobody owns bars its conversation until the next start; `EndedIsFinal` because a
completion, a Stop, a late write of the cancelled task and the recovery all write the end of a run, and only the first may. Each has
one exception, which the code really makes: `OwnedRun` a Stop that has left an active run behind (`orphaned`), `EndedIsFinal` the one upsert an
interrupted run's task had on its way, which may change its tool call if that has not ended, once and to what was on its way.
`StreamFollowsSelection`: the epochs. `ViewBehindServer`, `ViewGrows`: what is shown against the database, and against what was shown
before. `FallsBehindOnlyWhen`, `FinalActivities`: the page when nothing more is on its way (`Quiet`). The first compares all of the view
(`InStep`: `ShowsState`, `ShowsActivities`, the messages, the list of runs, the errors) where nothing was missed; the second only the tool calls,
but even where events were missed: once an event has told of the end of run `told`, the reload that follows shows the calls of that run
and of all before as they ended.

What the models show of the code, beyond the disagreements of section 9, and no document speaks about: a Stop that
arrives when its run has ended and the next one was begun cancels that one's task (`supervisor.cancel` knows only the conversation), and a task
cancelled before its first step leaves its run queued until a Stop of its own or the next start (`Abandoned`; the `orphaned` of `OwnedRun`); a Stop
that races the end of its run loses the events of that end (`EndUntold`); an event still queued when its run was reloaded as interrupted revives it
on the page (`IsLate`); a user's interruption leaves a running tool call running in the table (only start-up marks those); a restoration
that fails after a broken connection is not tried again (`RestoreFailed`).

## 6. The run viewer

| Module | Models |
| --- | --- |
| `TraceViewer` | the page of the viewer (`viewer/static/app.ts`, `state.ts`), its server (`app.py`, `navigation.py`, `stream.py`) and the emitting agents (`runtime/sinks.py`) |
| `TraceProperties` | the properties and the inductive invariant |
| `MCTraces` | for TLC: one run of a conversation, one standalone run |
| `TraceProofs` | the theorems |

**State.** `trace[s]` is the length of the file of a session, `posting[s]` whether its agent is between appending an event and posting it.
`overdue[s]` are the events whose post the agent has given up, and `late[s]`, a history variable, those the server took afterwards.
`queue` is what the broker holds for the page while it is connected. `page` has the variables of `app.ts`: the events, the selected event,
`loadedSessionId` (`loaded`), `activeConversationId`, whether an error is shown. `loads` are the trace loads in flight.

**Actions.** `Emit` appends, `Post` or `PostFails` follows: the agent waits 2 s for its post, swallows the error and goes on. Such a post was never made, or the
server has it and takes it later, behind those that follow (`PostTakenLate`): its loop was busy with a long trace, or its queue full. `NavigationServed`
lists a run of a conversation from the database, whether it has a trace or not and once it is there, and a standalone run from its file,
which may be unreadable (`ListedAs`). `LoadServed`, `LoadOpened`, `SessionLoaded` are the three moments of
`loadSelectedSession`: the file is read, the head of the answer sets `loadedSessionId`, the body is awaited and shown.
`SelectTrace`, `SelectLiveEvents` and the query of the address (`ApplyTraceQuery`) change the header at once.

**Properties.** `OneTrace`: history and live events, two live runs, lost posts and reconnections never mix; no event is shown twice, and one
stands before an older only if the post of the older was taken late (`Precedes`). The plan
of the viewer (`src/docs/agent-plans/2026-07-21-phase-1c-trace-viewer-plan.md:1295`) has SSE keep the order of events while the viewer is online;
this exception is the one it does not mention. A reload of the trace shows them in order. `ShowsWhatIsLoaded`: what
stands under the name of a run is a prefix of its trace. Both need the history variable `crossed`: when the header is changed
between the head and the body of an answer (`app.ts:364` and `365`), the old run's events appear under the new name and stay there if the
new answer came first or fails; and after a return to the live events a history may come in and live events of its run be appended again.
Without the crossing, loads that come back in any order do no harm, since each sets header and events together. No document
speaks of the crossing, so it is stated in the properties and not counted as a disagreement.

## 7. Runs

CHECK_DEADLOCK is FALSE throughout: a run that is completed, a bound that is reached and a set of dead executors are
states in which the system may stop.

| Run | Instance | States | Shows |
| --- | --- | --- | --- |
| `run_history` | 2 callers, ttl 1, 3 clock readings, 3 leases, checkpoints beyond 2 only by a retry, no pauses, with fairness | 517,221 | `TypeOK`, `LinearHistory`, `FreshInv`, `OneAttemptPerFailure`, `ImplementsRunLog`, `TerminalQuiesces` |
| `run_pauses` | the same with one external pause | 1,069,135 | `OneOwner`, `Fenced`, `TakeoverChain`, `VersionedHistory`, `SaveInv`, `TakenOnlyWhenExpired`, `TerminalIsFinal` |
| `run_replay` | as `run_history` | violation | `NoReplayOfPersistedWork` (see 9) |
| `run_pause_lost` | one pause, 3 checkpoints | violation | `LinearHistory` (see 9) |
| `effects_once` | 2 executors, 2 calls each, 2 digests, with fairness | 15,070 | `EffectInv`, `AtMostOnce`, `AnswersAgree`, `RecordIsTruthful`, `OneClaimant`, `SettledNeverChanges`, `ImplementsEffectOnce`, `CallsReturn` |
| `patches_granted` | 2 executors, 4 requests (two asked about, one allowed, one denied) for 2 patches of 2 files, 1 edit | 833,625 | `PatchInv`, `OnlyGrantedPatchRuns`, `ChangeIsOnRecord`, `CommittedIsApplied`, `DecisionStands`, `ImplementsEffectOnce` |
| `patches_return` | 2 executors, 2 requests, 1 patch of 2 files, with fairness | 66,107 | `CallsReturn` |
| `patch_partial` | 1 executor, no edits | violation | `FailureLeavesNoPart` (see 9) |
| `chat_runs` | three conversations the user stays in, each with its own bounds: two runs without tools and two requests at once; one run with a tool call that fails, an approval and one request at a time; one run with a tool call that completes, an approval, one request at a time and one fault; and two to turn between: one run without tools and two requests at once, and nothing to do | 1,550,083 | `ChatTypeOK`, `OneActiveRun`, `OwnedRun`, `StreamFollowsSelection`, `ViewBehindServer`, `FallsBehindOnlyWhen`, `FinalActivities`, `ViewGrows`, `EndedIsFinal` |
| `chat_gap` | one run with a tool call, two requests at once, a queue that never overflows, no fault | violation | `SnapshotClosesGap` (see 9) |
| `chat_stop` | as `chat_runs` | violation | `StopEndsItsRun` (see 9) |
| `viewer` | 2 sessions, of 2 events and of 1, 2 loads at once | 2,191,412 | `OneTrace`, `ShowsWhatIsLoaded` |

**Bounds.** `MaxClock` stops the clock, `MaxLeases` the rows of `run_leases`, `MaxCheckpoints` the checkpoint the loop
may continue (a retry's checkpoint comes on top of it), `MaxPauses` the external pauses. They are constants of
`RunController`, used only in guards. Two callers, ttl 1 and three clock readings are enough for a lease to expire, be
taken over, and for its old owner to come back with an old reading; three leases for the successor to be superseded as
well. `MaxPauses = 0` in
`run_history` is the program as it stands: nothing in it pauses a running run from outside.
In the symmetric runs the callers are interchangeable: no definition singles one out. The runs with fairness use no symmetry.
Two files are enough for a patch to be in place in part, and for an undo to fail at one and succeed at the other; two
executors for one to adopt, overtake or outlive the other's call; two patches and a verdict of each kind for every way in
which requests can be mistaken for one another. `MaxEdits` bounds the user: one edit can spoil any look, undo or verification;
`CommittedIsApplied` is about none.

The chat: `MaxRuns` runs are begun in a conversation and `MaxRequests` requests are in flight at once, while it is selected (a
request over the bound is one the user, or the next event, waits with); `ToolOutcomes` says how its tool call may end, and without an outcome there is none;
`FaultKinds` and `MaxFaults` say what may go wrong how often. `QueueSize = 2` lets a queue overflow with the three events of
a run without tools. `InOrder` has the GETs of one continuation answered in the order in which they are sent; those of different
continuations overtake one another freely. The user turns only between the conversations of `Selectable`; the initial
selection is any. Two runs are needed for one to meet what is left of the other, one tool call and one approval for the ways in which
a snapshot, the events and the answers can cross, two requests for one to overtake the other (with a tool call and its approval
two at once are searched only in `chat_gap`, without a fault), one fault for each recovery. Two
conversations are enough for the epochs: what is not selected is not. The bounds are what five minutes allow: an instance with a fault while
the user turns has been run (1,348,815 states) but is too slow to be kept beside these. All properties of `chat_runs` are proved to hold without the bounds and for any
faults (section 8).

The viewer: `MaxEvents` of each session, `MaxLoads` in flight. Two sessions, one with two events, and two loads are enough for two runs to be
confused, for two posts of a run to change their order, for two loads to come back in the wrong order, and for an event to be shown live and
in a history. The same invariants are proved without the bounds.

**Fairness.** `RunController!FairSpec`: weak fairness of each invocation's own steps: a coroutine that has begun is run by the
event loop until it returns, and a transaction on a local SQLite file ends. Nobody is obliged to start, cancel, pause or
crash, and the clock need not advance. `IdempotentExecutor!FairSpec` adds strong fairness of taking the lock:
`asyncio.Lock` wakes its waiters in turn. The downstream tool is assumed to return; the commands have time limits of
their own. `PatchExecutor!FairSpec`: weak fairness of each call's own steps, with the container's time limit
(`timeout_seconds=30`) as one of them; nothing is assumed of the container, the user or the clock.
The chat and the viewer are specified without fairness and checked for safety only: `FallsBehindOnlyWhen` says what holds when nothing more is on its
way, not that this comes about; whether it does depends on the network and the user.

**Mutations.** Each definition whose name is that of its neighbour with a suffix (`CanSaveAnyVersion`) is a plausible
bug: with it in the neighbour's place TLC finds the property it is aimed at violated. They are used by nothing else.

## 8. Proofs

TLAPS proves, for every set of callers, ttl and bounds (`TtlAssumption`, `BoundsAssumption`: a positive ttl and natural
bounds), every set of executors, calls and digests (no assumption), and so on for each module:

- `RunControllerProofs` (1070 obligations). `RunInvariant` proves `RunInv`, the conjunction of `TypeOK`, `LeaseInv` and
  `SaveInv`, inductive. `LeaseInv` is `OneOwner` and `TakeoverChain` plus the ownership of each running invocation's
  token, without which a renewal or release could touch somebody else's row (`RunLeasesAreOwned`; the runs check its first two parts). `SaveInv` is `VersionedHistory` and `Fenced` plus
  "no checkpoint under a lease yet to come", without which `Fenced` is not inductive: a save appends the token of the
  lease in force, which is the newest row, and hence at least every token in the history. (Fencing is guarded twice: a save
  without the lease test would still be stopped by the renewal before it together with the version. So the mutation aimed at
  `Fenced` is one that grants a second lease.)
  `OneOwner`, `TakeoverChain`, `Fenced`, `VersionedHistory`, `TerminalIsFinal`, `OneAttemptPerFailure` and
  `TakenOnlyWhenExpired` follow.
- `RunStaysFresh`, for `MaxPauses = 0`: `FreshInv`. Its core is `SafeToSave(p)`: the state p holds is the version's own, or
  the version is out of date, or p's lease is not in force, so that in both remaining cases the save is refused. What
  makes resume's fresh version harmless is that a waiting run has only its first checkpoint; this is where pauses break
  it. From it `HistoryIsLinear` and `RunRefinement`: every step of the controllers is a step of `RunLog` or none.
- `EffectProofs` (388 obligations). `EffectInvariant` proves `EffectInv` inductive: before the claim nothing has happened
  (`OpenInv`); a call past the claim holds the only claim there ever was, though its row may meanwhile be UNKNOWN
  (`ClaimInv`); what is settled is what ran (`SettledInv`, `RowInv`). From it `AtMostOnce`, `AnswersAgree`,
  `RecordIsTruthful`, `SettledNeverChanges` and the refinement of `EffectOnce`.
- `PatchProofs` (697 obligations), for any executors, requests, patches, verdicts, edits and at least one file (`PatchOfAssumption`,
  `SizeAssumption`, `ContentAssumption`; `PolicyAssumption` is not needed). `PatchInvariant` proves `PatchInv`, the
  conjunction of one part for each link of the chain: the call's locals (`CallInv`), authorization to capability to intent (`GrantInv`),
  intent to claim to container (`ClaimInv`), the script's place to the files (`DiskInv`), files to a commit (`CommitInv`), row to
  answers (`RecordInv`). The proof takes the state apart the other way: `ApplierMoves`, `GrantMoves`, `RowMoves`,
  `AnswerMoves` and `CallMoves` say which steps touch which part, so that each part of the invariant meets the few steps it depends
  on. What makes it hold: the claim happens once, so there is one container, so every file with a patch in it was
  written by that one (`AppliedMeansStarted`), and reconciliation may trust the files. From it the five other properties of
  `patches_granted`.
- `ChatProofs` (1462 obligations), for any conversations, bounds and faults (`ServerAssumption`, `ClientAssumption`). `ClientInv` says that the
  requests are well formed, that a fresh one is of the selected conversation, and where the connection may be; from it
  `SourceFollowsSelection`: only a restoration that is still fresh connects, and every selection closes the source and makes
  all requests stale. `ServerInv` adds the shapes of the tables and tasks to `OneActiveRun` and `OwnedRun` themselves; each needs the other:
  the run a POST has begun is the latest one, so a task that is started is that of the only active run. Each step is shown either
  to leave runs, tasks and begun requests alone (`AsideKeeps`), or to move one run under its owner. A write that lands late moves a run without
one, but makes no ended run active (`LateSteps`, `LateWriteKeeps`), and a Stop that fails says so in `orphaned` (`OvertakingSteps`). `NothingIsTakenBack` needs only that a view
  keeps its parts: every operator of the reducer is shown to grow the view (`GrowsInto`), and a step changes one view by one or
  a chain of them (`OneViewGrows`).
- `ChatViewProofs` (1806 obligations). `EndsAreFinal` needs only that every write of a run ripens it (`Ripens`): an end, the end of a tool
  call and an answer stay, but for the late upsert: `LateTrue`, a part of `ViewInv`, says that one is on its way only to an interrupted run whose tool
call has not ended, so that it takes back nothing. For the view `ViewInv` adds to `ServerInv` and `ClientInv` that everything on its way to the page has been true:
  each answer in flight (`GotTrue`), each event written, queued or delivered (`EventTrue`: what an event tells of was written before), each
  view (`ViewTrue`). It is inductive because what was true of ripening runs stays true (`TruthStays`) and because a merge of two true
  parts is true (`MergedTrue`). From it `ViewIsBehindServer` and `ChatTypes`.
- `ChatCatchUpProofs` (5399 obligations). The other direction: nothing the server holds is lost to the page. `CatchUpInv` says, for each part of
  the view by itself, that it is as the server's or that something will make it so: a request in flight that has not got its answer or
  has got the current one, an event queued or to be published, a task with more to do, a POST or Stop that will be followed by a
  reload. For a part that is overwritten (state, list of runs) it is the last request of the page that counts (`LastBrings`); for one that is
  merged (messages, tool calls) any will do. An error is to be passed by a restoration younger than it (`ErrorsPass`), and a `run.started` in the
  queue by what comes after it (`StartsAreFollowed`). It rests on `PostsInv` (a run that was begun and not started is nobody else's and the
  latest) and `ConnectionInv` (one restoration at a time, and the connection is closed meanwhile; what was told has ended). The steps
  are proved not on the state but on values: `AddedOnward`, `RemovedOnward`, `ChangedOnward` say what a request that joins, leaves or
  moves on does to what is awaited, `AppliedOnward` and `FollowedOnward` what an answer does that is shown, `WriteOnward`, `PublishOnward`, `BeginOnward`,
  `DecideOnward`, `StopOnward` and `LateOnward` what the server does, `ToldOnward`, `StartOnward`, `AskedOnward` and `EndOnward` what an event does.
  From it `BehindOnlyWhen` and `ActivitiesAreFinal`. Neither uses a bound, the order of the GETs (`InOrder`) or the queue's size.
- `TraceProofs` (917 obligations), for any sessions and conversations (`ViewerAssumption`). `TraceInv` is inductive: what is shown live and what
  is queued of one run is in order but for what was taken late, and neither about to be posted nor overdue, so that no post is shown twice
  (`LiveInOrder`, `IsPosted`, `PostsArePast`), a load that was answered holds a prefix of its trace
  (`LoadsAreTraces`), and the history variable misses no crossing (`CrossingIsNoticed`). From it `OneTrace` and `ShowsWhatIsLoaded`.
- `SequenceLemmas` (68 obligations): what RemoveAt, Append and SubSeq keep, used by both.

Every invariant and every action property a passing run checks is the subject of a theorem. Only model-checked: the liveness
properties (`TerminalQuiesces`, `CallsReturn`), which are beyond the prover, and the five violations, which are counterexamples. `ViewInv`, `PostsInv`,
`ConnectionInv` and `CatchUpInv` were checked with TLC on instances of `MCChat` before they were proved; no run repeats that.

## 9. Disagreements between documents and code

1. *Recovery may replay persisted work* (`run_replay`). `resume` reads the run and its checkpoint before it acquires the
   lease (`durable/controller.py:116-122`), and starts the loop on that state when the run was read as RUNNING. If the
   previous owner saved in between and its lease then went away, the new owner works on a superseded checkpoint. The
   save at the end of that work is refused, so the history stays linear (`LinearHistory`), but the model request or
   tool call was made again. `src/docs/agent-plans/2026-08-08-phase-2-controllable-coding-agent-plan.md:714` says
   recovery does not replay persisted model decisions or tool results, and line 710 has the controller take the lease
   first. Tool calls with side effects are still not repeated where the ledger of section 3 is in use.
2. *A resumed pause may lose a checkpoint* (`run_pause_lost`). After a pause `resume` takes the version from its own
   transition, that is the fresh one, with the state loaded before it; so the compare-and-set accepts a save that continues an
   old checkpoint. Line 613 of the same plan: an old state version cannot overwrite newer state. It takes an external
   `transition_status` from RUNNING to PAUSED or WAITING_APPROVAL, which the tables allow and nothing does yet.
3. *A failed patch may leave a part of it* (`patch_partial`). The script undoes what it did when it fails, but when its
   container is ended from outside between two files, by the 30 second limit or a kill, nobody does. The call returns
   `PATCH_EFFECT_UNKNOWN`, a failure (`tools/patch/apply_patch.py:371-376`). Line 1144 of the same plan: a rejection or failure leaves
   no partial modification. The row is then UNKNOWN, never ROLLED_BACK (`ChangeIsOnRecord`), and later calls are refused.
4. *The catch-up does not close the gap* (`chat_gap`). `connectStream` creates the EventSource and at once requests the tool calls
   (`App.tsx:334`), while the server subscribes only when it generates the response of the stream (`chat/api.py:580-585`,
   `chat/events.py:382-387`). A tool call persisted after the catch-up was answered and published before the subscription is in
   neither. `src/docs/superpowers/specs/2026-08-08-structured-chat-message-rendering-design.md:182-185`: this sequence closes the gap
   between the snapshot and the SSE listener. What is missed is shown when the run has ended (`FinalActivities`), if its end is not missed as
   well, or after the next restoration.
5. *A Stop may leave its run active* (`chat_stop`). `_interrupt_run_sync` reads the status in one transaction and moves the run from it in another
   (`chat/repository.py:1189-1197`). A call of the task just cancelled that lands in between - queued to running, or running to
   waiting for an approval - makes the second raise `ChatConflictError`, which nobody catches (`chat/runner.py:255-259`, `chat/api.py:538-539`).
   The Stop is answered with an error, and the run is active with its task gone. (A completion that lands there makes the Stop fail as well, but the run
   has ended.)
   `src/docs/agent-plans/2026-09-08-phase-2-post-3x3-reliability-fixes-plan.md:232`: the user need not kill the chat process, a running run can be
   stopped and is then `interrupted`. A second Stop ends it (`InterruptRun` with no task), and so does the next start.

What the documents claim and the runs and theorems confirm: at any time one valid owner (line 664; `OneOwner`); committed effects
are not repeated and uncertain ones not retried (line 779; `AtMostOnce`, `SettledNeverChanges`); nothing
but a patch that was allowed or approved for this run is written (line 1144; `OnlyGrantedPatchRuns`).

## 10. Not modelled, and the plan

`PROJECT.json` gives the reason for each component. Pure text work (parsers, prompts, formatting), HTTP, the CLI
and the evaluations stay out for good. Of the modelled parts these are left out:

- *Chat page*: the conversation list and its reloads, the plan panel, the loading flag, the permission profile, contents and Markdown,
  scrolling and layout, command output. None of them is read by what is modelled, except that a run in flight disables the
  permission select.
- *Chat server*: the durable twin of a run (`chat/runner.py:290-331`) and `chat/durable_checkpoint.py`, capabilities asked for
  through `request_capability`, several tool calls or approvals in one run, conversations and their settings, shutdown without a
  crash. A user's interruption leaves the activity of a running tool call as it is (`chat/repository.py:1189`): the model has it, and the
  properties of the view look away from such a run (`ShowsActivity`), whose page may show either.
- *Viewer*: tabs, filter, auto-scroll and the rendering of an event; `viewer/stream.py`'s queue of 256 never fills in the
  model: a publisher that waits for a page that does not read is, for the agent, a post that fails and may be taken late.

The plan, in order:

1. **The durable twin.** `run_turn` with `_ensure_durable_run` and `_transition_durable`, and `interrupt_unfinished` over both tables; the process dies
   between completing the chat run and the durable run (`chat/runner.py:101-217`).
2. **The command executor.** `run_command` on `Capabilities` and `SideEffectLedger`, with the workspace snapshot and the output
   limits of the container; `Capabilities` for several calls whose profile version changes while they wait, with `ApprovalCoordinator` as the decider.
3. **Agent loop.** The step machine with its checkpoints, tool queue, budgets and recovery decisions; it refines what `RunController`
   assumes of it. Provider attempts with `reserve_provider_attempt`, back-off and rate limiting.
4. **Command output, planning, context, storage**: retention against readers, the plan's step machine, compaction keeping
   call and result together, migrations.
