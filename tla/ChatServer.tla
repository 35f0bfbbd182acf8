----------------------------- MODULE ChatServer -----------------------------
(***************************************************************************)
(* The chat server: the tables behind chat/repository.py, the one task a   *)
(* conversation may have (chat/supervisor.py, chat/runner.py), the waiter  *)
(* of an approval (chat/approvals.py) and the broker of the live events    *)
(* (chat/events.py) with the connection of one browser.                    *)
(*                                                                         *)
(* A repository call is one transaction and one step.  A task first writes *)
(* and then publishes, in separate steps, so that it can be cancelled and  *)
(* the process can die in between: task[c].out is what it has written and  *)
(* not yet published.  A call handed to its thread is not cancelled with   *)
(* the task: late, no column of the table, is the write of a cancelled     *)
(* task that is still to land.                                             *)
(***************************************************************************)
EXTENDS ChatView

CONSTANTS
  Conversations,
  MaxRuns,        \* bound: MaxRuns[c] runs are begun in conversation c
  QueueSize,      \* the broker's queue_size
  ToolOutcomes    \* bound: how a tool call in conversation c may end; none is made without

ASSUME ServerAssumption ==
  /\ MaxRuns \in [Conversations -> Nat]
  /\ QueueSize \in Nat \ {0}
  /\ ToolOutcomes \in [Conversations -> SUBSET {"completed", "failed"}]

VARIABLES
  runs,     \* runs[c]: the runs of a conversation, oldest first
  task,     \* task[c]: the supervisor's task of a conversation
  up,       \* the process is running
  stream    \* stream[c]: the browser's event connection

serverVars == <<runs, task, up, stream>>

(* Approved or denied: nothing here depends on which. *)
ApprovalStatuses == {"pending", "decided", "invalidated"}

Run == [status : RunStatuses,
        activity : ActivityStatuses \union {"none"},
        approval : ApprovalStatuses \union {"none"},
        late : ActivityStatuses \union {"start", "fail", "none"}]

NewRun == [status |-> "queued", activity |-> "none", approval |-> "none", late |-> "none"]

NoTask == [run |-> 0, out |-> <<>>]

(* A connection is asked for, then subscribed to the broker, then broken   *)
(* or closed; only a subscribed one has a queue.                           *)
Closed == [phase |-> "closed", queue |-> <<>>]
Connecting == [phase |-> "connecting", queue |-> <<>>]
Subscribed == [phase |-> "open", queue |-> <<>>]
Broken == [phase |-> "broken", queue |-> <<>>]

ServerTypeOK ==
  /\ runs \in [Conversations -> Seq(Run)]
  /\ task \in [Conversations -> [run : Nat, out : Seq(Event)]]
  /\ up \in BOOLEAN
  /\ stream \in [Conversations ->
                   [phase : {"closed", "connecting", "open", "broken"},
                    queue : Seq(Event)]]

ServerInit ==
  /\ runs = [c \in Conversations |-> <<>>]
  /\ task = [c \in Conversations |-> NoTask]
  /\ up = TRUE
  /\ stream = [c \in Conversations |-> Closed]

ActiveRuns(c) == {n \in DOMAIN runs[c] : runs[c][n].status \in ActiveStatuses}

-----------------------------------------------------------------------------
(* What the GET handlers answer, from the runs rs of a conversation. *)

Messages(rs) ==
  {UserMessage(n) : n \in DOMAIN rs}
    \union {AssistantMessage(n) :
              n \in {m \in DOMAIN rs : rs[m].status = "completed"}}

RunList(rs) == [n \in DOMAIN rs |-> rs[n].status]

ActivityList(rs) ==
  [n \in {m \in DOMAIN rs : rs[m].activity # "none"} |-> rs[n].activity]

(* The latest run, and its pending approval while it waits for one. *)
ConversationState(rs) ==
  LET n == Len(rs) IN
  IF n = 0
  THEN [run |-> 0, status |-> "none", pending |-> 0]
  ELSE [run |-> n, status |-> rs[n].status,
        pending |-> IF rs[n].status = "waiting_approval" /\ rs[n].approval = "pending"
                    THEN n ELSE 0]

-----------------------------------------------------------------------------
(* What a task does to its run, as the set of the runs that may result;    *)
(* empty when the repository refuses.                                      *)

WithStatus(r, status) == [r EXCEPT !.status = status]

If(guard, results) == IF guard THEN results ELSE {}

Started(r) == If(r.status = "queued", {WithStatus(r, "running")})

(* upsert_tool_activity of the first and of the last event of a tool call. *)
(* One that fails is only logged, and its event is not published: the tool *)
(* call is never seen, or stays as it was.                                 *)
ToolCalled(c, r) ==
  If(r.status = "running" /\ r.activity = "none" /\ ToolOutcomes[c] # {},
     {[r EXCEPT !.activity = "running"]})

ToolEnded(c, r) ==
  If(r.status = "running" /\ r.activity \in {"none", "running"},
     {[r EXCEPT !.activity = o] : o \in ToolOutcomes[c]})

(* request() moves the run first and creates the approval afterwards. *)
Asking(c, r) ==
  If(/\ r.status = "running"
     /\ r.activity \in {"none", "running"}
     /\ r.approval = "none"
     /\ ToolOutcomes[c] # {},
     {WithStatus(r, "waiting_approval")})

Asked(r) ==
  If(r.status = "waiting_approval" /\ r.approval = "none",
     {[r EXCEPT !.approval = "pending"]})

IsDecided(r) == r.status = "waiting_approval" /\ r.approval = "decided"

(* _finish_decision, once the future of the waiter is set. *)
Resumed(r) == If(IsDecided(r), {WithStatus(r, "running")})

Completed(r) == If(r.status = "running", {WithStatus(r, "completed")})

Failed(r) == If(r.status \in {"queued", "running"}, {WithStatus(r, "failed")})

Upserted(c, r) == ToolCalled(c, r) \union ToolEnded(c, r)

(* A call already handed to its thread is not cancelled with its task: it  *)
(* lands and nothing is published for it.                                  *)
Landed(c, r) ==
  Started(r) \union Upserted(c, r) \union Asking(c, r) \union Asked(r)
    \union Completed(r) \union Failed(r)

(* It may land after the run has been left or interrupted.  An upsert does *)
(* not look at the status of the run.                                      *)
LateLanded(r) ==
  LET landed == [r EXCEPT !.late = "none"] IN
  If(r.late = "start", Started(landed))
    \union If(r.late = "fail", Failed(landed))
    \union If(r.late \in ActivityStatuses, {[landed EXCEPT !.activity = r.late]})

-----------------------------------------------------------------------------
(* The steps of a task: write, publish, write, ... until the run has ended. *)

Working(c) == up /\ task[c].run # 0 /\ task[c].out = <<>>

Owned(c) == runs[c][task[c].run]

Write(c, r, types) ==
  /\ runs' = [runs EXCEPT ![c][task[c].run] = r]
  /\ task' = [task EXCEPT ![c].out =
                [i \in DOMAIN types |-> [type |-> types[i], run |-> task[c].run]]]
  /\ UNCHANGED <<up, stream>>

StartTurn(c) ==
  Working(c) /\ \E r \in Started(Owned(c)) : Write(c, r, <<"run.started">>)

RequestTool(c) ==
  Working(c) /\ \E r \in ToolCalled(c, Owned(c)) : Write(c, r, <<"tool.requested">>)

FinishToolCompleted(c) ==
  Working(c) /\ \E r \in ToolEnded(c, Owned(c)) : Write(c, r, <<"tool.completed">>)

FinishTool(c) ==
  /\ Working(c)
  /\ \E r \in ToolEnded(c, Owned(c)) :
       Write(c, r, IF r.activity = "completed"
                   THEN <<"tool.completed">> ELSE <<"tool.failed">>)

AwaitApproval(c) == Working(c) /\ \E r \in Asking(c, Owned(c)) : Write(c, r, <<>>)

CreateApproval(c) ==
  Working(c) /\ \E r \in Asked(Owned(c)) : Write(c, r, <<"approval.requested">>)

FinishDecision(c) ==
  Working(c) /\ \E r \in Resumed(Owned(c)) : Write(c, r, <<"approval.resolved">>)

CompleteRun(c) ==
  /\ Working(c)
  /\ \E r \in Completed(Owned(c)) :
       Write(c, r, <<"assistant.message.completed", "run.completed">>)

FailRun(c) ==
  Working(c) /\ \E r \in Failed(Owned(c)) : Write(c, r, <<"run.failed">>)

(* The broker keeps the newest events when a queue is full, and has nobody *)
(* to give an event to when nobody has subscribed.                         *)
Newest(q) ==
  IF Len(q) <= QueueSize THEN q ELSE SubSeq(q, Len(q) - QueueSize + 1, Len(q))

Published(c, events) ==
  IF stream[c].phase = "open"
  THEN [stream EXCEPT ![c].queue = Newest(stream[c].queue \o events)]
  ELSE stream

(* Nothing is awaited between two events published together. *)
Publish(c) ==
  /\ up
  /\ task[c].out # <<>>
  /\ stream' = Published(c, task[c].out)
  /\ task' = [task EXCEPT ![c].out = <<>>]
  /\ UNCHANGED <<runs, up>>

(* The task is over with its run, whoever ended it; its done callback      *)
(* removes it.                                                             *)
EndTask(c) ==
  /\ Working(c)
  /\ Owned(c).status \in TerminalStatuses
  /\ task' = [task EXCEPT ![c] = NoTask]
  /\ UNCHANGED <<runs, up, stream>>

TaskStep(c) ==
  \/ StartTurn(c)
  \/ RequestTool(c)
  \/ FinishTool(c)
  \/ AwaitApproval(c)
  \/ CreateApproval(c)
  \/ FinishDecision(c)
  \/ CompleteRun(c)
  \/ FailRun(c)
  \/ Publish(c)
  \/ EndTask(c)

-----------------------------------------------------------------------------
(* The POST handlers, each a step the request of a client takes.           *)

(* begin_run: the user message and the queued run in one transaction.      *)
BeginRunUnguarded(c) ==
  /\ up
  /\ Len(runs[c]) < MaxRuns[c]
  /\ runs' = [runs EXCEPT ![c] = Append(@, NewRun)]
  /\ UNCHANGED <<task, up, stream>>

BeginRun(c) ==
  /\ up
  /\ Len(runs[c]) < MaxRuns[c]
  /\ ActiveRuns(c) = {}
  /\ runs' = [runs EXCEPT ![c] = Append(@, NewRun)]
  /\ UNCHANGED <<task, up, stream>>

BeginRefused(c) == up /\ ActiveRuns(c) # {} /\ UNCHANGED serverVars

(* supervisor.start: a run begun while the task of the last one is still   *)
(* publishing is failed, and nobody is told but the caller.                *)
StartTask(c, n) ==
  /\ up
  /\ task[c].run = 0
  /\ task' = [task EXCEPT ![c].run = n]
  /\ UNCHANGED <<runs, up, stream>>

StartRefusedKeepingRun(c, n) == up /\ task[c].run # 0 /\ UNCHANGED serverVars

StartRefused(c, n) ==
  /\ up
  /\ task[c].run # 0
  /\ runs' = IF runs[c][n].status \in TerminalStatuses
             THEN runs
             ELSE [runs EXCEPT ![c][n].status = "failed"]
  /\ UNCHANGED <<task, up, stream>>

(* interrupt_run reads the run and the approval it waits for, and then     *)
(* cancels the task of the conversation, interrupts the run unless it has  *)
(* ended meanwhile and invalidates the approval it has read.  A waiter     *)
(* that has its decision publishes it before it gives up.  The repository  *)
(* reads the status of the run and moves it from that status in two        *)
(* transactions.                                                           *)
InterruptAccepted(c, n) ==
  up /\ runs[c][n].status \in ActiveStatuses /\ UNCHANGED serverVars

InterruptRefused(c, n) ==
  up /\ runs[c][n].status \notin ActiveStatuses /\ UNCHANGED serverVars

InterruptedAnyway(r) == WithStatus(r, "interrupted")

Interrupted(r) ==
  IF r.status \in TerminalStatuses THEN r
  ELSE [r EXCEPT !.status = "interrupted", !.late = "none"]

Settled(r, approval) ==
  Interrupted(IF approval # 0 /\ r.approval = "pending"
              THEN [r EXCEPT !.approval = "invalidated"] ELSE r)

(* The task of run n waits for a call that is in its thread, or can be.    *)
IsWriting(c, n) == task[c].run = n /\ task[c].out = <<>>

(* Interrupted before any write of the task, an upsert of which may be     *)
(* still to land ...                                                       *)
Stopped(c, n, approval) ==
  {Settled(runs[c][n], approval)}
    \union If(IsWriting(c, n),
              {[Settled(runs[c][n], approval) EXCEPT !.late = r.activity] :
                 r \in Upserted(c, runs[c][n])})

(* ... or after one.                                                       *)
Cancelled(c, n, approval) ==
  Stopped(c, n, approval)
    \union If(IsWriting(c, n), {Interrupted(r) : r \in Landed(c, runs[c][n])})

(* A change of the run's status that lands between the two transactions.   *)
Overtaking(c, n) ==
  LET r == runs[c][n] IN
  If(IsWriting(c, n),
     Started(r) \union Asking(c, r) \union Completed(r) \union Failed(r))
    \union If(r.late \in {"start", "fail"}, LateLanded(r))

CancelTask(c) ==
  LET n == task[c].run IN
  /\ up
  /\ task' = [task EXCEPT ![c] = NoTask]
  /\ stream' = IF n # 0 /\ task[c].out = <<>> /\ IsDecided(runs[c][n])
               THEN Published(c, <<[type |-> "approval.resolved", run |-> n]>>)
               ELSE stream
  /\ UNCHANGED up

InterruptRun(c, n, approval) ==
  /\ task[c].run \in {0, n}
  /\ CancelTask(c)
  /\ \E r \in Cancelled(c, n, approval) : runs' = [runs EXCEPT ![c][n] = r]

(* When the run meant has ended and another has been begun since, it is    *)
(* the task of that one: interrupted by its own handler once it has begun  *)
(* its turn, and left before or when it was about to fail, with a write    *)
(* never made, landed or still to land.                                    *)
GivenUp(r, late, written) == UNION {{r, w, [r EXCEPT !.late = late]} : w \in written}

Abandoned(c, n) ==
  LET r == runs[c][n]
      isStarting == r.status = "queued" \/ task[c].out = <<[type |-> "run.started", run |-> n]>>
  IN (IF isStarting THEN {r} \union GivenUp(r, "start", Started(r)) ELSE Cancelled(c, n, 0))
       \union If(IsWriting(c, n), GivenUp(r, "fail", Failed(r)))

InterruptOther(c, n) ==
  /\ task[c].run \notin {0, n}
  /\ CancelTask(c)
  /\ \E r \in Abandoned(c, task[c].run) : runs' = [runs EXCEPT ![c][task[c].run] = r]

(* The interruption of run n, or the one the cancelled task has begun of   *)
(* its own, finds the status changed and fails: the run is left as it is,  *)
(* with nobody to go on with it.                                           *)
InterruptFails(c, n) ==
  LET m == IF task[c].run = 0 THEN n ELSE task[c].run IN
  /\ CancelTask(c)
  /\ \E r \in Overtaking(c, m) :
       /\ m = n \/ r.status \in {"waiting_approval", "completed"}
       /\ runs' = [runs EXCEPT ![c][m] = r]

(* A write of a cancelled task lands; nothing is published for it.         *)
LandLate(c, n) ==
  /\ up
  /\ \E r \in LateLanded(runs[c][n]) : runs' = [runs EXCEPT ![c][n] = r]
  /\ UNCHANGED <<task, up, stream>>

(* resolve: only the waiter of this process, once its request is published, *)
(* and only a pending approval.                                             *)
IsWaiting(c, n) ==
  /\ task[c].run = n
  /\ task[c].out = <<>>
  /\ runs[c][n].status = "waiting_approval"
  /\ runs[c][n].approval = "pending"

DecideApproval(c, n) ==
  /\ up
  /\ IsWaiting(c, n)
  /\ runs' = [runs EXCEPT ![c][n].approval = "decided"]
  /\ UNCHANGED <<task, up, stream>>

DecideRefused(c, n) == up /\ ~IsWaiting(c, n) /\ UNCHANGED serverVars

-----------------------------------------------------------------------------
(* A crash loses the tasks, the waiters and the subscriptions; start-up    *)
(* runs interrupt_unfinished before it serves.                             *)

Crash ==
  /\ up
  /\ up' = FALSE
  /\ task' = [c \in Conversations |-> NoTask]
  /\ stream' = [c \in Conversations |->
                  IF stream[c].phase = "closed" THEN Closed ELSE Broken]
  /\ UNCHANGED runs

RecoveredActivity(r) ==
  IF r.activity = "running" /\ r.status \in ActiveStatuses
  THEN "interrupted" ELSE r.activity

Recovered(r) ==
  [status |-> IF r.status \in ActiveStatuses THEN "interrupted" ELSE r.status,
   activity |-> RecoveredActivity(r),
   approval |-> IF r.approval = "pending" THEN "invalidated" ELSE r.approval,
   late |-> "none"]

Restart ==
  /\ ~up
  /\ up' = TRUE
  /\ runs' = [c \in Conversations |->
                [n \in DOMAIN runs[c] |-> Recovered(runs[c][n])]]
  /\ UNCHANGED <<task, stream>>
=============================================================================
