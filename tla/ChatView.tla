------------------------------ MODULE ChatView ------------------------------
(***************************************************************************)
(* What the browser shows of one conversation, and the reducer that        *)
(* changes it: web/chat/state/reducer.ts, types.ts and turns.ts.           *)
(*                                                                         *)
(* The n-th run of a conversation is called n; its session id, its user    *)
(* message and its one tool call and approval all follow from n, and 0     *)
(* stands for null.  Messages, activities and runs keep what a reader can  *)
(* tell apart: who wrote a message in which run, the status of a tool      *)
(* call, the status of a run.  A run has an assistant message exactly when *)
(* it is completed (complete_run writes both at once).                     *)
(***************************************************************************)
EXTENDS Naturals, Sequences

Session == Nat \ {0}

ActiveStatuses == {"queued", "running", "waiting_approval"}
TerminalStatuses == {"completed", "failed", "interrupted"}
RunStatuses == ActiveStatuses \union TerminalStatuses

TerminalActivityStatuses == {"completed", "failed", "interrupted"}
ActivityStatuses == {"running"} \union TerminalActivityStatuses

(* From the runs that have an activity to its status. *)
IsActivities(f) ==
  /\ DOMAIN f \subseteq Session
  /\ f \in [DOMAIN f -> ActivityStatuses]

EventTypes == {"run.started", "tool.requested", "tool.completed", "tool.failed",
               "approval.requested", "approval.resolved",
               "assistant.message.completed", "run.completed", "run.failed"}
Event == [type : EventTypes, run : Session]

Message == [run : Session, role : {"user", "assistant"}]
UserMessage(n) == [run |-> n, role |-> "user"]
AssistantMessage(n) == [run |-> n, role |-> "assistant"]

(* The answer to GET /conversations/{id}/state. *)
StateAnswer == [run : Nat, status : RunStatuses \union {"none"}, pending : Nat]

IsView(v) ==
  /\ v = [messages |-> v.messages, runs |-> v.runs, activities |-> v.activities,
          status |-> v.status, active |-> v.active, latest |-> v.latest,
          approval |-> v.approval, error |-> v.error,
          activitiesError |-> v.activitiesError]
  /\ v.messages \subseteq Message
  /\ v.runs \in Seq(RunStatuses)
  /\ IsActivities(v.activities)
  /\ v.status \in RunStatuses \union {"none"}
  /\ {v.active, v.latest, v.approval} \subseteq Nat
  /\ {v.error, v.activitiesError} \subseteq BOOLEAN

EmptyView ==
  [messages |-> {}, runs |-> <<>>, activities |-> <<>>, status |-> "none",
   active |-> 0, latest |-> 0, approval |-> 0,
   error |-> FALSE, activitiesError |-> FALSE]

-----------------------------------------------------------------------------
(* The two merges. *)

(* By message id; a message never changes, so the later copy is the same. *)
MergeMessages(existing, incoming) == existing \union incoming

(* By session and tool call: a terminal activity is kept, any other is     *)
(* replaced by the incoming one.                                           *)
MergeActivitiesOverwriting(existing, incoming) ==
  [n \in DOMAIN existing \union DOMAIN incoming |->
     IF n \in DOMAIN incoming THEN incoming[n] ELSE existing[n]]

MergeActivities(existing, incoming) ==
  [n \in DOMAIN existing \union DOMAIN incoming |->
     IF /\ n \in DOMAIN existing
        /\ n \in DOMAIN incoming => existing[n] \in TerminalActivityStatuses
     THEN existing[n]
     ELSE incoming[n]]

-----------------------------------------------------------------------------
(* One operator per action of the reducer. *)

MessagesLoading(v) == [v EXCEPT !.error = FALSE]

MessagesLoaded(v, messages) ==
  [v EXCEPT !.messages = MergeMessages(v.messages, messages), !.error = FALSE]

MessagesError(v) == [v EXCEPT !.error = TRUE]

RunsLoaded(v, runs) == [v EXCEPT !.runs = runs]

ActivitiesLoaded(v, activities) ==
  [v EXCEPT !.activities = MergeActivities(v.activities, activities),
            !.activitiesError = FALSE]

ActivitiesError(v) == [v EXCEPT !.activitiesError = TRUE]

(* applyRecoveredRunState; the status of a conversation without a run is deleted. *)
StateLoaded(v, s) ==
  [v EXCEPT !.status = s.status,
            !.latest = s.run,
            !.active = IF s.status \in ActiveStatuses THEN s.run ELSE 0,
            !.approval = s.pending]

(* The activity a tool event tells of, as a function of at most one run. *)
ActivityByEventType(e) == [n \in {e.run} |-> e.type]

ActivityFromEvent(e) ==
  CASE e.type = "tool.requested" -> [n \in {e.run} |-> "running"]
    [] e.type = "tool.completed" -> [n \in {e.run} |-> "completed"]
    [] e.type = "tool.failed" -> [n \in {e.run} |-> "failed"]
    [] OTHER -> <<>>

RunEnded(v, n, status) ==
  [v EXCEPT !.status = status, !.active = 0, !.latest = n, !.approval = 0]

EventReceived(v, e) ==
  CASE e.type = "run.started" ->
         [v EXCEPT !.status = "running", !.active = e.run,
                   !.latest = e.run, !.approval = 0]
    [] e.type = "approval.requested" ->
         [v EXCEPT !.status = "waiting_approval", !.active = e.run, !.approval = 0]
    [] e.type = "approval.resolved" ->
         [v EXCEPT !.status = "running", !.approval = 0]
    [] e.type = "assistant.message.completed" ->
         [v EXCEPT !.messages = MergeMessages(v.messages, {AssistantMessage(e.run)})]
    [] e.type = "run.completed" -> RunEnded(v, e.run, "completed")
    [] e.type = "run.failed" -> RunEnded(v, e.run, "failed")
    [] OTHER ->
         [v EXCEPT !.activities = MergeActivities(v.activities, ActivityFromEvent(e))]

-----------------------------------------------------------------------------
(* What the components derive from it. *)

(* buildConversationTurns: the runs listed whose user message is loaded. *)
Turns(v) == {n \in DOMAIN v.runs : UserMessage(n) \in v.messages}

IsRunActive(v) == v.status \in ActiveStatuses
ComposerDisabled(v) == IsRunActive(v) \/ v.approval # 0
StopEnabled(v) == IsRunActive(v) /\ v.active # 0

(* Where the approval card is mounted: under its tool call or below the    *)
(* group of the active run's turn, or, without a turn, under the timeline. *)
CardTurn(v) == IF v.active \in Turns(v) THEN v.active ELSE 0

CardUnderCall(v) == CardTurn(v) # 0 /\ v.approval \in DOMAIN v.activities

CardPlace(v) ==
  [shown |-> v.approval # 0, turn |-> CardTurn(v), underCall |-> CardUnderCall(v)]
=============================================================================
