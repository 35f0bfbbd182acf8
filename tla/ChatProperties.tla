--------------------------- MODULE ChatProperties ---------------------------
(***************************************************************************)
(* What the browser client and the chat server promise together.           *)
(***************************************************************************)
EXTENDS ChatClient

(* The variables keep their shapes; a request in flight is one the client  *)
(* issues (web/chat/state/types.ts, chat/models.py).                       *)
ChatTypeOK ==
  /\ ServerTypeOK
  /\ DOMAIN view = Conversations
  /\ \A c \in Conversations : IsView(view[c])
  /\ active \in Conversations
  /\ locked \in BOOLEAN
  /\ \A i \in DOMAIN requests :
       /\ requests[i].kind \in Kinds
       /\ requests[i].conv \in Conversations
       /\ requests[i].session \in Nat
       /\ requests[i].fresh \in BOOLEAN
       /\ requests[i].ok \in BOOLEAN
       /\ requests[i].answer \in Answers
  /\ faults \in Nat
  /\ {missed, excused, orphaned} \subseteq BOOLEAN
  /\ told \in Nat

-----------------------------------------------------------------------------
(* The server. *)

(* Only the latest run of a conversation is ever active, whatever is       *)
(* submitted, stopped, decided, lost or restarted (begin_run).             *)
OneActiveRun ==
  \A c \in Conversations : \A n \in ActiveRuns(c) : n = Len(runs[c])

(* An active run is somebody's: of the supervisor's task, or of a POST     *)
(* that has begun it and not yet started it, or of a process that is down. *)
(* Any other would bar its conversation until it is stopped again or the   *)
(* next start-up.  Only a Stop can leave one, and only in two ways: it     *)
(* arrives when its run has ended and the next one has been begun, whose   *)
(* task it cancels; or it fails because a write of the task it cancelled   *)
(* has changed the status it had read (supervisor.start, post_message,     *)
(* interrupt_run, interrupt_unfinished).                                   *)
OwnedRun ==
  ~orphaned => \A c \in Conversations : \A n \in ActiveRuns(c) :
    \/ task[c].run = n
    \/ ~up
    \/ \E i \in DOMAIN requests :
         /\ requests[i].kind = "post" /\ requests[i].ok
         /\ requests[i].answer = "begun"
         /\ requests[i].conv = c
         /\ requests[i].session = n

(* An end is final, and so is an answer to an approval: whichever of a     *)
(* completion, a Stop, a late write of a cancelled task, a refused start   *)
(* and the recovery after a crash is first, the others leave the run as it *)
(* is.  The tool call of a completed or failed run and one that has ended  *)
(* stay as they are; to that of an interrupted run the one upsert of its   *)
(* cancelled task may still be written, and nothing else (complete_run,    *)
(* interrupt_run, fail_run, upsert_tool_activity, interrupt_unfinished).   *)
EndedIsFinal ==
  [][\A c \in Conversations : \A n \in DOMAIN runs[c] :
       LET r == runs[c][n]
           next == runs'[c][n]
       IN /\ r.status \in TerminalStatuses =>
               /\ next.status = r.status
               /\ next.activity # r.activity =>
                    /\ r.status = "interrupted"
                    /\ next.activity = r.late
                    /\ next.late = "none"
               /\ next.late \in {r.late, "none"}
          /\ r.activity \in TerminalActivityStatuses => next.activity = r.activity
          /\ r.approval \in {"decided", "invalidated"} => next.approval = r.approval]_vars

(* "运行中的 run 可以点 Stop：Chat `interrupted`" (the plan of the Stop): a *)
(* Stop that has been answered leaves its run ended.  The interruption     *)
(* reads the status and moves the run in two transactions, and a write of  *)
(* the task it has cancelled can land in between (_interrupt_run_sync).    *)
StopEndsItsRun ==
  \A i \in DOMAIN requests :
    requests[i].kind = "stop" /\ requests[i].answer \in {"accepted", "refused"} =>
      runs[requests[i].conv][requests[i].session].status \in TerminalStatuses

-----------------------------------------------------------------------------
(* The view. *)

(* The one event source is never that of a conversation the user has left, *)
(* however late the restoration of that one ends (selectionEpochRef).      *)
StreamFollowsSelection ==
  \A c \in Conversations : stream[c].phase # "closed" => c = active

(* Nothing is shown that the database does not hold: no message, no        *)
(* activity, no final state of a tool call or of a run - although events   *)
(* are published after what they tell of, answers overtake one another and *)
(* a crash may come between (the reducer; runner.py writes, then           *)
(* publishes).                                                             *)
ViewBehindServer ==
  \A c \in Conversations :
    /\ view[c].messages \subseteq Messages(runs[c])
    /\ DOMAIN view[c].activities \subseteq DOMAIN ActivityList(runs[c])
    /\ \A n \in DOMAIN view[c].activities :
         view[c].activities[n] \in TerminalActivityStatuses =>
           runs[c][n].activity = view[c].activities[n]
    /\ view[c].status \in TerminalStatuses =>
         runs[c][view[c].latest].status = view[c].status

(* No message disappears, and no tool call is taken back: one shown stays, *)
(* and one shown as ended stays as it ended (mergeMessages,                *)
(* mergeActivities).                                                       *)
ViewGrows ==
  [][\A c \in Conversations :
       /\ view[c].messages \subseteq view'[c].messages
       /\ \A n \in DOMAIN view[c].activities :
            /\ n \in DOMAIN view'[c].activities
            /\ view[c].activities[n] \in TerminalActivityStatuses =>
                 view'[c].activities[n] = view[c].activities[n]]_vars

-----------------------------------------------------------------------------
(* The view when nothing more is on its way. *)

(* Every request of the client has been answered, every event delivered,   *)
(* and the server waits for the user.                                      *)
Quiet(c) ==
  /\ c = active
  /\ up
  /\ requests = <<>>
  /\ stream[c].phase = "open"
  /\ stream[c].queue = <<>>
  /\ task[c].out = <<>>
  /\ \/ task[c].run = 0
     \/ IsWaiting(c, task[c].run)

(* The tool call of run n is shown as it is; what a user's interruption    *)
(* leaves running is not looked at.                                        *)
ShowsActivity(rs, v, n) ==
  \/ rs[n].status = "interrupted"
  \/ n \in DOMAIN v.activities /\ v.activities[n] = rs[n].activity

ShowsActivities(rs, v) == \A n \in DOMAIN ActivityList(rs) : ShowsActivity(rs, v, n)

ShowsState(v, s) ==
  /\ v.status = s.status
  /\ v.latest = s.run
  /\ v.approval = s.pending
  /\ v.active = IF s.status \in ActiveStatuses THEN s.run ELSE 0

InStep(c) ==
  /\ ShowsState(view[c], ConversationState(runs[c]))
  /\ view[c].messages = Messages(runs[c])
  /\ ShowsActivities(runs[c], view[c])
  /\ task[c].run = 0 => view[c].runs = RunList(runs[c])
  /\ ~view[c].error /\ ~view[c].activitiesError

(* Then what is shown is what the server holds - the latest run and its    *)
(* status, the approval asked for, the messages, the tool calls and,       *)
(* between runs, the list of the runs - and no error is shown, unless      *)
(* since the last restoration an event was published with nobody           *)
(* subscribed or was dropped from a full queue, or the view was            *)
(* overwritten with an older answer or event, or a run was changed with    *)
(* nothing published: by a refused start, by a Stop of another run or one  *)
(* that failed, or by a write of a cancelled task.  Where the client falls *)
(* behind is thereby said exactly (restoreConversationHttp, connectStream, *)
(* handleSubmitMessage, handleStop).                                       *)
FallsBehindOnlyWhen ==
  \A c \in Conversations : Quiet(c) /\ ~missed /\ ~excused => InStep(c)

(* The page has shown every tool call as it ended, of the run whose end it *)
(* was told of and of all before, even when the events of the calls        *)
(* themselves were dropped from a full queue or published before the       *)
(* subscription: the activities are loaded again after an end              *)
(* (connectStream, refreshActivities).                                     *)
FinalActivities ==
  \A c \in Conversations :
    Quiet(c) /\ ~excused =>
      \A n \in DOMAIN ActivityList(runs[c]) : n <= told => ShowsActivity(runs[c], view[c], n)

(* "This snapshot-subscribe-catch-up sequence closes the gap in which an   *)
(* event could be persisted after the initial HTTP snapshot but before the *)
(* SSE listener becomes active": with no answer out of order and no event  *)
(* dropped, every persisted tool call is shown.  The catch-up is sent      *)
(* before the server has subscribed (connectStream), so that it does not.  *)
SnapshotClosesGap ==
  \A c \in Conversations : Quiet(c) /\ ~excused => ShowsActivities(runs[c], view[c])
=============================================================================
