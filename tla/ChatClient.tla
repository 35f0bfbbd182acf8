----------------------------- MODULE ChatClient -----------------------------
(***************************************************************************)
(* The browser client, web/chat/App.tsx with its components, over the chat *)
(* server.  Every await of the client is a request in flight: it is        *)
(* issued, each GET it waits for is answered at a time of its own, and     *)
(* then its continuation runs.  A selection counts the epoch up; only      *)
(* equality with the current epoch is ever tested, so a request carries    *)
(* whether it is still `fresh'.                                            *)
(*                                                                         *)
(* submitting, stopping and reconnecting of the source are true exactly    *)
(* while a request of theirs is in flight (each is reset in a finally).    *)
(***************************************************************************)
EXTENDS ChatServer, SequencesExt

CONSTANTS
  MaxRequests,    \* bound: requests in flight at once, while c is selected
  FaultKinds,     \* bound: what may go wrong ...
  MaxFaults,      \* bound: ... and how often, while c is selected
  InOrder,        \* bound: the GETs of one continuation are served in order
  Selectable      \* bound: the conversations between which the user turns

ASSUME ClientAssumption ==
  /\ MaxRequests \in [Conversations -> Nat \ {0}]
  /\ FaultKinds \subseteq {"request", "activities", "connection", "crash"}
  /\ MaxFaults \in [Conversations -> Nat]
  /\ InOrder \in BOOLEAN
  /\ Selectable \subseteq Conversations

VARIABLES
  view,       \* view[c]: what the reducer holds of a conversation
  active,     \* activeConversationId
  locked,     \* the mounted approval card has sent its decision
  requests,   \* what is in flight, in the order of issue
  faults,     \* faults so far
  missed,     \* history: an event was not delivered since the last restoration
  excused,    \* history: ... or the view was overwritten with something older, or a
              \* change made that nobody is told of
  orphaned,   \* history: a Stop has left an active run without its task
  told        \* history: the latest run whose end an event has told since then

clientVars == <<view, active, locked, requests>>
vars == <<runs, task, up, stream, view, active, locked, requests, faults, missed, excused, orphaned, told>>

(* The GETs a continuation waits for. *)
Parts == [restore |-> {"messages", "runs", "activities", "state"},
          reconnect |-> {"messages", "runs", "activities", "state"},
          activities |-> {"activities"},
          state |-> {"state"},
          terminal |-> {"messages", "runs", "state"},
          post |-> {},
          submitted |-> {"messages", "runs"},
          stop |-> {},
          stopped |-> {"runs", "state"},
          decide |-> {}]

Kinds == DOMAIN Parts

(* The order in which a continuation sends them. *)
Rank == [messages |-> 1, runs |-> 2, activities |-> 3, state |-> 4]

(* answer: where the handler of a POST is with it. *)
Answers == {"none", "begun", "accepted", "refused"}

Request(kind, c, session) ==
  [kind |-> kind, conv |-> c, session |-> session, fresh |-> TRUE, ok |-> up,
   answer |-> "none", got |-> <<>>]

InFlight(kinds) == \E i \in DOMAIN requests : requests[i].kind \in kinds
Submitting == InFlight({"post", "submitted"})
Stopping == InFlight({"stop", "stopped"})
Reconnecting == InFlight({"reconnect"})

ClientInit ==
  /\ view = [c \in Conversations |-> EmptyView]
  /\ active \in Conversations
  /\ locked = FALSE
  /\ requests = <<Request("restore", active, 0)>>
  /\ faults = 0
  /\ missed = FALSE
  /\ excused = FALSE
  /\ orphaned = FALSE
  /\ told = 0

Init == ServerInit /\ ClientInit

-----------------------------------------------------------------------------
(* Dispatching. *)

(* A card that is mounted elsewhere afterwards has not sent anything yet;  *)
(* one that stays keeps its lock.                                          *)
Dispatch(c, v) ==
  /\ view' = [view EXCEPT ![c] = v]
  /\ locked' = (locked /\ (c = active => CardPlace(v) = CardPlace(view[c])))

Room == Len(requests) < MaxRequests[active]

MayFail == faults < MaxFaults[active]

Without(i) == RemoveAt(requests, i)

(* A continuation that issues its next request. *)
Next1(i, kind) == [Request(kind, requests[i].conv, requests[i].session)
                     EXCEPT !.fresh = requests[i].fresh]

(* The continuations of a POST do not look at the epoch. *)
Unguarded == {"post", "submitted", "stop", "stopped"}

HasEffect(r) == r.fresh \/ r.kind \in Unguarded

(* A guarded continuation of an earlier epoch does not look at its answers: *)
(* they are dropped here, and it may run at any time.                      *)
Stale(r) ==
  IF r.kind \in Unguarded THEN [r EXCEPT !.fresh = FALSE]
  ELSE [r EXCEPT !.fresh = FALSE, !.got = <<>>]

(* A restoration goes on without its activities when only they fail.      *)
Unanswered(r) ==
  {p \in Parts[r.kind] \ DOMAIN r.got :
     p = "activities" => "noActivities" \notin DOMAIN r.got}

IsDone(r) == r.ok /\ (HasEffect(r) => Unanswered(r) = {})

(* An older request of the same conversation will overwrite what this one  *)
(* brings.                                                                 *)
Overtakes(i) ==
  \E j \in 1..(i - 1) :
    requests[j].conv = requests[i].conv /\ HasEffect(requests[j])

IsAnswered(r) == r.ok /\ IsDone(r) /\ (Parts[r.kind] = {} => r.answer \in {"accepted", "refused"})

-----------------------------------------------------------------------------
(* The server and the network answer. *)

Answer(rs, part) ==
  CASE part = "messages" -> Messages(rs)
    [] part = "runs" -> RunList(rs)
    [] part = "activities" -> ActivityList(rs)
    [] part = "state" -> ConversationState(rs)

Fetched(r, part, value) ==
  [r EXCEPT !.got = [p \in DOMAIN r.got \union {part} |->
                       IF p = part THEN value ELSE r.got[p]]]

Serve(i, part) ==
  /\ up
  /\ requests[i].ok
  /\ HasEffect(requests[i])
  /\ part \in Unanswered(requests[i])
  /\ InOrder => \A p \in Unanswered(requests[i]) : Rank[part] <= Rank[p]
  /\ requests' = [requests EXCEPT ![i] = Fetched(requests[i], part, Answer(runs[requests[i].conv], part))]
  /\ UNCHANGED <<serverVars, view, active, locked, faults, missed, excused, orphaned, told>>

(* A POST is lost on its way to the server, or its answer is lost; the     *)
(* handler does not stop half way for that.  A GET that is lost fails the  *)
(* continuation that waits for it.                                         *)
LoseRequest(i) ==
  /\ "request" \in FaultKinds /\ MayFail
  /\ requests[i].ok /\ requests[i].answer # "begun"
  /\ requests' = [requests EXCEPT ![i].ok = FALSE]
  /\ faults' = faults + 1
  /\ excused' = (excused \/ requests[i].kind \notin {"restore", "reconnect"})
  /\ UNCHANGED <<serverVars, view, active, locked, missed, orphaned, told>>

LoseActivities(i) ==
  /\ "activities" \in FaultKinds /\ MayFail
  /\ requests[i].ok
  /\ requests[i].kind \in {"restore", "reconnect"}
  /\ "activities" \notin DOMAIN requests[i].got
  /\ "noActivities" \notin DOMAIN requests[i].got
  /\ requests' = [requests EXCEPT ![i] = Fetched(requests[i], "noActivities", {})]
  /\ faults' = faults + 1
  /\ UNCHANGED <<serverVars, view, active, locked, missed, excused, orphaned, told>>

LoseConnection(c) ==
  /\ "connection" \in FaultKinds /\ MayFail
  /\ stream[c].phase \in {"connecting", "open"}
  /\ stream' = [stream EXCEPT ![c] = Broken]
  /\ faults' = faults + 1
  /\ UNCHANGED <<runs, task, up, view, active, locked, requests, missed, excused, orphaned, told>>

(* The POST handlers take their steps. *)

Answered(i, answer) == requests' = [requests EXCEPT ![i].answer = answer]

PostBegins(i) ==
  /\ requests[i].kind = "post" /\ requests[i].ok /\ requests[i].answer = "none"
  /\ \/ /\ BeginRun(requests[i].conv)
        /\ requests' = [requests EXCEPT ![i].answer = "begun",
                                        ![i].session = Len(runs[requests[i].conv]) + 1]
     \/ BeginRefused(requests[i].conv) /\ Answered(i, "refused")
  /\ UNCHANGED <<view, active, locked, faults, missed, excused, orphaned, told>>

PostStarts(i) ==
  /\ requests[i].kind = "post" /\ requests[i].ok /\ requests[i].answer = "begun"
  /\ LET c == requests[i].conv
         n == requests[i].session
     IN \/ /\ StartTask(c, n)
           /\ Answered(i, "accepted")
           /\ UNCHANGED excused
        \/ /\ StartRefused(c, n)
           /\ Answered(i, "refused")
           /\ excused' = TRUE
  /\ UNCHANGED <<view, active, locked, faults, missed, orphaned, told>>

StopRead(i) ==
  /\ requests[i].kind = "stop" /\ requests[i].ok /\ requests[i].answer = "none"
  /\ LET c == requests[i].conv
         n == requests[i].session
     IN \/ /\ InterruptAccepted(c, n)
           /\ requests' = [requests EXCEPT
                 ![i].answer = "begun",
                 ![i].got = [approval |-> ConversationState(runs[c]).pending]]
        \/ InterruptRefused(c, n) /\ Answered(i, "refused")
  /\ UNCHANGED <<view, active, locked, faults, missed, excused, orphaned, told>>

(* The queue drops its oldest events for k more. *)
Overflows(c, k) == stream[c].phase = "open" /\ Len(stream[c].queue) + k > QueueSize

(* The run has ended and nobody was told, or will be: its task is cancelled. *)
EndUntold(c, n) ==
  runs[c][n].status \in TerminalStatuses /\ (task[c].out # <<>> \/ missed)

(* A Stop that comes when its run has ended cancels the task of another,   *)
(* and one that fails has cancelled its task: the page is told of neither. *)
StopServed(i) ==
  /\ requests[i].kind = "stop" /\ requests[i].ok /\ requests[i].answer = "begun"
  /\ LET c == requests[i].conv
         n == requests[i].session
         approval == requests[i].got.approval
     IN /\ \/ /\ InterruptRun(c, n, approval)
              /\ Answered(i, "accepted")
              /\ excused' = (\/ excused
                             \/ runs'[c][n] \notin Stopped(c, n, approval)
                             \/ EndUntold(c, n))
              /\ UNCHANGED orphaned
           \/ /\ \/ InterruptOther(c, n) /\ Answered(i, "accepted")
                 \/ InterruptFails(c, n) /\ Answered(i, "refused")
              /\ orphaned' = (\/ orphaned
                              \/ \E m \in DOMAIN runs[c] : runs'[c][m].status \in ActiveStatuses)
              /\ excused' = TRUE
        /\ missed' = (\/ missed
                      \/ c = active /\ stream' # stream /\ Overflows(c, 1))
  /\ UNCHANGED <<view, active, locked, faults, told>>

(* The card keeps nothing of the answer but its lock. *)
DecisionServed(i) ==
  /\ requests[i].kind = "decide" /\ requests[i].ok
  /\ \/ DecideApproval(requests[i].conv, requests[i].session)
     \/ DecideRefused(requests[i].conv, requests[i].session)
  /\ requests' = Without(i)
  /\ UNCHANGED <<view, active, locked, faults, missed, excused, orphaned, told>>

-----------------------------------------------------------------------------
(* The continuations of the client. *)

Loaded(v, got) ==
  LET withMessages == IF "messages" \in DOMAIN got
                      THEN MessagesLoaded(v, got["messages"]) ELSE v
      withRuns == IF "runs" \in DOMAIN got
                  THEN RunsLoaded(withMessages, got["runs"]) ELSE withMessages
      withActivities == IF "activities" \in DOMAIN got
                        THEN ActivitiesLoaded(withRuns, got["activities"])
                        ELSE IF "noActivities" \in DOMAIN got
                             THEN ActivitiesError(withRuns) ELSE withRuns
  IN IF "state" \in DOMAIN got
     THEN StateLoaded(withActivities, got["state"]) ELSE withActivities

(* Show what request i has brought. *)
Apply(i) ==
  /\ Dispatch(requests[i].conv, Loaded(view[requests[i].conv], requests[i].got))
  /\ excused' = (excused \/ Overtakes(i))

Ignore == UNCHANGED <<view, locked, excused, orphaned>>

(* ConversationEventStream.connect: there is one source. *)
Connect(c) ==
  stream' = IF stream[c].phase # "closed" THEN stream
            ELSE [d \in Conversations |-> IF d = c THEN Connecting ELSE Closed]

CloseStream == stream' = [d \in Conversations |-> Closed]

RestoreUnguarded(i) ==
  /\ requests[i].kind \in {"restore", "reconnect"} /\ IsDone(requests[i])
  /\ Apply(i)
  /\ Connect(requests[i].conv)
  /\ requests' = Append(Without(i), Next1(i, "activities"))
  /\ UNCHANGED <<runs, task, up, active, faults, missed, orphaned, told>>

RestoreDone(i) ==
  /\ requests[i].kind \in {"restore", "reconnect"} /\ IsDone(requests[i])
  /\ \/ /\ requests[i].fresh
        /\ Apply(i)
        /\ Connect(requests[i].conv)
        /\ requests' = Append(Without(i), Next1(i, "activities"))
     \/ /\ ~requests[i].fresh
        /\ Ignore
        /\ requests' = Without(i)
        /\ UNCHANGED stream
  /\ UNCHANGED <<runs, task, up, active, faults, missed, orphaned, told>>

RestoreFailed(i) ==
  /\ requests[i].kind \in {"restore", "reconnect"} /\ ~requests[i].ok
  /\ IF requests[i].fresh
     THEN /\ Dispatch(requests[i].conv, MessagesError(view[requests[i].conv]))
          /\ UNCHANGED excused
     ELSE Ignore
  /\ requests' = Without(i)
  /\ UNCHANGED <<serverVars, active, faults, missed, orphaned, told>>

ActivitiesRefreshed(i) ==
  /\ requests[i].kind = "activities"
  /\ \/ IsDone(requests[i]) /\ requests[i].fresh /\ Apply(i)
     \/ /\ ~requests[i].ok /\ requests[i].fresh
        /\ Dispatch(requests[i].conv, ActivitiesError(view[requests[i].conv]))
        /\ UNCHANGED excused
     \/ (IsDone(requests[i]) \/ ~requests[i].ok) /\ ~requests[i].fresh /\ Ignore
  /\ requests' = Without(i)
  /\ UNCHANGED <<serverVars, active, faults, missed, orphaned, told>>

(* After an approval event; a failure is nobody's. *)
StateFetched(i) ==
  /\ requests[i].kind = "state"
  /\ IF IsDone(requests[i]) /\ requests[i].fresh
     THEN Apply(i)
     ELSE (IsDone(requests[i]) \/ ~requests[i].ok) /\ Ignore
  /\ requests' = Without(i)
  /\ UNCHANGED <<serverVars, active, faults, missed, orphaned, told>>

(* After the end of a run, followed by the activities. *)
TerminalReloadedOnly(i) ==
  /\ requests[i].kind = "terminal"
  /\ IF IsDone(requests[i]) /\ requests[i].fresh
     THEN Apply(i)
     ELSE (IsDone(requests[i]) \/ ~requests[i].ok) /\ Ignore
  /\ requests' = Without(i)
  /\ UNCHANGED <<serverVars, active, faults, missed, orphaned, told>>

TerminalReloaded(i) ==
  /\ requests[i].kind = "terminal"
  /\ IF IsDone(requests[i]) /\ requests[i].fresh
     THEN /\ Apply(i)
          /\ requests' = Append(Without(i), Next1(i, "activities"))
     ELSE /\ IsDone(requests[i]) \/ ~requests[i].ok
          /\ Ignore
          /\ requests' = Without(i)
  /\ UNCHANGED <<serverVars, active, faults, missed, orphaned, told>>

(* handleSubmitMessage and handleStop do not look at the epoch. *)
PostAnswered(i) ==
  /\ requests[i].kind = "post"
  /\ \/ /\ requests[i].ok /\ requests[i].answer = "accepted"
        /\ LET c == requests[i].conv
               n == requests[i].session
           IN /\ Dispatch(c, EventReceived(view[c], [type |-> "run.started", run |-> n]))
              /\ excused' = (excused \/ view[c].latest = n)
        /\ requests' = Append(Without(i), Next1(i, "submitted"))
     \/ /\ requests[i].answer = "refused" \/ ~requests[i].ok
        /\ Ignore
        /\ requests' = Without(i)
  /\ UNCHANGED <<serverVars, active, faults, missed, orphaned, told>>

StopAnswered(i) ==
  /\ requests[i].kind = "stop"
  /\ \/ /\ requests[i].ok /\ requests[i].answer = "accepted"
        /\ requests' = Append(Without(i), Next1(i, "stopped"))
     \/ /\ requests[i].answer = "refused" \/ ~requests[i].ok
        /\ requests' = Without(i)
  /\ Ignore
  /\ UNCHANGED <<serverVars, active, faults, missed, orphaned, told>>

ReloadedAfterPost(i) ==
  /\ requests[i].kind \in {"submitted", "stopped"}
  /\ IF IsDone(requests[i]) THEN Apply(i) ELSE ~requests[i].ok /\ Ignore
  /\ requests' = Without(i)
  /\ UNCHANGED <<serverVars, active, faults, missed, orphaned, told>>

DecisionFailed(i) ==
  /\ requests[i].kind = "decide" /\ ~requests[i].ok
  /\ Ignore
  /\ requests' = Without(i)
  /\ UNCHANGED <<serverVars, active, faults, missed, orphaned, told>>

-----------------------------------------------------------------------------
(* The event stream. *)

Subscribe(c) ==
  /\ up
  /\ stream[c].phase = "connecting"
  /\ stream' = [stream EXCEPT ![c] = Subscribed]
  /\ UNCHANGED <<runs, task, up, view, active, locked, requests, faults, missed, excused, orphaned, told>>

IsEnd(type) == type \in {"run.completed", "run.failed"}

FollowupOfEndsOnly(type) == IF IsEnd(type) THEN <<"terminal">> ELSE <<>>

Followup(type) ==
  CASE type \in {"approval.requested", "approval.resolved"} -> <<"state">>
    [] IsEnd(type) -> <<"terminal">>
    [] OTHER -> <<>>

(* An event still queued when its run was seen interrupted revives it. *)
IsLate(v, e) ==
  /\ e.type \in {"run.started", "approval.requested", "approval.resolved"}
  /\ e.run < v.latest \/ v.status = "interrupted"

Deliver(c) ==
  /\ Room
  /\ stream[c].phase = "open" /\ stream[c].queue # <<>>
  /\ LET e == Head(stream[c].queue)
         next == Followup(e.type)
     IN /\ Dispatch(c, EventReceived(view[c], e))
        /\ requests' = requests \o [k \in DOMAIN next |-> Request(next[k], c, 0)]
        /\ excused' = (excused \/ IsLate(view[c], e))
        /\ told' = IF IsEnd(e.type) THEN e.run ELSE told
  /\ stream' = [stream EXCEPT ![c].queue = Tail(@)]
  /\ UNCHANGED <<runs, task, up, active, faults, missed, orphaned>>

(* onerror: restore and reconnect, unless a reconnection is under way; the *)
(* browser then asks again by itself.                                      *)
StreamErrorUnrestored(c) ==
  /\ stream[c].phase = "broken" \/ (stream[c].phase = "connecting" /\ ~up)
  /\ stream' = [stream EXCEPT ![c] = Connecting]
  /\ missed' = FALSE
  /\ excused' = FALSE
  /\ told' = 0
  /\ UNCHANGED <<runs, task, up, view, active, locked, requests, faults, orphaned>>

StreamError(c) ==
  /\ stream[c].phase = "broken" \/ (stream[c].phase = "connecting" /\ ~up)
  /\ \/ /\ ~Reconnecting /\ Room
        /\ CloseStream
        /\ Dispatch(c, MessagesLoading(view[c]))
        /\ requests' = Append(requests, Request("reconnect", c, 0))
        /\ missed' = FALSE
        /\ excused' = FALSE
     \/ /\ Reconnecting
        /\ stream' = [stream EXCEPT ![c] = Connecting]
        /\ missed' = TRUE
        /\ UNCHANGED <<view, locked, requests, excused>>
  /\ told' = 0
  /\ UNCHANGED <<runs, task, up, active, faults, orphaned>>

-----------------------------------------------------------------------------
(* The user. *)

Select(c) ==
  /\ c # active /\ Room
  /\ active' = c
  /\ CloseStream
  /\ view' = [view EXCEPT ![c] = MessagesLoading(view[c])]
  /\ locked' = (locked /\ CardPlace(view[c]) = CardPlace(view[active])
                       /\ CardTurn(view[c]) = 0)
  /\ requests' = Append([i \in DOMAIN requests |-> Stale(requests[i])],
                        Request("restore", c, 0))
  /\ missed' = FALSE
  /\ excused' = FALSE
  /\ told' = 0
  /\ UNCHANGED <<runs, task, up, faults, orphaned>>

Issue(kind, session) ==
  /\ Room
  /\ requests' = Append(requests, Request(kind, active, session))
  /\ UNCHANGED <<serverVars, view, active, faults, missed, excused, orphaned, told>>

Submit ==
  /\ ~ComposerDisabled(view[active])
  /\ ~Submitting
  /\ Len(runs[active]) < MaxRuns[active] \/ ActiveRuns(active) # {}
  /\ Issue("post", 0)
  /\ UNCHANGED locked

Stop ==
  /\ StopEnabled(view[active])
  /\ ~Stopping
  /\ Issue("stop", view[active].active)
  /\ UNCHANGED locked

Decide ==
  /\ view[active].approval # 0
  /\ ~locked
  /\ locked' = TRUE
  /\ Issue("decide", view[active].approval)

(* The group of the tool calls is collapsed and expanded: its card is new. *)
ToggleGroup ==
  /\ locked
  /\ CardTurn(view[active]) # 0
  /\ locked' = FALSE
  /\ UNCHANGED <<serverVars, view, active, requests, faults, missed, excused, orphaned, told>>

RetryActivities ==
  /\ view[active].activitiesError
  /\ Issue("activities", 0)
  /\ UNCHANGED locked

-----------------------------------------------------------------------------

(* An event nobody is subscribed for, or one the queue drops, is missed.   *)
Misses(c) ==
  /\ c = active
  /\ task[c].out # <<>>
  /\ stream[c].phase # "open" \/ Overflows(c, Len(task[c].out))

RunTask(c) ==
  /\ TaskStep(c)
  /\ missed' = (missed \/ Misses(c))
  /\ UNCHANGED <<view, active, locked, requests, faults, excused, orphaned, told>>

(* A status that is written late is told to nobody. *)
LateWrite(c) ==
  /\ \E n \in DOMAIN runs[c] :
       /\ LandLate(c, n)
       /\ excused' = (excused \/ runs'[c][n].status # runs[c][n].status)
  /\ UNCHANGED <<view, active, locked, requests, faults, missed, orphaned, told>>

(* Whatever the dead process has not answered is not answered. *)
ServerCrash ==
  /\ "crash" \in FaultKinds /\ MayFail
  /\ Crash
  /\ requests' = [i \in DOMAIN requests |->
                    [requests[i] EXCEPT !.ok = IsAnswered(requests[i])]]
  /\ faults' = faults + 1
  /\ missed' = (missed \/ stream[active].phase = "closed")
  /\ UNCHANGED <<view, active, locked, excused, orphaned, told>>

ServerRestart ==
  /\ Restart
  /\ UNCHANGED <<view, active, locked, requests, faults, missed, excused, orphaned, told>>

-----------------------------------------------------------------------------

Handled(i) ==
  \/ \E part \in Parts[requests[i].kind] : Serve(i, part)
  \/ PostBegins(i)
  \/ PostStarts(i)
  \/ StopRead(i)
  \/ StopServed(i)
  \/ DecisionServed(i)

Continued(i) ==
  \/ RestoreDone(i)
  \/ RestoreFailed(i)
  \/ ActivitiesRefreshed(i)
  \/ StateFetched(i)
  \/ TerminalReloaded(i)
  \/ PostAnswered(i)
  \/ StopAnswered(i)
  \/ ReloadedAfterPost(i)
  \/ DecisionFailed(i)

Streaming(c) == Subscribe(c) \/ Deliver(c) \/ StreamError(c)

User ==
  \/ active \in Selectable /\ \E c \in Selectable : Select(c)
  \/ Submit
  \/ Stop
  \/ Decide
  \/ ToggleGroup
  \/ RetryActivities

Fault ==
  \/ \E i \in DOMAIN requests : LoseRequest(i) \/ LoseActivities(i)
  \/ \E c \in Conversations : LoseConnection(c)
  \/ ServerCrash

Next ==
  \/ \E c \in Conversations : RunTask(c) \/ LateWrite(c) \/ Streaming(c)
  \/ \E i \in DOMAIN requests : Handled(i) \/ Continued(i)
  \/ ServerRestart
  \/ User
  \/ Fault

Spec == Init /\ [][Next]_vars
=============================================================================
