--------------------------- MODULE ChatInvariants ---------------------------
(***************************************************************************)
(* The inductive invariants behind the properties of the view: ViewInv,    *)
(* that nothing on its way to the page is ahead of the server, and         *)
(* CatchUpInv, that wherever the page is behind, something on its way will *)
(* tell it.  Their parts are about the values of the variables: rs the     *)
(* runs of a conversation, t its task, q the queue of its connection, v    *)
(* its view, and reqs the requests in flight.                              *)
(***************************************************************************)
EXTENDS ChatProperties

AnswerParts == DOMAIN Rank

IsActive(r) == r.status \in ActiveStatuses

Restoration == {"restore", "reconnect"}

(* What is known of a run stays: that it has made a tool call, how that    *)
(* ended, and how the run ended.                                           *)
ActivityTrue(rs, n, activity) ==
  /\ n \in DOMAIN rs
  /\ rs[n].activity # "none"
  /\ activity \in TerminalActivityStatuses => rs[n].activity = activity

EndTrue(rs, n, status) ==
  status \in TerminalStatuses => n \in DOMAIN rs /\ rs[n].status = status

(* Events tell of what has been written (runner.py).                       *)
EventTrue(rs, e) ==
  /\ e \in Event
  /\ e.run \in DOMAIN rs
  /\ e.type \in {"assistant.message.completed", "run.completed"} =>
       rs[e.run].status = "completed"
  /\ e.type = "run.failed" => rs[e.run].status = "failed"
  /\ e.type = "tool.requested" => ActivityTrue(rs, e.run, "running")
  /\ e.type = "tool.completed" => ActivityTrue(rs, e.run, "completed")
  /\ e.type = "tool.failed" => ActivityTrue(rs, e.run, "failed")

EventsTrue(rs, events) ==
  events \in Seq(Event) /\ \A k \in DOMAIN events : EventTrue(rs, events[k])

ActivitiesTrue(rs, f) ==
  IsActivities(f) /\ \A n \in DOMAIN f : ActivityTrue(rs, n, f[n])

(* Answers have been true.                                                 *)
GotTrue(rs, got) ==
  /\ "messages" \in DOMAIN got => got["messages"] \subseteq Messages(rs)
  /\ "runs" \in DOMAIN got => got["runs"] \in Seq(RunStatuses)
  /\ "activities" \in DOMAIN got => ActivitiesTrue(rs, got["activities"])
  /\ "state" \in DOMAIN got =>
       got["state"] \in StateAnswer /\ EndTrue(rs, got["state"].run, got["state"].status)

RequestTrue(rs, r) ==
  /\ r.kind \in Kinds
  /\ r.session \in Nat
  /\ r.answer \in Answers
  /\ r.kind = "post" /\ r.answer \in {"begun", "accepted"} => r.session \in DOMAIN rs
  /\ GotTrue(rs, r.got)
  /\ AnswerParts \intersect DOMAIN r.got \subseteq Parts[r.kind]
  /\ "noActivities" \in DOMAIN r.got => r.kind \in Restoration

(* The upsert of a cancelled task is of the tool call of a run its Stop has *)
(* interrupted, and takes back nothing.                                    *)
LateTrue(r) ==
  r.late \in ActivityStatuses =>
    /\ r.status = "interrupted"
    /\ \/ r.activity = "none"
       \/ r.activity = "running" /\ r.late # "running"

ViewTrue(rs, v) ==
  /\ IsView(v)
  /\ v.messages \subseteq Messages(rs)
  /\ ActivitiesTrue(rs, v.activities)
  /\ EndTrue(rs, v.latest, v.status)

TaskTrue(rs, t) ==
  /\ t.run # 0 => t.run \in DOMAIN rs
  /\ t.run = 0 => t.out = <<>>
  /\ EventsTrue(rs, t.out)
  /\ \A k \in DOMAIN t.out : t.out[k].run = t.run

ConnectionTrue(rs, s) ==
  /\ s.phase \in {"closed", "connecting", "open", "broken"}
  /\ EventsTrue(rs, s.queue)
  /\ s.phase # "open" => s.queue = <<>>

ViewInv ==
  /\ DOMAIN view = Conversations
  /\ task = [c \in Conversations |-> task[c]]
  /\ stream = [c \in Conversations |-> stream[c]]
  /\ \A c \in Conversations :
       /\ ViewTrue(runs[c], view[c])
       /\ TaskTrue(runs[c], task[c])
       /\ ConnectionTrue(runs[c], stream[c])
       /\ \A n \in DOMAIN runs[c] : LateTrue(runs[c][n])
  /\ \A i \in DOMAIN requests : RequestTrue(runs[requests[i].conv], requests[i])
  /\ {locked, missed, excused, orphaned} \subseteq BOOLEAN
  /\ {faults, told} \subseteq Nat

-----------------------------------------------------------------------------
(* What is on its way to the page of conversation c. *)

(* A request whose continuation will be run and will have an effect.       *)
Effective(r, c) == r.conv = c /\ r.ok /\ HasEffect(r)

Brings(r, c, part) == Effective(r, c) /\ part \in Parts[r.kind]

Restores(r, c) == Effective(r, c) /\ r.kind \in Restoration

(* The page is told, or will be told of all by a restoration.              *)
Watching ==
  \/ stream[active].phase \in {"connecting", "open"}
  \/ \E i \in DOMAIN requests : Restores(requests[i], active)

Clean == ~missed /\ ~excused /\ Watching

Ends == {"run.completed", "run.failed"}
Followed == Ends \union {"approval.requested", "approval.resolved"}

(* An event of one of the types is to be published or delivered.           *)
Pending(t, q, types) ==
  \/ \E k \in DOMAIN t.out : t.out[k].type \in types
  \/ \E k \in DOMAIN q : q[k].type \in types

PendingOf(n, t, q, types) ==
  \/ \E k \in DOMAIN t.out : t.out[k].type \in types /\ t.out[k].run = n
  \/ \E k \in DOMAIN q : q[k].type \in types /\ q[k].run = n

(* The task has more to do, and will tell of it.                           *)
Moving(rs, t) ==
  /\ t.run # 0
  /\ \/ rs[t.run].status \in {"queued", "running"}
     \/ rs[t.run].status = "waiting_approval" /\ rs[t.run].approval # "pending"

(* A POST that has begun a run and will start it, or has started it.       *)
IsBegun(r) == r.kind = "post" /\ r.ok /\ r.answer = "begun"

Begins(r, c) ==
  r.kind = "post" /\ r.ok /\ r.conv = c /\ r.answer \in {"begun", "accepted"}

StopIsServed(r, c) ==
  r.kind = "stop" /\ r.ok /\ r.conv = c /\ r.answer = "accepted"

(* Of a value the page overwrites, the last answer counts.                 *)
LastBrings(reqs, c, part, value) ==
  \E i \in DOMAIN reqs :
    /\ Brings(reqs[i], c, part)
    /\ \A j \in DOMAIN reqs : j > i => ~Brings(reqs[j], c, part)
    /\ part \in DOMAIN reqs[i].got => reqs[i].got[part] = value

Awaited(reqs, c, part, value, shown) ==
  \/ LastBrings(reqs, c, part, value)
  \/ shown /\ \A i \in DOMAIN reqs : ~Brings(reqs[i], c, part)

StateUnderway(c, rs, t, q, reqs) ==
  \/ Moving(rs, t)
  \/ \E i \in DOMAIN reqs :
       IsBegun(reqs[i]) /\ reqs[i].conv = c /\ IsActive(rs[reqs[i].session])
  \/ \E i \in DOMAIN reqs : StopIsServed(reqs[i], c)
  \/ Pending(t, q, Followed)

StateCatchesUp(c, rs, t, q, reqs, v) ==
  \/ StateUnderway(c, rs, t, q, reqs)
  \/ Awaited(reqs, c, "state", ConversationState(rs), ShowsState(v, ConversationState(rs)))

RunsUnderway(c, rs, t, q, reqs) ==
  \/ t.run # 0 /\ IsActive(rs[t.run])
  \/ \E i \in DOMAIN reqs : Begins(reqs[i], c) \/ StopIsServed(reqs[i], c)
  \/ Pending(t, q, Ends)

RunsCatchUp(c, rs, t, q, reqs, v) ==
  \/ RunsUnderway(c, rs, t, q, reqs)
  \/ Awaited(reqs, c, "runs", RunList(rs), v.runs = RunList(rs))

(* Messages and activities are merged: any answer with them will do.       *)
BringsMessage(r, c, m) ==
  \/ /\ Brings(r, c, "messages")
     /\ "messages" \in DOMAIN r.got => m \in r.got["messages"]
  \/ m.role = "user" /\ Begins(r, c) /\ r.session = m.run

MessagesCatchUp(c, rs, t, q, reqs, v) ==
  \A m \in Messages(rs) :
    \/ m \in v.messages
    \/ \E i \in DOMAIN reqs : BringsMessage(reqs[i], c, m)
    \/ m.role = "assistant" /\ PendingOf(m.run, t, q, {"run.completed"})

(* A restoration and a reload after an end are followed by the activities. *)
BringsActivity(r, c, n, activity) ==
  /\ Effective(r, c)
  /\ \/ r.kind \in Restoration \union {"terminal"}
     \/ /\ r.kind = "activities"
        /\ "activities" \in DOMAIN r.got =>
             n \in DOMAIN r.got["activities"] /\ r.got["activities"][n] = activity

ActivityAwaited(c, rs, reqs, v, n) ==
  \/ ShowsActivity(rs, v, n)
  \/ \E i \in DOMAIN reqs : BringsActivity(reqs[i], c, n, rs[n].activity)

ToolEvents(activity) ==
  CASE activity = "running" -> {"tool.requested"}
    [] activity = "completed" -> {"tool.completed"}
    [] activity = "failed" -> {"tool.failed"}
    [] OTHER -> {}

ActivitiesCatchUp(c, rs, t, q, reqs, v) ==
  \A n \in DOMAIN ActivityList(rs) :
    \/ ActivityAwaited(c, rs, reqs, v, n)
    \/ PendingOf(n, t, q, ToolEvents(rs[n].activity))

(* An error is shown until the next success; one to come is of a request   *)
(* older than the restoration that makes up for it.                        *)
Fails(r) == r.kind = "activities" /\ r.fresh /\ ~r.ok

ErrorsPass(c, reqs, v) ==
  \/ \E i \in DOMAIN reqs :
       Restores(reqs[i], c) /\ \A j \in DOMAIN reqs : j > i => ~Fails(reqs[j])
  \/ /\ ~v.error
     /\ \A i \in DOMAIN reqs : ~Fails(reqs[i])
     /\ v.activitiesError =>
          \E i \in DOMAIN reqs : Effective(reqs[i], c) /\ reqs[i].kind = "activities"

(* After a run.started more is to come, unless nothing more has happened.  *)
StartFollowed(rs, t, q, k) ==
  LET n == q[k].run IN
  \/ n < Len(rs)
  \/ rs[n].status \in {"running", "interrupted"}
  \/ rs[n].status # "queued" /\ Moving(rs, t)
  \/ \E l \in DOMAIN q : l > k /\ q[l].type \in Followed
  \/ \E l \in DOMAIN t.out : t.out[l].type \in Followed

StartsAreFollowed(rs, t, q) ==
  \A k \in DOMAIN q : q[k].type = "run.started" => StartFollowed(rs, t, q, k)

(* What the page was told has ended is shown as it ended, or will be.      *)
ToldCatchesUp(c, rs, reqs, v, last) ==
  \A n \in DOMAIN ActivityList(rs) : n <= last => ActivityAwaited(c, rs, reqs, v, n)

-----------------------------------------------------------------------------

(* A run begun and not started is nobody else's, and no write is late of   *)
(* one that has not been left; one task start is told of at a time.        *)
OnePost(reqs) ==
  \A i, j \in DOMAIN reqs : reqs[i].kind = "post" /\ reqs[j].kind = "post" => i = j

PostTrue(rs, t, r) ==
  /\ Begins(r, r.conv) => r.session = Len(rs)
  /\ IsBegun(r) =>
       /\ t.run # r.session
       /\ rs[r.session].status \in {"queued"} \union TerminalStatuses
       /\ rs[r.session].late = "none"

StartTrue(rs, t) ==
  /\ t.run # 0 => rs[t.run].late = "none"
  /\ \A k \in DOMAIN t.out : t.out[k].type = "run.started" => rs[t.run].status = "running"

PostsInv ==
  /\ OnePost(requests)
  /\ \A i \in DOMAIN requests :
       PostTrue(runs[requests[i].conv], task[requests[i].conv], requests[i])
  /\ \A c \in Conversations : StartTrue(runs[c], task[c])
  /\ ~up => \A c \in Conversations : task[c] = NoTask

(* One restoration at a time, and the connection is closed meanwhile.      *)
IsWanted(r) == r.kind \in Restoration /\ r.fresh

OneWanted(reqs) ==
  \A i, j \in DOMAIN reqs : IsWanted(reqs[i]) /\ IsWanted(reqs[j]) => i = j

ConnectionInv ==
  /\ OneWanted(requests)
  /\ \A i \in DOMAIN requests : IsWanted(requests[i]) => stream[active].phase = "closed"
  /\ ~up => \A c \in Conversations : stream[c].phase # "open"
  /\ Clean => up
  /\ stream[active].phase \in {"closed", "connecting"} => told = 0
  /\ told # 0 => /\ told \in DOMAIN runs[active]
                 /\ runs[active][told].status \in TerminalStatuses

CatchesUp(c, rs, t, q, reqs, v) ==
  /\ StateCatchesUp(c, rs, t, q, reqs, v)
  /\ RunsCatchUp(c, rs, t, q, reqs, v)
  /\ MessagesCatchUp(c, rs, t, q, reqs, v)
  /\ ActivitiesCatchUp(c, rs, t, q, reqs, v)
  /\ ErrorsPass(c, reqs, v)
  /\ StartsAreFollowed(rs, t, q)

CatchUpInv ==
  /\ Clean =>
       CatchesUp(active, runs[active], task[active], stream[active].queue, requests, view[active])
  /\ ~excused /\ stream[active].phase = "open" =>
       ToldCatchesUp(active, runs[active], requests, view[active], told)
=============================================================================
