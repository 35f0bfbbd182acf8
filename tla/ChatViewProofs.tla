--------------------------- MODULE ChatViewProofs ---------------------------
(***************************************************************************)
(* Proofs about what the browser shows: nothing that has ended changes on  *)
(* the server, and so nothing on its way to the page, and nothing the page *)
(* shows, is ever ahead of what the database holds.                        *)
(***************************************************************************)
EXTENDS ChatProofs

-----------------------------------------------------------------------------
(* What is known of a run stays. *)

Ripens(x, y) ==
  /\ x.status \in TerminalStatuses =>
       /\ y.status = x.status
       /\ y.activity # x.activity =>
            x.status = "interrupted" /\ y.activity = x.late /\ y.late = "none"
       /\ y.late \in {x.late, "none"}
  /\ LateTrue(x) => LateTrue(y)
  /\ x.status # "queued" => y.status # "queued"
  /\ x.activity # "none" => y.activity # "none"
  /\ x.activity \in TerminalActivityStatuses => y.activity = x.activity
  /\ x.approval \in {"decided", "invalidated"} => y.approval = x.approval

RunsRipen(rs, ss) ==
  /\ \A n \in DOMAIN rs : n \in DOMAIN ss /\ Ripens(rs[n], ss[n])
  /\ \A n \in DOMAIN ss \ DOMAIN rs : LateTrue(ss[n])

LatesTrue == \A c \in Conversations : \A n \in DOMAIN runs[c] : LateTrue(runs[c][n])

\* A run that stays, and one that changes twice.
LEMMA RipensOn ==
  /\ \A x : Ripens(x, x)
  /\ \A x, y, z : Ripens(x, y) /\ Ripens(y, z) => Ripens(x, z)
  BY DEF Ripens

\* What a task, or a call that lands after it, makes of a run (_RUN_TRANSITIONS,
\* upsert_tool_activity, resolve).
LEMMA TaskRipens ==
    ASSUME NEW c \in Conversations, NEW x \in Run,
           NEW r \in Started(x) \union ToolCalled(c, x) \union ToolEnded(c, x) \union Asking(c, x)
                      \union Asked(x) \union Resumed(x) \union Completed(x) \union Failed(x)
    PROVE  Ripens(x, r)
  <1> USE DEF If, WithStatus, Run, RunStatuses, ActiveStatuses, TerminalStatuses,
              ActivityStatuses, TerminalActivityStatuses, ApprovalStatuses, Ripens, LateTrue
  <1>1. CASE r \in Started(x) \union Asking(c, x) \union Resumed(x) \union Completed(x) \union Failed(x)
    BY <1>1 DEF Started, Asking, Resumed, Completed, Failed, IsDecided
  <1>2. CASE r \in ToolCalled(c, x)
    BY <1>2 DEF ToolCalled
  <1>3. CASE r \in ToolEnded(c, x)
    <2>1. ToolOutcomes[c] \subseteq {"completed", "failed"}
      BY ServerAssumption
    <2> QED
      BY <1>3, <2>1 DEF ToolEnded
  <1>4. CASE r \in Asked(x)
    BY <1>4 DEF Asked
  <1> QED
    BY <1>1, <1>2, <1>3, <1>4

\* What a Stop and what the start-up makes of it (interrupt_run, interrupt_unfinished).
LEMMA EndRipens ==
    ASSUME NEW x \in Run
    PROVE  /\ Ripens(x, Interrupted(x))
           /\ \A a : Ripens(x, Settled(x, a))
           /\ Ripens(x, Recovered(x))
  <1> USE DEF Run, RunStatuses, ActiveStatuses, TerminalStatuses, ActivityStatuses,
              TerminalActivityStatuses, ApprovalStatuses, Ripens, LateTrue
  <1>1. ASSUME NEW y \in Run
        PROVE  Ripens(y, Interrupted(y))
    <2>1. CASE y.status \in TerminalStatuses
      <3>1. Interrupted(y) = y
        BY <2>1 DEF Interrupted
      <3> QED
        BY <3>1, RipensOn
    <2>2. CASE y.status \notin TerminalStatuses
      <3>1. Interrupted(y) = [status |-> "interrupted", activity |-> y.activity,
                              approval |-> y.approval, late |-> "none"]
        BY <2>2 DEF Interrupted
      <3> QED
        BY <2>2, <3>1
    <2> QED
      BY <2>1, <2>2
  <1>2. x.approval = "pending" =>
          /\ [x EXCEPT !.approval = "invalidated"] \in Run
          /\ Ripens(x, [x EXCEPT !.approval = "invalidated"])
    OBVIOUS
  <1>3. \A a : Ripens(x, Settled(x, a))
    <2> TAKE a
    <2>1. CASE a # 0 /\ x.approval = "pending"
      BY <1>1, <1>2, <2>1, RipensOn DEF Settled
    <2>2. CASE ~(a # 0 /\ x.approval = "pending")
      BY <1>1, <2>2 DEF Settled
    <2> HIDE DEF Ripens
    <2> QED
      BY <2>1, <2>2
  <1>4. Ripens(x, Recovered(x))
    BY DEF Recovered, RecoveredActivity
  <1> QED
    BY <1>1, <1>3, <1>4

\* What a Stop may leave of it.
LEMMA CancelledRipens ==
    ASSUME RunsOK, NEW c \in Conversations, NEW n \in DOMAIN runs[c], NEW a,
           NEW r \in Cancelled(c, n, a)
    PROVE  Ripens(runs[c][n], r)
  <1>1. runs[c][n] \in Run
    BY DEF RunsOK
  <1>2. ASSUME NEW q \in Landed(c, runs[c][n]), r = Interrupted(q)
        PROVE  Ripens(runs[c][n], r)
    <2>1. q \in Run /\ Ripens(runs[c][n], q)
      BY <1>1, RunSteps, TaskRipens DEF Landed, Upserted
    <2> QED
      BY <1>2, <2>1, EndRipens, RipensOn
  <1>3. ASSUME NEW q \in Upserted(c, runs[c][n]),
               r = [Settled(runs[c][n], a) EXCEPT !.late = q.activity]
        PROVE  Ripens(runs[c][n], r)
    <2> DEFINE x == runs[c][n]
               y == Settled(x, a)
    <2>1. /\ x.status = "running" /\ q.activity \in {"running", "completed", "failed"}
          /\ \/ x.activity = "none"
             \/ x.activity = "running" /\ q.activity # "running"
      <3>1. CASE q \in ToolCalled(c, x)
        <4>1. q = [x EXCEPT !.activity = "running"] /\ x.status = "running" /\ x.activity = "none"
          BY <3>1 DEF ToolCalled, If
        <4>2. x \in Run
          BY <1>1
        <4> HIDE DEF x
        <4>3. q.activity = "running"
          BY <4>1, <4>2 DEF Run
        <4> QED
          BY <4>1, <4>3
      <3>2. CASE q \in ToolEnded(c, x)
        <4>1. ToolOutcomes[c] \subseteq {"completed", "failed"}
          BY ServerAssumption
        <4> QED
          BY <1>1, <3>2, <4>1 DEF ToolEnded, If, Run
      <3> QED
        BY <1>3, <3>1, <3>2 DEF Upserted
    <2>2. /\ y \in Run /\ y.status = "interrupted" /\ y.activity = x.activity
          /\ x.approval \in {"decided", "invalidated"} => y.approval = x.approval
      <3>1. ASSUME NEW z \in Run, z.status = "running"
            PROVE  Interrupted(z) = [status |-> "interrupted", activity |-> z.activity,
                                     approval |-> z.approval, late |-> "none"]
        BY <3>1 DEF Interrupted, Run, TerminalStatuses
      <3>2. [x EXCEPT !.approval = "invalidated"] \in Run
        BY <1>1 DEF Run, ApprovalStatuses
      <3>3. y \in Run
        BY <1>1, InterruptedEnds
      <3> HIDE DEF x
      <3> QED
        BY <1>1, <2>1, <3>1, <3>2, <3>3 DEF Settled, Run, x
    <2> HIDE DEF x, y
    <2>3. /\ r.status = "interrupted" /\ r.activity = x.activity /\ r.late = q.activity
          /\ r.approval = y.approval
      BY <1>3, <2>2 DEF Run, x, y
    <2>4. Ripens(x, r)
      BY <2>1, <2>2, <2>3
      DEF Ripens, LateTrue, TerminalStatuses, TerminalActivityStatuses, ActivityStatuses
    <2> QED
      BY <2>4 DEF x
  <1> QED
    BY <1>1, <1>2, <1>3, EndRipens DEF Cancelled, Stopped, If

\* A run left without its task, and one whose interruption fails (supervisor.cancel,
\* _interrupt_run_sync).
LEMMA AbandonedRipens ==
    ASSUME RunsOK, NEW c \in Conversations, NEW n \in DOMAIN runs[c],
           NEW r \in Abandoned(c, n)
    PROVE  Ripens(runs[c][n], r)
  <1> DEFINE x == runs[c][n]
  <1>1. x \in Run
    BY DEF RunsOK
  <1> HIDE DEF x
  <1>2. \/ r = x
        \/ r \in Started(x) \/ r \in Failed(x)
        \/ r \in Cancelled(c, n, 0)
        \/ /\ x.status \notin TerminalStatuses
           /\ \E late \in {"start", "fail"} : r = [x EXCEPT !.late = late]
    <2>1. Started(x) \union Failed(x) # {} => x.status \notin TerminalStatuses
      BY DEF Started, Failed, If, TerminalStatuses
    <2> QED
      BY <2>1 DEF Abandoned, GivenUp, If, x
  <1>3. Started(x) \union Failed(x) \subseteq
          Started(x) \union ToolCalled(c, x) \union ToolEnded(c, x) \union Asking(c, x)
            \union Asked(x) \union Resumed(x) \union Completed(x) \union Failed(x)
    OBVIOUS
  <1>4. r \in Started(x) \/ r \in Failed(x) => Ripens(x, r)
    BY <1>1, <1>3, TaskRipens
  <1>5. \A late \in {"start", "fail"} :
          x.status \notin TerminalStatuses => Ripens(x, [x EXCEPT !.late = late])
    BY <1>1 DEF Ripens, LateTrue, Run, ActivityStatuses, TerminalActivityStatuses
  <1>6. r \in Cancelled(c, n, 0) => Ripens(x, r)
    BY CancelledRipens DEF x
  <1>7. Ripens(x, r)
    BY <1>2, <1>4, <1>5, <1>6, RipensOn
  <1> QED
    BY <1>7 DEF x

\* A write that lands late (to_thread).
LEMMA LateRipens ==
    ASSUME NEW x \in Run, LateTrue(x), NEW r \in LateLanded(x)
    PROVE  Ripens(x, r)
  <1> USE DEF If, WithStatus, Run, RunStatuses, ActiveStatuses, TerminalStatuses, Ripens,
              ActivityStatuses, TerminalActivityStatuses, ApprovalStatuses, LateTrue
  <1> DEFINE y == [x EXCEPT !.late = "none"]
  <1>1. /\ y.status = x.status /\ y.activity = x.activity
        /\ y.approval = x.approval /\ y.late = "none" /\ y \in Run
    OBVIOUS
  <1> HIDE DEF y
  <1>2. CASE r \in Started(y) \union Failed(y)
    BY <1>1, <1>2 DEF Started, Failed
  <1>3. CASE x.late \in ActivityStatuses /\ r = [y EXCEPT !.activity = x.late]
    BY <1>1, <1>3
  <1> QED
    BY <1>2, <1>3 DEF LateLanded, y

LEMMA OvertakingRipens ==
    ASSUME RunsOK, LatesTrue, NEW c \in Conversations, NEW n \in DOMAIN runs[c],
           NEW r \in Overtaking(c, n)
    PROVE  Ripens(runs[c][n], r)
  <1> DEFINE x == runs[c][n]
  <1>1. x \in Run /\ LateTrue(x)
    BY DEF RunsOK, LatesTrue
  <1>2. \/ r \in Started(x) \union Asking(c, x) \union Completed(x) \union Failed(x)
        \/ r \in LateLanded(x)
    BY DEF Overtaking, If
  <1> HIDE DEF x
  <1>3. Ripens(x, r)
    BY <1>1, <1>2, TaskRipens, LateRipens
  <1> QED
    BY <1>3 DEF x

\* One run changes, the others stay.
LEMMA OneRipens ==
    ASSUME RunsOK, NEW c \in Conversations, NEW n, NEW r,
           runs' = [runs EXCEPT ![c][n] = r],
           n \in DOMAIN runs[c] => Ripens(runs[c][n], r)
    PROVE  \A d \in Conversations : RunsRipen(runs[d], runs'[d])
  <1>1. /\ runs'[c] = [runs[c] EXCEPT ![n] = r]
        /\ \A d \in Conversations \ {c} : runs'[d] = runs[d]
    BY DEF RunsOK
  <1>2. RunsRipen(runs[c], runs'[c])
    <2>1. DOMAIN runs'[c] = DOMAIN runs[c]
      BY <1>1
    <2> QED
      BY <1>1, <2>1, RipensOn DEF RunsRipen
  <1> QED
    BY <1>1, <1>2, RipensOn DEF RunsRipen

\* Only these steps touch the runs.
LEMMA RunsUntouched ==
    ASSUME [Next]_vars,
           ~\E c \in Conversations : TaskStep(c) \/ LateWrite(c),
           ~\E i \in DOMAIN requests :
              PostBegins(i) \/ PostStarts(i) \/ StopServed(i) \/ DecisionServed(i),
           ~ServerRestart
    PROVE  runs' = runs
  <1>1. ASSUME NEW i \in DOMAIN requests, Handled(i)
        PROVE  runs' = runs
    BY <1>1 DEF Handled, Serve, StopRead, InterruptAccepted, InterruptRefused, serverVars
  <1>2. ASSUME NEW i \in DOMAIN requests, Continued(i)
        PROVE  runs' = runs
    BY <1>2 DEF Continued, RestoreDone, RestoreFailed, ActivitiesRefreshed, StateFetched,
                TerminalReloaded, PostAnswered, StopAnswered, ReloadedAfterPost,
                DecisionFailed, serverVars
  <1>3. ASSUME NEW c \in Conversations, RunTask(c) \/ Streaming(c)
        PROVE  runs' = runs
    BY <1>3 DEF RunTask, Streaming, Subscribe, Deliver, StreamError
  <1>4. CASE User
    BY <1>4 DEF User, Select, Submit, Stop, Decide, ToggleGroup, RetryActivities, Issue, serverVars
  <1>5. CASE Fault
    BY <1>5 DEF Fault, LoseRequest, LoseActivities, LoseConnection, ServerCrash, Crash, serverVars
  <1> QED
    BY <1>1, <1>2, <1>3, <1>4, <1>5 DEF Next, vars

\* Whatever a task, a POST, a Stop, a decision or a start-up does, the runs ripen.
LEMMA ServerRipens ==
    ASSUME ServerInv, ClientInv, LatesTrue, [Next]_vars
    PROVE  \A d \in Conversations : RunsRipen(runs[d], runs'[d])
  <1>0. RunsOK
    BY DEF ServerInv
  <1>1. ASSUME NEW c \in Conversations, NEW n, NEW r,
               runs' = [runs EXCEPT ![c][n] = r],
               n \in DOMAIN runs[c] => Ripens(runs[c][n], r)
        PROVE  \A d \in Conversations : RunsRipen(runs[d], runs'[d])
    BY <1>0, <1>1, OneRipens
  <1>2. ASSUME runs' = runs
        PROVE  \A d \in Conversations : RunsRipen(runs[d], runs'[d])
    BY <1>2, RipensOn DEF RunsRipen
  <1>3. ASSUME NEW c \in Conversations, TaskStep(c)
        PROVE  \A d \in Conversations : RunsRipen(runs[d], runs'[d])
    <2> DEFINE n == task[c].run
               x == runs[c][n]
    <2>1. ASSUME NEW r \in Started(x) \union ToolCalled(c, x) \union ToolEnded(c, x)
                          \union Asking(c, x) \union Asked(x) \union Resumed(x)
                          \union Completed(x) \union Failed(x),
                 runs' = [runs EXCEPT ![c][n] = r]
          PROVE  \A d \in Conversations : RunsRipen(runs[d], runs'[d])
      <3>1. n \in DOMAIN runs[c] => x \in Run
        BY <1>0 DEF RunsOK
      <3>2. n \in DOMAIN runs[c] => Ripens(x, r)
        BY <2>1, <3>1, TaskRipens
      <3> QED
        BY <1>1, <2>1, <3>2
    <2> QED
      BY <1>2, <1>3, <2>1
      DEF TaskStep, StartTurn, RequestTool, FinishTool, AwaitApproval, CreateApproval,
          FinishDecision, CompleteRun, FailRun, Publish, EndTask, Write, Owned
  <1>4. ASSUME NEW i \in DOMAIN requests, PostBegins(i)
        PROVE  \A d \in Conversations : RunsRipen(runs[d], runs'[d])
    <2>1. requests[i].conv \in Conversations
      BY SomeRequest
    <2>2. PICK c \in Conversations : c = requests[i].conv
      BY <2>1
    <2>3. runs' = runs \/ runs' = [runs EXCEPT ![c] = Append(runs[c], NewRun)]
      BY <1>4, <2>2 DEF PostBegins, BeginRun, BeginRefused, serverVars
    <2>4. CASE runs' = [runs EXCEPT ![c] = Append(runs[c], NewRun)]
      <3>1. runs[c] \in Seq(Run) /\ NewRun \in Run
        BY <1>0 DEF RunsOK, NewRun, Run, RunStatuses, ActiveStatuses
      <3>2. /\ \A n \in DOMAIN runs[c] :
                  n \in DOMAIN Append(runs[c], NewRun) /\ Append(runs[c], NewRun)[n] = runs[c][n]
            /\ \A n \in DOMAIN Append(runs[c], NewRun) \ DOMAIN runs[c] :
                  Append(runs[c], NewRun)[n] = NewRun
        BY <3>1, AppendProperties
      <3>4. LateTrue(NewRun)
        BY DEF LateTrue, NewRun, ActivityStatuses, TerminalActivityStatuses
      <3>3. /\ runs'[c] = Append(runs[c], NewRun)
            /\ \A d \in Conversations \ {c} : runs'[d] = runs[d]
        BY <1>0, <2>4 DEF RunsOK
      <3> QED
        BY <3>2, <3>3, <3>4, RipensOn DEF RunsRipen
    <2> QED
      BY <1>2, <2>3, <2>4
  <1>5. ASSUME NEW i \in DOMAIN requests, PostStarts(i)
        PROVE  \A d \in Conversations : RunsRipen(runs[d], runs'[d])
    <2> DEFINE c == requests[i].conv
               n == requests[i].session
               r == [runs[c][n] EXCEPT !.status = "failed"]
    <2>1. c \in Conversations
      BY SomeRequest
    <2>2. \/ runs' = runs
          \/ /\ runs[c][n].status \notin TerminalStatuses
             /\ runs' = [runs EXCEPT ![c][n] = r]
      BY <1>5 DEF PostStarts, StartTask, StartRefused
    <2>3. n \in DOMAIN runs[c] /\ runs[c][n].status \notin TerminalStatuses =>
            Ripens(runs[c][n], r)
      <3>1. n \in DOMAIN runs[c] => runs[c][n] \in Run
        BY <1>0, <2>1 DEF RunsOK
      <3> QED
        BY <3>1 DEF Ripens, Run, LateTrue, TerminalStatuses
    <2> HIDE DEF c, n, r
    <2> QED
      BY <1>1, <1>2, <2>1, <2>2, <2>3
  <1>6. ASSUME NEW i \in DOMAIN requests, StopServed(i)
        PROVE  \A d \in Conversations : RunsRipen(runs[d], runs'[d])
    <2> DEFINE c == requests[i].conv
               n == requests[i].session
    <2>1. c \in Conversations
      BY SomeRequest
    <2>2. PICK m, r : /\ \/ \E a : r \in Cancelled(c, m, a)
                         \/ r \in Abandoned(c, m)
                         \/ r \in Overtaking(c, m)
                      /\ runs' = [runs EXCEPT ![c][m] = r]
      <3> HIDE DEF c, n
      <3>1. \/ \E a : InterruptRun(c, n, a)
            \/ InterruptOther(c, n)
            \/ InterruptFails(c, n)
        BY <1>6 DEF StopServed, c, n
      <3> QED
        BY <3>1 DEF InterruptRun, InterruptOther, InterruptFails
    <2>3. m \in DOMAIN runs[c] => Ripens(runs[c][m], r)
      BY <1>0, <2>1, <2>2, CancelledRipens, AbandonedRipens, OvertakingRipens
    <2> HIDE DEF c, n
    <2> QED
      BY <1>1, <2>1, <2>2, <2>3
  <1>7. ASSUME NEW i \in DOMAIN requests, DecisionServed(i)
        PROVE  \A d \in Conversations : RunsRipen(runs[d], runs'[d])
    <2> DEFINE c == requests[i].conv
               n == requests[i].session
               r == [runs[c][n] EXCEPT !.approval = "decided"]
    <2>1. c \in Conversations
      BY SomeRequest
    <2>2. \/ runs' = runs
          \/ /\ runs[c][n].approval = "pending"
             /\ runs' = [runs EXCEPT ![c][n] = r]
      BY <1>7 DEF DecisionServed, DecideApproval, DecideRefused, IsWaiting, serverVars
    <2>3. n \in DOMAIN runs[c] /\ runs[c][n].approval = "pending" => Ripens(runs[c][n], r)
      <3>1. n \in DOMAIN runs[c] => runs[c][n] \in Run
        BY <1>0, <2>1 DEF RunsOK
      <3> QED
        BY <3>1 DEF Ripens, Run, LateTrue
    <2> HIDE DEF c, n, r
    <2> QED
      BY <1>1, <1>2, <2>1, <2>2, <2>3
  <1>8. CASE ServerRestart
    <2>1. \A d \in Conversations :
            runs'[d] = [n \in DOMAIN runs[d] |-> Recovered(runs[d][n])]
      BY <1>8 DEF ServerRestart, Restart
    <2>2. \A d \in Conversations : \A n \in DOMAIN runs[d] :
            runs[d][n] \in Run /\ Ripens(runs[d][n], Recovered(runs[d][n]))
      BY <1>0, EndRipens DEF RunsOK
    <2> QED
      BY <2>1, <2>2 DEF RunsRipen
  <1>9. ASSUME NEW c \in Conversations, LateWrite(c)
        PROVE  \A d \in Conversations : RunsRipen(runs[d], runs'[d])
    <2>1. PICK n \in DOMAIN runs[c] :
            \E r \in LateLanded(runs[c][n]) : runs' = [runs EXCEPT ![c][n] = r]
      BY <1>9 DEF LateWrite, LandLate
    <2>2. runs[c][n] \in Run /\ LateTrue(runs[c][n])
      BY <1>0, <2>1 DEF RunsOK, LatesTrue
    <2> QED
      BY <1>1, <2>1, <2>2, LateRipens
  <1> QED
    BY <1>2, <1>3, <1>4, <1>5, <1>6, <1>7, <1>8, <1>9, RunsUntouched
    DEF RunTask

\* A late upsert is always of the tool call of an interrupted run.
LEMMA LatesStay ==
    ASSUME ServerInv, ClientInv, LatesTrue, [Next]_vars
    PROVE  LatesTrue'
  <1>1. \A d \in Conversations : RunsRipen(runs[d], runs'[d])
    BY ServerRipens
  <1> QED
    BY <1>1 DEF RunsRipen, Ripens, LatesTrue

\* The end of a run, its tool call and the answer to its approval are final, but
\* for the tool call of an interrupted run, to which the upsert of its cancelled
\* task may still be written (complete_run, interrupt_run, fail_run,
\* upsert_tool_activity, interrupt_unfinished).
THEOREM EndsAreFinal == Spec => EndedIsFinal
  <1>1. Init => LatesTrue
    BY DEF Init, ServerInit, LatesTrue
  <1>2. ServerInv /\ ClientInv /\ LatesTrue /\ [Next]_vars => LatesTrue'
    BY LatesStay
  <1>3. ServerInv /\ ClientInv /\ LatesTrue /\ [Next]_vars =>
          [\A c \in Conversations : \A n \in DOMAIN runs[c] :
             LET r == runs[c][n]
                 next == runs'[c][n]
             IN /\ r.status \in TerminalStatuses =>
                     /\ next.status = r.status
                     /\ next.activity # r.activity =>
                          /\ r.status = "interrupted"
                          /\ next.activity = r.late
                          /\ next.late = "none"
                     /\ next.late \in {r.late, "none"}
                /\ r.activity \in TerminalActivityStatuses => next.activity = r.activity
                /\ r.approval \in {"decided", "invalidated"} =>
                     next.approval = r.approval]_vars
    BY ServerRipens DEF RunsRipen, Ripens
  <1> QED
    BY <1>1, <1>2, <1>3, ChatInvHolds, PTL DEF Spec, EndedIsFinal

\* Under the invariant of the view.
LEMMA Ripened ==
    ASSUME ServerInv, ClientInv, ViewInv, [Next]_vars
    PROVE  \A d \in Conversations : RunsRipen(runs[d], runs'[d])
  <1>1. LatesTrue
    BY DEF ViewInv, LatesTrue
  <1> QED
    BY <1>1, ServerRipens

\* A write that lands late touches nothing but its run (LateWrite).
LEMMA LateLeaves ==
    ASSUME NEW c, LateWrite(c)
    PROVE  UNCHANGED <<task, up, stream, view, active, locked, requests, faults, missed,
                       orphaned, told>>
  BY DEF LateWrite, LandLate

-----------------------------------------------------------------------------
(* What has been true of a ripening run still is. *)

\* Of the parts.
LEMMA PartsStay ==
    ASSUME NEW rs, NEW ss, RunsRipen(rs, ss)
    PROVE  /\ \A n, a : ActivityTrue(rs, n, a) => ActivityTrue(ss, n, a)
           /\ \A n, s : EndTrue(rs, n, s) => EndTrue(ss, n, s)
           /\ \A e : EventTrue(rs, e) => EventTrue(ss, e)
           /\ \A f : ActivitiesTrue(rs, f) => ActivitiesTrue(ss, f)
           /\ Messages(rs) \subseteq Messages(ss)
  <1>1. \A n, a : ActivityTrue(rs, n, a) => ActivityTrue(ss, n, a)
    BY DEF RunsRipen, Ripens, ActivityTrue
  <1>2. \A n, s : EndTrue(rs, n, s) => EndTrue(ss, n, s)
    BY DEF RunsRipen, Ripens, EndTrue
  <1>3. \A e : EventTrue(rs, e) => EventTrue(ss, e)
    BY <1>1 DEF RunsRipen, Ripens, EventTrue, TerminalStatuses
  <1>4. \A f : ActivitiesTrue(rs, f) => ActivitiesTrue(ss, f)
    BY <1>1 DEF ActivitiesTrue
  <1>5. Messages(rs) \subseteq Messages(ss)
    BY DEF RunsRipen, Ripens, Messages, TerminalStatuses
  <1> QED
    BY <1>1, <1>2, <1>3, <1>4, <1>5

\* Of the views, the tasks, the connections and the requests.
LEMMA TruthStays ==
    ASSUME NEW rs, NEW ss, RunsRipen(rs, ss)
    PROVE  /\ \A v : ViewTrue(rs, v) => ViewTrue(ss, v)
           /\ \A t : TaskTrue(rs, t) => TaskTrue(ss, t)
           /\ \A s : ConnectionTrue(rs, s) => ConnectionTrue(ss, s)
           /\ \A r : RequestTrue(rs, r) => RequestTrue(ss, r)
           /\ \A events : EventsTrue(rs, events) => EventsTrue(ss, events)
  <1>1. \A v : ViewTrue(rs, v) => ViewTrue(ss, v)
    BY PartsStay DEF ViewTrue
  <1>2. \A events : EventsTrue(rs, events) => EventsTrue(ss, events)
    BY PartsStay DEF EventsTrue
  <1>3. \A t : TaskTrue(rs, t) => TaskTrue(ss, t)
    BY <1>2 DEF TaskTrue, RunsRipen
  <1>4. \A s : ConnectionTrue(rs, s) => ConnectionTrue(ss, s)
    BY <1>2 DEF ConnectionTrue
  <1>5. \A got : GotTrue(rs, got) => GotTrue(ss, got)
    BY PartsStay DEF GotTrue
  <1>6. \A r : RequestTrue(rs, r) => RequestTrue(ss, r)
    BY <1>5 DEF RequestTrue, RunsRipen
  <1> QED
    BY <1>1, <1>2, <1>3, <1>4, <1>6

-----------------------------------------------------------------------------
(* The reducer shows what it is told. *)

\* The parts of a view that is shown as one, and changed in some of them.
LEMMA ViewIs ==
    ASSUME NEW rs, NEW v, ViewTrue(rs, v)
    PROVE  /\ IsShown(v)
           /\ v.messages \subseteq Message /\ v.runs \in Seq(RunStatuses)
           /\ v.status \in RunStatuses \union {"none"}
           /\ v.active \in Nat /\ v.latest \in Nat /\ v.approval \in Nat
           /\ v.error \in BOOLEAN /\ v.activitiesError \in BOOLEAN
           /\ ActivitiesTrue(rs, v.activities)
           /\ v.messages \subseteq Messages(rs)
           /\ EndTrue(rs, v.latest, v.status)
  BY DEF ViewTrue, IsView, IsShown, ActivitiesTrue

LEMMA IsViewTrue ==
    ASSUME NEW rs, NEW v, IsShown(v),
           v.messages \subseteq Message /\ v.runs \in Seq(RunStatuses),
           v.status \in RunStatuses \union {"none"},
           v.active \in Nat /\ v.latest \in Nat /\ v.approval \in Nat,
           v.error \in BOOLEAN /\ v.activitiesError \in BOOLEAN,
           ActivitiesTrue(rs, v.activities),
           v.messages \subseteq Messages(rs),
           EndTrue(rs, v.latest, v.status)
    PROVE  ViewTrue(rs, v)
  <1>1. IsView(v)
    BY DEF IsView, IsShown, ActivitiesTrue
  <1> QED
    BY <1>1 DEF ViewTrue

\* Merged activities are true when both are (mergeActivities).
LEMMA MergedTrue ==
    ASSUME NEW rs, NEW f, NEW g, ActivitiesTrue(rs, f), ActivitiesTrue(rs, g)
    PROVE  ActivitiesTrue(rs, MergeActivities(f, g))
  <1> DEFINE h == MergeActivities(f, g)
  <1>1. /\ DOMAIN h = DOMAIN f \union DOMAIN g
        /\ \A n \in DOMAIN h : \/ n \in DOMAIN f /\ h[n] = f[n]
                               \/ n \in DOMAIN g /\ h[n] = g[n]
        /\ h = [n \in DOMAIN h |-> h[n]]
    BY DEF MergeActivities
  <1> HIDE DEF h
  <1>2. \A n \in DOMAIN h : h[n] \in ActivityStatuses
    BY <1>1 DEF ActivitiesTrue, IsActivities
  <1>3. h \in [DOMAIN h -> ActivityStatuses]
    BY <1>1, <1>2
  <1>4. DOMAIN h \subseteq Session
    BY <1>1 DEF ActivitiesTrue, IsActivities
  <1> QED
    BY <1>1, <1>3, <1>4 DEF ActivitiesTrue, IsActivities, h

\* An event tells of the activity it is about (appendActivityFromEvent).
LEMMA EventActivityTrue ==
    ASSUME NEW rs, NEW e, EventTrue(rs, e)
    PROVE  ActivitiesTrue(rs, ActivityFromEvent(e))
  <1>1. e.run \in Session
    BY DEF EventTrue, Event
  <1>2. ASSUME NEW a \in ActivityStatuses, ActivityTrue(rs, e.run, a)
        PROVE  ActivitiesTrue(rs, [n \in {e.run} |-> a])
    BY <1>1, <1>2 DEF ActivitiesTrue, IsActivities
  <1>3. ActivitiesTrue(rs, <<>>)
    BY DEF ActivitiesTrue, IsActivities
  <1>4. {"running", "completed", "failed"} \subseteq ActivityStatuses
    BY DEF ActivityStatuses, TerminalActivityStatuses
  <1> QED
    BY <1>2, <1>3, <1>4 DEF EventTrue, ActivityFromEvent

(* A view, part by part. *)
Page(messages, list, activities, status, n, latest, approval, error, activitiesError) ==
  [messages |-> messages, runs |-> list, activities |-> activities,
   status |-> status, active |-> n, latest |-> latest, approval |-> approval,
   error |-> error, activitiesError |-> activitiesError]

\* A page whose parts are true is.
LEMMA PageTrue ==
    ASSUME NEW rs, NEW messages, NEW list, NEW activities, NEW status, NEW n, NEW latest,
           NEW approval, NEW error, NEW activitiesError,
           messages \subseteq Message, messages \subseteq Messages(rs),
           list \in Seq(RunStatuses), ActivitiesTrue(rs, activities),
           status \in RunStatuses \union {"none"}, n \in Nat, latest \in Nat, approval \in Nat,
           error \in BOOLEAN, activitiesError \in BOOLEAN, EndTrue(rs, latest, status)
    PROVE  ViewTrue(rs, Page(messages, list, activities, status, n, latest, approval,
                             error, activitiesError))
  <1> DEFINE w == Page(messages, list, activities, status, n, latest, approval,
                       error, activitiesError)
  <1>1. /\ w.messages = messages /\ w.runs = list /\ w.activities = activities
        /\ w.status = status /\ w.active = n /\ w.latest = latest /\ w.approval = approval
        /\ w.error = error /\ w.activitiesError = activitiesError
    BY DEF Page
  <1>2. IsShown(w)
    BY DEF Page, IsShown
  <1> HIDE DEF w
  <1>3. ViewTrue(rs, w)
    BY <1>1, <1>2, IsViewTrue
  <1> QED
    BY <1>3 DEF w

\* What the actions of the reducer make of a view.
\* (Whether there is an error is hidden behind b, for the prover's sake.)
LEMMA MessagesSet ==
    ASSUME NEW v, IsShown(v), NEW x, NEW b
    PROVE  [v EXCEPT !.messages = x, !.error = b] =
             Page(x, v.runs, v.activities, v.status, v.active, v.latest, v.approval,
                  b, v.activitiesError)
  <1> DEFINE u == [v EXCEPT !.messages = x]
  <1>1. u = Page(x, v.runs, v.activities, v.status, v.active, v.latest, v.approval,
                 v.error, v.activitiesError)
    BY DEF IsShown, Page
  <1>2. [v EXCEPT !.messages = x, !.error = b] = [u EXCEPT !.error = b]
    OBVIOUS
  <1> HIDE DEF u
  <1> QED
    BY <1>1, <1>2 DEF Page

LEMMA ActivitiesSet ==
    ASSUME NEW v, IsShown(v), NEW x, NEW b
    PROVE  [v EXCEPT !.activities = x, !.activitiesError = b] =
             Page(v.messages, v.runs, x, v.status, v.active, v.latest, v.approval, v.error, b)
  <1> DEFINE u == [v EXCEPT !.activities = x]
  <1>1. u = Page(v.messages, v.runs, x, v.status, v.active, v.latest, v.approval,
                 v.error, v.activitiesError)
    BY DEF IsShown, Page
  <1>2. [v EXCEPT !.activities = x, !.activitiesError = b] = [u EXCEPT !.activitiesError = b]
    OBVIOUS
  <1> HIDE DEF u
  <1> QED
    BY <1>1, <1>2 DEF Page

LEMMA ErrorSet ==
    ASSUME NEW v, IsShown(v), NEW b
    PROVE  [v EXCEPT !.activitiesError = b] =
             Page(v.messages, v.runs, v.activities, v.status, v.active, v.latest, v.approval,
                  v.error, b)
  BY DEF IsShown, Page

LEMMA StateSet ==
    ASSUME NEW v, IsShown(v), NEW s
    PROVE  StateLoaded(v, s) =
             Page(v.messages, v.runs, v.activities, s.status,
                  IF s.status \in ActiveStatuses THEN s.run ELSE 0, s.run, s.pending,
                  v.error, v.activitiesError)
  <1> DEFINE n == IF s.status \in ActiveStatuses THEN s.run ELSE 0
             u1 == [v EXCEPT !.status = s.status]
             u2 == [u1 EXCEPT !.latest = s.run]
             u3 == [u2 EXCEPT !.active = n]
             u4 == [u3 EXCEPT !.approval = s.pending]
  <1>1. StateLoaded(v, s) = u4
    BY DEF StateLoaded
  <1> HIDE DEF n
  <1>2. u1 = Page(v.messages, v.runs, v.activities, s.status, v.active, v.latest, v.approval,
                  v.error, v.activitiesError)
    BY DEF IsShown, Page
  <1> HIDE DEF u1
  <1>3. u2 = Page(v.messages, v.runs, v.activities, s.status, v.active, s.run, v.approval,
                  v.error, v.activitiesError)
    BY <1>2 DEF Page
  <1> HIDE DEF u2
  <1>4. u3 = Page(v.messages, v.runs, v.activities, s.status, n, s.run, v.approval,
                  v.error, v.activitiesError)
    BY <1>3 DEF Page
  <1> HIDE DEF u3
  <1>5. u4 = Page(v.messages, v.runs, v.activities, s.status, n, s.run, s.pending,
                  v.error, v.activitiesError)
    BY <1>4 DEF Page
  <1> HIDE DEF u4
  <1> QED
    BY <1>1, <1>5 DEF n

\* The actions without data, the runs, the state, the messages and the activities
\* (messages.loading, messages.error, runs.loaded, messages.loaded, ...).
LEMMA ReducedTrue ==
    ASSUME NEW rs, NEW v, ViewTrue(rs, v)
    PROVE  /\ ViewTrue(rs, MessagesLoading(v)) /\ ViewTrue(rs, MessagesError(v))
           /\ ViewTrue(rs, ActivitiesError(v))
           /\ \A list \in Seq(RunStatuses) : ViewTrue(rs, RunsLoaded(v, list))
           /\ \A s \in StateAnswer :
                EndTrue(rs, s.run, s.status) => ViewTrue(rs, StateLoaded(v, s))
           /\ \A ms : ms \subseteq Messages(rs) /\ ms \subseteq Message =>
                ViewTrue(rs, MessagesLoaded(v, ms))
           /\ \A f : ActivitiesTrue(rs, f) => ViewTrue(rs, ActivitiesLoaded(v, f))
  <1>0. IsShown(v)
    BY ViewIs
  <1>1. ASSUME NEW w \in {MessagesLoading(v), MessagesError(v)}
        PROVE  ViewTrue(rs, w)
    <2>1. /\ IsShown(w)
          /\ w.messages = v.messages /\ w.runs = v.runs /\ w.activities = v.activities
          /\ w.status = v.status /\ w.active = v.active /\ w.latest = v.latest
          /\ w.approval = v.approval /\ w.error \in BOOLEAN
          /\ w.activitiesError = v.activitiesError
      BY <1>0, <1>1, ViewIs DEF MessagesLoading, MessagesError, IsShown
    <2> QED
      BY <2>1, ViewIs, IsViewTrue
  <1>2. ViewTrue(rs, ActivitiesError(v))
    <2>1. PICK yes \in BOOLEAN : yes = TRUE
      OBVIOUS
    <2>2. ActivitiesError(v) = [v EXCEPT !.activitiesError = yes]
      BY <2>1 DEF ActivitiesError
    <2>3. ActivitiesError(v) = Page(v.messages, v.runs, v.activities, v.status, v.active,
                                    v.latest, v.approval, v.error, yes)
      BY <1>0, <2>2, ErrorSet
    <2> QED
      BY <2>3, ViewIs, PageTrue
  <1>3. ASSUME NEW list \in Seq(RunStatuses)
        PROVE  ViewTrue(rs, RunsLoaded(v, list))
    <2>1. RunsLoaded(v, list) =
            Page(v.messages, list, v.activities, v.status, v.active, v.latest,
                 v.approval, v.error, v.activitiesError)
      BY <1>0 DEF RunsLoaded, IsShown, Page
    <2> QED
      BY <2>1, ViewIs, PageTrue
  <1>4. ASSUME NEW s \in StateAnswer, EndTrue(rs, s.run, s.status)
        PROVE  ViewTrue(rs, StateLoaded(v, s))
    <2> DEFINE n == IF s.status \in ActiveStatuses THEN s.run ELSE 0
    <2>1. /\ s.run \in Nat /\ s.status \in RunStatuses \union {"none"} /\ s.pending \in Nat
          /\ n \in Nat
      BY DEF StateAnswer
    <2>2. StateLoaded(v, s) =
             Page(v.messages, v.runs, v.activities, s.status, n, s.run, s.pending,
                  v.error, v.activitiesError)
      BY <1>0, StateSet
    <2> HIDE DEF n
    <2> QED
      BY <1>4, <2>1, <2>2, ViewIs, PageTrue
  <1>5. ASSUME NEW ms, ms \subseteq Messages(rs), ms \subseteq Message
        PROVE  ViewTrue(rs, MessagesLoaded(v, ms))
    <2>1. v.messages \union ms \subseteq Message /\ v.messages \union ms \subseteq Messages(rs)
      BY <1>5, ViewIs
    <2> DEFINE x == v.messages \union ms
    <2>2. PICK no \in BOOLEAN : no = FALSE
      OBVIOUS
    <2>3. MessagesLoaded(v, ms) = [v EXCEPT !.messages = x, !.error = no]
      BY <2>2 DEF MessagesLoaded, MergeMessages
    <2> HIDE DEF x
    <2>4. MessagesLoaded(v, ms) = Page(x, v.runs, v.activities, v.status, v.active, v.latest,
                                       v.approval, no, v.activitiesError)
      BY <1>0, <2>3, MessagesSet
    <2>5. x \subseteq Message /\ x \subseteq Messages(rs)
      BY <2>1 DEF x
    <2> QED
      BY <2>4, <2>5, ViewIs, PageTrue
  <1>6. ASSUME NEW f, ActivitiesTrue(rs, f)
        PROVE  ViewTrue(rs, ActivitiesLoaded(v, f))
    <2>1. ActivitiesTrue(rs, MergeActivities(v.activities, f))
      BY <1>6, ViewIs, MergedTrue
    <2> DEFINE x == MergeActivities(v.activities, f)
    <2>2. PICK no \in BOOLEAN : no = FALSE
      OBVIOUS
    <2>3. ActivitiesLoaded(v, f) = [v EXCEPT !.activities = x, !.activitiesError = no]
      BY <2>2 DEF ActivitiesLoaded
    <2> HIDE DEF x
    <2>4. ActivitiesLoaded(v, f) = Page(v.messages, v.runs, x, v.status, v.active, v.latest,
                                        v.approval, v.error, no)
      BY <1>0, <2>3, ActivitiesSet
    <2>5. ActivitiesTrue(rs, x)
      BY <2>1 DEF x
    <2> QED
      BY <2>4, <2>5, ViewIs, PageTrue
  <1> QED
    BY <1>1, <1>2, <1>3, <1>4, <1>5, <1>6

\* Events of what is true (event.received).
LEMMA ReceivedTrue ==
    ASSUME NEW rs, NEW v, ViewTrue(rs, v), NEW e, EventTrue(rs, e)
    PROVE  ViewTrue(rs, EventReceived(v, e))
  <1>0. IsShown(v) /\ e.run \in Nat /\ e.run \in DOMAIN rs /\ e.run \in Session
    BY ViewIs DEF EventTrue, Event, Session
  <1>1. ASSUME NEW w, IsShown(w), w.messages = v.messages, w.runs = v.runs,
               w.activities = v.activities, w.status \in RunStatuses,
               w.active \in {0, e.run, v.active}, w.latest \in {e.run, v.latest}, w.approval = 0,
               w.error = v.error, w.activitiesError = v.activitiesError,
               w.status \in TerminalStatuses => w.latest = e.run /\ rs[e.run].status = w.status
        PROVE  ViewTrue(rs, w)
    <2>1. w.active \in Nat /\ w.latest \in Nat /\ EndTrue(rs, w.latest, w.status)
      BY <1>0, <1>1, ViewIs DEF EndTrue
    <2> QED
      BY <1>1, <2>1, ViewIs, IsViewTrue
  <1> DEFINE Moved(status, n, latest) ==
          [messages |-> v.messages, runs |-> v.runs, activities |-> v.activities,
           status |-> status, active |-> n, latest |-> latest, approval |-> 0,
           error |-> v.error, activitiesError |-> v.activitiesError]
  <1>2. CASE e.type = "run.started"
    <2>1. EventReceived(v, e) = Moved("running", e.run, e.run)
      BY <1>0, <1>2 DEF EventReceived, IsShown
    <2>2. "running" \in RunStatuses \ TerminalStatuses
      BY DEF RunStatuses, ActiveStatuses, TerminalStatuses
    <2> QED
      BY <1>1, <2>1, <2>2 DEF IsShown
  <1>3. CASE e.type = "approval.requested"
    <2>1. EventReceived(v, e) = Moved("waiting_approval", e.run, v.latest)
      BY <1>0, <1>3 DEF EventReceived, IsShown
    <2>2. "waiting_approval" \in RunStatuses \ TerminalStatuses
      BY DEF RunStatuses, ActiveStatuses, TerminalStatuses
    <2> QED
      BY <1>1, <2>1, <2>2 DEF IsShown
  <1>4. CASE e.type = "approval.resolved"
    <2>1. EventReceived(v, e) = Moved("running", v.active, v.latest)
      BY <1>0, <1>4 DEF EventReceived, IsShown
    <2>2. "running" \in RunStatuses \ TerminalStatuses
      BY DEF RunStatuses, ActiveStatuses, TerminalStatuses
    <2> QED
      BY <1>1, <2>1, <2>2 DEF IsShown
  <1>5. CASE e.type \in {"run.completed", "run.failed"}
    <2>1. rs[e.run].status = IF e.type = "run.completed" THEN "completed" ELSE "failed"
      BY <1>5 DEF EventTrue
    <2>2. EventReceived(v, e) = RunEnded(v, e.run, rs[e.run].status)
      BY <1>5, <2>1 DEF EventReceived
    <2>3. rs[e.run].status \in TerminalStatuses /\ rs[e.run].status \in RunStatuses
      BY <1>5, <2>1 DEF TerminalStatuses, RunStatuses
    <2> QED
      BY <1>0, <1>1, <2>2, <2>3 DEF RunEnded, IsShown
  <1>6. CASE e.type = "assistant.message.completed"
    <2> DEFINE ms == {AssistantMessage(e.run)}
               w == [v EXCEPT !.messages = MergeMessages(v.messages, ms)]
    <2>1. EventReceived(v, e) = w
      BY <1>6 DEF EventReceived
    <2>2. ms \subseteq Messages(rs) /\ ms \subseteq Message
      BY <1>0, <1>6 DEF EventTrue, Messages, Message, AssistantMessage
    <2>3. /\ IsShown(w)
          /\ w.messages = v.messages \union ms /\ w.runs = v.runs
          /\ w.activities = v.activities
          /\ w.status = v.status /\ w.active = v.active /\ w.latest = v.latest
          /\ w.approval = v.approval /\ w.error = v.error
          /\ w.activitiesError = v.activitiesError
      BY <1>0 DEF MergeMessages, IsShown
    <2> HIDE DEF ms, w
    <2>4. w.messages \subseteq Message /\ w.messages \subseteq Messages(rs)
      BY <2>2, <2>3, ViewIs
    <2> QED
      BY <2>1, <2>3, <2>4, ViewIs, IsViewTrue
  <1>7. CASE e.type \notin {"run.started", "approval.requested", "approval.resolved",
                            "run.completed", "run.failed", "assistant.message.completed"}
    <2> DEFINE h == MergeActivities(v.activities, ActivityFromEvent(e))
               w == [v EXCEPT !.activities = h]
    <2>1. EventReceived(v, e) = w
      BY <1>7 DEF EventReceived
    <2>2. ActivitiesTrue(rs, h)
      BY ViewIs, EventActivityTrue, MergedTrue
    <2> HIDE DEF h
    <2>3. /\ IsShown(w)
          /\ w.messages = v.messages /\ w.runs = v.runs /\ w.activities = h
          /\ w.status = v.status /\ w.active = v.active /\ w.latest = v.latest
          /\ w.approval = v.approval /\ w.error = v.error
          /\ w.activitiesError = v.activitiesError
      BY <1>0 DEF IsShown
    <2> HIDE DEF w
    <2> QED
      BY <2>1, <2>2, <2>3, ViewIs, IsViewTrue
  <1> QED
    BY <1>2, <1>3, <1>4, <1>5, <1>6, <1>7

\* Messages there can be are messages.
LEMMA MessagesAre ==
    ASSUME NEW rs \in Seq(Run)
    PROVE  Messages(rs) \subseteq Message
  BY DEF Messages, Message, UserMessage, AssistantMessage, Session

\* What a continuation brings, part by part (restoreConversationHttp).
LEMMA LoadedTrue ==
    ASSUME NEW rs \in Seq(Run), NEW v, ViewTrue(rs, v), NEW got, GotTrue(rs, got)
    PROVE  ViewTrue(rs, Loaded(v, got))
  <1> DEFINE v1 == IF "messages" \in DOMAIN got
                   THEN MessagesLoaded(v, got["messages"]) ELSE v
             v2 == IF "runs" \in DOMAIN got THEN RunsLoaded(v1, got["runs"]) ELSE v1
             v3 == IF "activities" \in DOMAIN got
                   THEN ActivitiesLoaded(v2, got["activities"])
                   ELSE IF "noActivities" \in DOMAIN got THEN ActivitiesError(v2) ELSE v2
             v4 == IF "state" \in DOMAIN got THEN StateLoaded(v3, got["state"]) ELSE v3
  <1>1. ViewTrue(rs, v1)
    BY ReducedTrue, MessagesAre DEF GotTrue
  <1> HIDE DEF v1
  <1>2. ViewTrue(rs, v2)
    BY <1>1, ReducedTrue DEF GotTrue
  <1> HIDE DEF v2
  <1>3. ViewTrue(rs, v3)
    BY <1>2, ReducedTrue DEF GotTrue
  <1> HIDE DEF v3
  <1>4. ViewTrue(rs, v4)
    BY <1>3, ReducedTrue DEF GotTrue
  <1>5. v4 = Loaded(v, got)
    BY DEF Loaded, v1, v2, v3
  <1> QED
    BY <1>4, <1>5

-----------------------------------------------------------------------------
(* The views. *)

\* The head of a queue, and what is left of it (onEvent).
LEMMA QueueParts ==
    ASSUME NEW rs, NEW events, EventsTrue(rs, events), events # <<>>
    PROVE  EventTrue(rs, Head(events)) /\ EventsTrue(rs, Tail(events))
  <1>1. /\ Head(events) = events[1] /\ 1 \in DOMAIN events
        /\ Tail(events) \in Seq(Event)
        /\ \A k \in DOMAIN Tail(events) :
             k + 1 \in DOMAIN events /\ Tail(events)[k] = events[k + 1]
    BY DEF EventsTrue
  <1> QED
    BY <1>1 DEF EventsTrue

\* One view is replaced by a true one.
LEMMA OneViewTrue ==
    ASSUME ViewInv, NEW c, NEW v, view' = [view EXCEPT ![c] = v],
           c \in Conversations => ViewTrue(runs[c], v)
    PROVE  /\ DOMAIN view' = Conversations
           /\ \A d \in Conversations : ViewTrue(runs[d], view'[d])
  <1>1. /\ DOMAIN view' = Conversations
        /\ \A d \in Conversations : view'[d] = IF d = c THEN v ELSE view[d]
    BY DEF ViewInv
  <1> QED
    BY <1>1 DEF ViewInv

\* Whatever is dispatched is true of the runs (dispatch).
LEMMA ViewsTrue ==
    ASSUME ServerInv, ClientInv, ViewInv, [Next]_vars
    PROVE  /\ DOMAIN view' = Conversations
           /\ \A d \in Conversations : ViewTrue(runs[d], view'[d])
  <1> DEFINE Goal == /\ DOMAIN view' = Conversations
                     /\ \A d \in Conversations : ViewTrue(runs[d], view'[d])
  <1>1. ASSUME view' = view
        PROVE  Goal
    BY <1>1 DEF ViewInv
  <1>2. ASSUME NEW c, NEW v, Dispatch(c, v), c \in Conversations => ViewTrue(runs[c], v)
        PROVE  Goal
    BY <1>2, OneViewTrue DEF Dispatch
  <1>3. \A c \in Conversations :
          /\ ViewTrue(runs[c], view[c])
          /\ ViewTrue(runs[c], MessagesLoading(view[c]))
          /\ ViewTrue(runs[c], MessagesError(view[c]))
          /\ ViewTrue(runs[c], ActivitiesError(view[c]))
    BY ReducedTrue DEF ViewInv
  <1>4. ASSUME NEW c \in Conversations, NEW e, EventTrue(runs[c], e)
        PROVE  ViewTrue(runs[c], EventReceived(view[c], e))
    BY <1>3, <1>4, ReceivedTrue
  <1>5. ASSUME NEW c \in Conversations, NEW got, GotTrue(runs[c], got)
        PROVE  ViewTrue(runs[c], Loaded(view[c], got))
    BY <1>3, <1>5, LoadedTrue DEF ServerInv, RunsOK
  <1>6. ASSUME NEW i \in DOMAIN requests, Continued(i)
        PROVE  Goal
    <2> DEFINE c == requests[i].conv
    <2>1. c \in Conversations /\ RequestTrue(runs[c], requests[i])
      BY SomeRequest DEF ViewInv
    <2>2. ViewTrue(runs[c], Loaded(view[c], requests[i].got))
      BY <1>5, <2>1 DEF RequestTrue
    <2>3. CASE Apply(i)
      BY <1>2, <2>2, <2>3 DEF Apply
    <2>4. CASE PostAnswered(i)
      <3> DEFINE n == requests[i].session
                 e == [type |-> "run.started", run |-> n]
      <3>1. CASE requests[i].answer = "accepted" /\ Dispatch(c, EventReceived(view[c], e))
        <4>1. n \in DOMAIN runs[c] /\ n \in Session
          BY <2>1, <2>4, <3>1 DEF RequestTrue, PostAnswered, ServerInv, RunsOK, Session
        <4>2. EventTrue(runs[c], e)
          BY <4>1 DEF EventTrue, Event, EventTypes
        <4> QED
          BY <1>2, <1>4, <2>1, <3>1, <4>2
      <3>2. CASE Ignore
        BY <1>1, <3>2 DEF Ignore
      <3> QED
        BY <2>4, <3>1, <3>2 DEF PostAnswered
    <2>5. \/ view' = view
          \/ Apply(i)
          \/ PostAnswered(i)
          \/ Dispatch(c, MessagesError(view[c]))
          \/ Dispatch(c, ActivitiesError(view[c]))
      BY <1>6 DEF Continued, RestoreDone, RestoreFailed, ActivitiesRefreshed, StateFetched,
                  TerminalReloaded, StopAnswered, ReloadedAfterPost, DecisionFailed, Ignore
    <2> HIDE DEF c
    <2> QED
      BY <1>1, <1>2, <1>3, <2>1, <2>3, <2>4, <2>5
  <1>7. ASSUME NEW c \in Conversations, Streaming(c)
        PROVE  Goal
    <2>1. CASE Subscribe(c)
      BY <1>1, <2>1 DEF Subscribe
    <2>2. CASE Deliver(c)
      <3>1. EventTrue(runs[c], Head(stream[c].queue))
        BY <2>2, QueueParts DEF Deliver, ViewInv, ConnectionTrue
      <3>2. Dispatch(c, EventReceived(view[c], Head(stream[c].queue)))
        BY <2>2 DEF Deliver
      <3> QED
        BY <1>2, <1>4, <3>1, <3>2
    <2>3. CASE StreamError(c)
      <3>1. view' = view \/ Dispatch(c, MessagesLoading(view[c]))
        BY <2>3 DEF StreamError
      <3> QED
        BY <1>1, <1>2, <1>3, <3>1
    <2> QED
      BY <1>7, <2>1, <2>2, <2>3 DEF Streaming
  <1>8. ASSUME NEW c \in Conversations, Select(c)
        PROVE  Goal
    <2>1. view' = [view EXCEPT ![c] = MessagesLoading(view[c])]
      BY <1>8 DEF Select
    <2> QED
      BY <1>3, <2>1, OneViewTrue
  <1>9. \/ \E i \in DOMAIN requests : Handled(i)
        \/ \E c : RunTask(c) \/ LateWrite(c)
        \/ Submit \/ Stop \/ Decide \/ ToggleGroup \/ RetryActivities
        \/ Fault \/ ServerRestart \/ UNCHANGED vars
        => view' = view
    BY LateLeaves
    DEF Handled, Serve, PostBegins, PostStarts, StopRead, StopServed, DecisionServed, RunTask,
           Submit, Stop, Decide, ToggleGroup, RetryActivities, Issue,
           Fault, LoseRequest, LoseActivities, LoseConnection, ServerCrash, ServerRestart, vars
  <1>10. Selectable \subseteq Conversations
    BY ClientAssumption
  <1> HIDE DEF Goal
  <1>11. Goal
    BY <1>1, <1>6, <1>7, <1>8, <1>9, <1>10 DEF Next, User
  <1> QED
    BY <1>11 DEF Goal

-----------------------------------------------------------------------------
(* The tasks. *)

\* No task has nothing to tell; the tasks that stay stay true.
LEMMA TasksStayTrue ==
    ASSUME ServerInv, ClientInv, ViewInv, [Next]_vars
    PROVE  /\ \A d \in Conversations : TaskTrue(runs'[d], task[d])
           /\ \A rs : TaskTrue(rs, NoTask)
  <1>1. \A d \in Conversations : RunsRipen(runs[d], runs'[d])
    BY Ripened
  <1>2. \A d \in Conversations : TaskTrue(runs'[d], task[d])
    BY <1>1, TruthStays DEF ViewInv
  <1>3. \A rs : EventsTrue(rs, <<>>)
    BY DEF EventsTrue
  <1> QED
    BY <1>2, <1>3 DEF TaskTrue, NoTask

\* What is written is told of as it was written (persist before publish, runner.py).
LEMMA WriteTrue ==
    ASSUME ServerInv, ViewInv, NEW c \in Conversations, Working(c),
           NEW r, NEW types \in Seq(EventTypes), Write(c, r, types),
           \A k \in DOMAIN types :
             /\ types[k] \in {"assistant.message.completed", "run.completed"} =>
                  r.status = "completed"
             /\ types[k] = "run.failed" => r.status = "failed"
             /\ types[k] \in {"tool.requested", "tool.completed", "tool.failed"} =>
                  r.activity # "none"
             /\ types[k] = "tool.completed" => r.activity = "completed"
             /\ types[k] = "tool.failed" => r.activity = "failed"
    PROVE  /\ TaskTrue(runs'[c], task'[c])
           /\ \A d \in Conversations \ {c} : task'[d] = task[d]
  <1> DEFINE n == task[c].run
             out == [k \in DOMAIN types |-> [type |-> types[k], run |-> n]]
  <1>1. /\ n # 0 /\ n \in DOMAIN runs[c] /\ n \in Session
        /\ task[c] = [run |-> n, out |-> task[c].out]
        /\ runs[c] \in Seq(Run)
    BY DEF Working, ViewInv, TaskTrue, ServerInv, TasksOK, RunsOK, Session
  <1>2. /\ runs' = [runs EXCEPT ![c] = [runs[c] EXCEPT ![n] = r]]
        /\ task' = [task EXCEPT ![c] = [task[c] EXCEPT !.out = out]]
    BY DEF Write
  <1>3. n \in DOMAIN runs'[c] /\ runs'[c][n] = r
    BY <1>1, <1>2 DEF ServerInv, RunsOK
  <1>4. \A k \in DOMAIN types :
          LET e == [type |-> types[k], run |-> n] IN EventTrue(runs'[c], e)
    <2> TAKE k \in DOMAIN types
    <2> DEFINE e == [type |-> types[k], run |-> n]
    <2>1. e \in Event /\ e.type = types[k] /\ e.run = n
      BY <1>1 DEF Event
    <2> HIDE DEF e, n
    <2>2. EventTrue(runs'[c], e)
      BY <1>3, <2>1 DEF EventTrue, ActivityTrue, TerminalActivityStatuses
    <2> QED
      BY <2>2 DEF e
  <1> HIDE DEF n
  <1>5. /\ out \in Seq(Event) /\ DOMAIN out = DOMAIN types
        /\ \A k \in DOMAIN out : EventTrue(runs'[c], out[k]) /\ out[k].run = n
    <2>1. DOMAIN types = 1..Len(types) /\ Len(types) \in Nat
      OBVIOUS
    <2>2. \A k \in DOMAIN types : out[k] \in Event /\ EventTrue(runs'[c], out[k]) /\ out[k].run = n
      BY <1>4 DEF EventTrue
    <2> HIDE DEF out
    <2>3. DOMAIN out = DOMAIN types /\ out = [k \in DOMAIN types |-> out[k]]
      BY DEF out
    <2>4. out \in Seq(Event)
      BY <2>1, <2>2, <2>3, IsASeq
    <2> QED
      BY <2>2, <2>3, <2>4
  <1> HIDE DEF out
  <1>6. /\ task'[c] = [run |-> n, out |-> out]
        /\ \A d \in Conversations \ {c} : task'[d] = task[d]
    BY <1>1, <1>2 DEF ServerInv, TasksOK
  <1> QED
    BY <1>1, <1>3, <1>5, <1>6 DEF TaskTrue, EventsTrue

\* One event, or none.
LEMMA TellTrue ==
    ASSUME ServerInv, ViewInv, NEW c \in Conversations, Working(c), NEW r,
           NEW type \in EventTypes, Write(c, r, <<type>>) \/ Write(c, r, <<>>),
           type \in {"assistant.message.completed", "run.completed"} => r.status = "completed",
           type = "run.failed" => r.status = "failed",
           type \in {"tool.requested", "tool.completed", "tool.failed"} => r.activity # "none",
           type = "tool.completed" => r.activity = "completed",
           type = "tool.failed" => r.activity = "failed"
    PROVE  /\ TaskTrue(runs'[c], task'[c])
           /\ \A d \in Conversations \ {c} : task'[d] = task[d]
  <1>1. PICK types \in {<<>>, <<type>>} : Write(c, r, types)
    OBVIOUS
  <1>2. /\ types \in Seq(EventTypes)
        /\ \A k \in DOMAIN types : types[k] = type
    <2>1. CASE types = <<>>
      BY <2>1
    <2>2. CASE types = <<type>>
      BY <2>2
    <2> QED
      BY <1>1, <2>1, <2>2
  <1> QED
    BY <1>1, <1>2, WriteTrue

\* Step by step (runner.py).
LEMMA TaskStepTrue ==
    ASSUME ServerInv, ClientInv, ViewInv, [Next]_vars, NEW c \in Conversations, TaskStep(c)
    PROVE  /\ TaskTrue(runs'[c], task'[c])
           /\ \A d \in Conversations \ {c} : task'[d] = task[d]
  <1>1. /\ Working(c) => Owned(c) \in Run
        /\ {"run.started", "tool.requested", "tool.completed", "tool.failed",
             "approval.requested", "approval.resolved", "run.failed"} \subseteq EventTypes
    BY DEF EventTypes, Working, Owned, ViewInv, TaskTrue, ServerInv, RunsOK
  <1>2. CASE StartTurn(c) \/ AwaitApproval(c) \/ CreateApproval(c) \/ FinishDecision(c)
    <2>1. PICK r, type :
            /\ type \in {"run.started", "approval.requested", "approval.resolved"}
            /\ Working(c) /\ (Write(c, r, <<type>>) \/ Write(c, r, <<>>))
      <3>1. CASE StartTurn(c)
        BY <3>1 DEF StartTurn
      <3>2. CASE AwaitApproval(c)
        BY <3>2 DEF AwaitApproval
      <3>3. CASE CreateApproval(c)
        BY <3>3 DEF CreateApproval
      <3>4. CASE FinishDecision(c)
        BY <3>4 DEF FinishDecision
      <3> QED
        BY <1>2, <3>1, <3>2, <3>3, <3>4
    <2> QED
      BY <1>1, <2>1, TellTrue
  <1>3. CASE RequestTool(c)
    <2>1. PICK r \in ToolCalled(c, Owned(c)) : Working(c) /\ Write(c, r, <<"tool.requested">>)
      BY <1>3 DEF RequestTool
    <2>2. r.activity = "running"
      BY <1>1, <2>1 DEF ToolCalled, If, Run
    <2>3. PICK type \in EventTypes : type = "tool.requested"
      BY <1>1
    <2> QED
      BY <2>1, <2>2, <2>3, TellTrue
  <1>4. CASE FinishTool(c)
    <2>1. PICK r \in ToolEnded(c, Owned(c)) :
            /\ Working(c)
            /\ Write(c, r, IF r.activity = "completed"
                           THEN <<"tool.completed">> ELSE <<"tool.failed">>)
      BY <1>4 DEF FinishTool
    <2>2. r.activity \in {"completed", "failed"}
      BY <1>1, <2>1, ServerAssumption DEF ToolEnded, If, Run
    <2>3. PICK type \in EventTypes :
            type = IF r.activity = "completed" THEN "tool.completed" ELSE "tool.failed"
      BY <1>1
    <2>4. Write(c, r, <<type>>)
      BY <2>1, <2>3
    <2> QED
      BY <2>1, <2>2, <2>3, <2>4, TellTrue
  <1>5. CASE CompleteRun(c)
    <2> DEFINE types == <<"assistant.message.completed", "run.completed">>
    <2>1. PICK r \in Completed(Owned(c)) : Working(c) /\ Write(c, r, types)
      BY <1>5 DEF CompleteRun
    <2>2. r.status = "completed"
      BY <1>1, <2>1 DEF Completed, WithStatus, If, Run
    <2>3. /\ types \in Seq(EventTypes)
          /\ \A k \in DOMAIN types : types[k] \in {"assistant.message.completed", "run.completed"}
      BY DEF EventTypes
    <2> HIDE DEF types
    <2> QED
      BY <2>1, <2>2, <2>3, WriteTrue
  <1>6. CASE FailRun(c)
    <2>1. PICK r \in Failed(Owned(c)) : Working(c) /\ Write(c, r, <<"run.failed">>)
      BY <1>6 DEF FailRun
    <2>2. r.status = "failed"
      BY <1>1, <2>1 DEF Failed, WithStatus, If, Run
    <2>3. PICK type \in EventTypes : type = "run.failed"
      BY <1>1
    <2> QED
      BY <2>1, <2>2, <2>3, TellTrue
  <1>7. CASE Publish(c)
    <2>1. task' = [task EXCEPT ![c] = [task[c] EXCEPT !.out = <<>>]] /\ runs' = runs
      BY <1>7 DEF Publish
    <2>2. task[c] = [run |-> task[c].run, out |-> task[c].out]
      BY DEF ServerInv, TasksOK
    <2>3. task'[c] = [run |-> task[c].run, out |-> <<>>] /\ \A d \in Conversations \ {c} : task'[d] = task[d]
      BY <2>1, <2>2 DEF ServerInv, TasksOK
    <2>4. EventsTrue(runs'[c], <<>>)
      BY DEF EventsTrue
    <2>5. TaskTrue(runs[c], task[c])
      BY DEF ViewInv
    <2>6. TaskTrue(runs'[c], task'[c])
      BY <2>1, <2>3, <2>4, <2>5 DEF TaskTrue
    <2> QED
      BY <2>3, <2>6
  <1>8. CASE EndTask(c)
    <2>1. task' = [task EXCEPT ![c] = NoTask]
      BY <1>8 DEF EndTask
    <2> QED
      BY <2>1, TasksStayTrue DEF ServerInv, TasksOK
  <1> QED
    BY <1>2, <1>3, <1>4, <1>5, <1>6, <1>7, <1>8 DEF TaskStep

\* Every step.
LEMMA TasksTrue ==
    ASSUME ServerInv, ClientInv, ViewInv, [Next]_vars
    PROVE  \A d \in Conversations : TaskTrue(runs'[d], task'[d])
  <1>1. /\ \A d \in Conversations : TaskTrue(runs'[d], task[d])
        /\ TaskTrue(runs'[active], NoTask) /\ \A rs : TaskTrue(rs, NoTask)
    BY TasksStayTrue
  <1>2. ASSUME NEW c \in Conversations, TaskStep(c)
        PROVE  \A d \in Conversations : TaskTrue(runs'[d], task'[d])
    BY <1>1, <1>2, TaskStepTrue
  <1>3. ASSUME NEW i \in DOMAIN requests, PostStarts(i)
        PROVE  \A d \in Conversations : TaskTrue(runs'[d], task'[d])
    <2> DEFINE c == requests[i].conv
               n == requests[i].session
    <2>1. c \in Conversations /\ n \in DOMAIN runs[c]
      BY <1>3, SomeRequest DEF PostStarts, ViewInv, RequestTrue
    <2>2. CASE StartTask(c, n)
      <3>1. /\ task' = [task EXCEPT ![c] = [task[c] EXCEPT !.run = n]] /\ runs' = runs
            /\ task[c].run = 0
        BY <2>2 DEF StartTask
      <3>2. task[c] = [run |-> 0, out |-> <<>>]
        BY <2>1, <3>1 DEF ServerInv, TasksOK, ViewInv, TaskTrue
      <3> HIDE DEF n, c
      <3>3. task'[c] = [run |-> n, out |-> <<>>] /\ \A d \in Conversations \ {c} : task'[d] = task[d]
        BY <2>1, <3>1, <3>2 DEF ServerInv, TasksOK
      <3>4. EventsTrue(runs'[c], <<>>)
        BY DEF EventsTrue
      <3>5. TaskTrue(runs'[c], task'[c])
        BY <2>1, <3>1, <3>3, <3>4 DEF TaskTrue
      <3> QED
        BY <1>1, <3>3, <3>5
    <2>3. CASE StartRefused(c, n)
      BY <1>1, <2>3 DEF StartRefused
    <2> QED
      BY <1>3, <2>2, <2>3 DEF PostStarts
  <1>4. ASSUME NEW i \in DOMAIN requests, StopServed(i)
        PROVE  \A d \in Conversations : TaskTrue(runs'[d], task'[d])
    <2>1. requests[i].conv \in Conversations
      BY SomeRequest
    <2>2. task' = [task EXCEPT ![requests[i].conv] = NoTask]
      BY <1>4 DEF StopServed, InterruptRun, InterruptOther, InterruptFails, CancelTask
    <2> QED
      BY <1>1, <2>1, <2>2 DEF ServerInv, TasksOK
  <1>5. ASSUME NEW i \in DOMAIN requests, Handled(i)
        PROVE  PostStarts(i) \/ StopServed(i) \/ task' = task
    BY <1>5 DEF Handled, Serve, PostBegins, StopRead, DecisionServed, BeginRun, BeginRefused,
                InterruptAccepted, InterruptRefused, DecideApproval, DecideRefused, serverVars
  <1>6. ASSUME NEW i \in DOMAIN requests, Continued(i)
        PROVE  task' = task
    BY <1>6 DEF Continued, RestoreDone, RestoreFailed, ActivitiesRefreshed, StateFetched,
                TerminalReloaded, PostAnswered, StopAnswered, ReloadedAfterPost,
                DecisionFailed, serverVars
  <1>7. ASSUME NEW c \in Conversations, Streaming(c)
        PROVE  task' = task
    BY <1>7 DEF Streaming, Subscribe, Deliver, StreamError
  <1>8. User => task' = task
    BY DEF User, Select, Submit, Stop, Decide, ToggleGroup, RetryActivities, Issue, serverVars
  <1>9. ServerCrash => \A d \in Conversations : task'[d] = NoTask
    BY DEF ServerCrash, Crash
  <1>10. Fault => ServerCrash \/ task' = task
    BY DEF Fault, LoseRequest, LoseActivities, LoseConnection, serverVars
  <1>11. ServerRestart \/ UNCHANGED vars => task' = task
    BY DEF ServerRestart, Restart, vars
  <1> QED
    BY <1>1, <1>2, <1>3, <1>4, <1>5, <1>6, <1>7, <1>8, <1>9, <1>10, <1>11, LateLeaves
    DEF Next, RunTask

-----------------------------------------------------------------------------
(* The connections. *)

\* What a full queue drops it drops from its head (chat/events.py).
LEMMA NewestProperties ==
    ASSUME NEW S, NEW q \in Seq(S)
    PROVE  /\ Newest(q) \in Seq(S)
           /\ \E d \in Nat :
                /\ d <= Len(q) /\ Len(Newest(q)) = Len(q) - d
                /\ d = 0 <=> Len(q) <= QueueSize
                /\ \A k \in 1..(Len(q) - d) : Newest(q)[k] = q[k + d]
  <1>1. CASE Len(q) <= QueueSize
    <2>1. Newest(q) = q
      BY <1>1 DEF Newest
    <2>2. 0 \in Nat /\ Len(q) \in Nat /\ \A k \in 1..(Len(q) - 0) : Newest(q)[k] = q[k + 0]
      BY <2>1
    <2> QED
      BY <1>1, <2>1, <2>2
  <1>2. CASE ~(Len(q) <= QueueSize)
    <2> DEFINE d == Len(q) - QueueSize
               t == SubSeq(q, Len(q) - QueueSize + 1, Len(q))
    <2>1. QueueSize \in Nat /\ Len(q) \in Nat /\ d \in Nat /\ d <= Len(q) /\ d # 0
      BY <1>2, ServerAssumption
    <2>2. /\ t \in Seq(S) /\ Len(t) = Len(q) - d
          /\ \A k \in 1..(Len(q) - d) : t[k] = q[k + d]
      BY <2>1
    <2>3. Newest(q) = t
      BY <1>2 DEF Newest
    <2> HIDE DEF t, d
    <2> QED
      BY <1>2, <2>1, <2>2, <2>3
  <1> QED
    BY <1>1, <1>2

\* The queue after a publication.
LEMMA QueueTrue ==
    ASSUME NEW rs, NEW q, NEW events, EventsTrue(rs, q), EventsTrue(rs, events)
    PROVE  EventsTrue(rs, Newest(q \o events))
  <1> DEFINE s == q \o events
  <1>1. /\ s \in Seq(Event) /\ Len(s) = Len(q) + Len(events)
        /\ \A k \in DOMAIN s : s[k] = IF k <= Len(q) THEN q[k] ELSE events[k - Len(q)]
        /\ Len(q) \in Nat /\ Len(events) \in Nat
        /\ DOMAIN q = 1..Len(q) /\ DOMAIN events = 1..Len(events)
    BY DEF EventsTrue
  <1> HIDE DEF s
  <1>2. \A k \in DOMAIN s : EventTrue(rs, s[k])
    <2> TAKE k \in DOMAIN s
    <2>1. k \in 1..(Len(q) + Len(events))
      BY <1>1
    <2>2. CASE k <= Len(q)
      BY <1>1, <2>1, <2>2 DEF EventsTrue
    <2>3. CASE ~(k <= Len(q))
      <3>1. k - Len(q) \in DOMAIN events
        BY <1>1, <2>1, <2>3
      <3> QED
        BY <1>1, <2>3, <3>1 DEF EventsTrue
    <2> QED
      BY <2>2, <2>3
  <1>3. Newest(s) \in Seq(Event)
    BY <1>1, NewestProperties
  <1>4. PICK d \in Nat : /\ d <= Len(s) /\ Len(Newest(s)) = Len(s) - d
                         /\ \A k \in 1..(Len(s) - d) : Newest(s)[k] = s[k + d]
    BY <1>1, NewestProperties
  <1>5. \A k \in DOMAIN Newest(s) : EventTrue(rs, Newest(s)[k])
    <2> TAKE k \in DOMAIN Newest(s)
    <2>1. k \in 1..(Len(s) - d) /\ k + d \in DOMAIN s
      BY <1>1, <1>3, <1>4
    <2> QED
      BY <1>2, <1>4, <2>1
  <1>6. EventsTrue(rs, Newest(s))
    BY <1>3, <1>5 DEF EventsTrue
  <1> QED
    BY <1>6 DEF s

\* A connection's queue replaced.
LEMMA QueueSet ==
    ASSUME ClientInv, NEW c \in Conversations, NEW q,
           stream' = [stream EXCEPT ![c] = [stream[c] EXCEPT !.queue = q]]
    PROVE  /\ stream'[c] = [phase |-> stream[c].phase, queue |-> q]
           /\ \A d \in Conversations \ {c} : stream'[d] = stream[d]
  BY DEF ClientInv, IsConnection

\* What is published of true events.
LEMMA PublishedTrue ==
    ASSUME ClientInv, NEW c \in Conversations, NEW events, stream' = Published(c, events),
           EventsTrue(runs'[c], events),
           \A d \in Conversations : ConnectionTrue(runs'[d], stream[d])
    PROVE  \A d \in Conversations : ConnectionTrue(runs'[d], stream'[d])
  <1>1. CASE stream[c].phase = "open"
    <2> DEFINE q == Newest(stream[c].queue \o events)
    <2>1. stream' = [stream EXCEPT ![c] = [stream[c] EXCEPT !.queue = q]]
      BY <1>1 DEF Published
    <2>2. EventsTrue(runs'[c], q)
      BY QueueTrue DEF ConnectionTrue
    <2> HIDE DEF q
    <2>3. /\ stream'[c] = [phase |-> "open", queue |-> q]
          /\ \A d \in Conversations \ {c} : stream'[d] = stream[d]
      <3>1. /\ stream'[c] = [phase |-> stream[c].phase, queue |-> q]
            /\ \A d \in Conversations \ {c} : stream'[d] = stream[d]
        BY <2>1, QueueSet
      <3> QED
        BY <1>1, <3>1
    <2>4. ConnectionTrue(runs'[c], stream'[c])
      BY <2>2, <2>3 DEF ConnectionTrue
    <2> QED
      BY <2>3, <2>4
  <1>2. CASE stream[c].phase # "open"
    BY <1>2 DEF Published
  <1> QED
    BY <1>1, <1>2

\* Every step.
LEMMA ConnectionsTrue ==
    ASSUME ServerInv, ClientInv, ViewInv, [Next]_vars
    PROVE  \A d \in Conversations : ConnectionTrue(runs'[d], stream'[d])
  <1> DEFINE Goal == \A d \in Conversations : ConnectionTrue(runs'[d], stream'[d])
  <1>0. \A d \in Conversations : RunsRipen(runs[d], runs'[d])
    BY Ripened
  <1>1. \A d \in Conversations : ConnectionTrue(runs'[d], stream[d])
    BY <1>0, TruthStays DEF ViewInv
  <1>2. \A rs : /\ ConnectionTrue(rs, Closed) /\ ConnectionTrue(rs, Connecting)
                /\ ConnectionTrue(rs, Subscribed) /\ ConnectionTrue(rs, Broken)
    BY DEF ConnectionTrue, EventsTrue, Closed, Connecting, Subscribed, Broken
  <1>3. ASSUME stream' = stream
        PROVE  Goal
    BY <1>1, <1>3
  <1>4. ASSUME NEW c, NEW x \in {Connecting, Subscribed, Broken}, stream' = [stream EXCEPT ![c] = x]
        PROVE  Goal
    BY <1>1, <1>2, <1>4 DEF ClientInv
  <1>5. ASSUME NEW c, stream' = [d \in Conversations |-> IF d = c THEN Connecting ELSE Closed]
        PROVE  Goal
    BY <1>2, <1>5
  <1>6. ASSUME stream' = [d \in Conversations |-> Closed]
        PROVE  Goal
    BY <1>2, <1>6
  <1>7. ASSUME NEW c \in Conversations, TaskStep(c)
        PROVE  Goal
    <2>1. CASE Publish(c)
      <3>1. stream' = Published(c, task[c].out) /\ EventsTrue(runs'[c], task[c].out)
        BY <2>1 DEF Publish, ViewInv, TaskTrue
      <3> QED
        BY <1>1, <3>1, PublishedTrue
    <2>2. CASE ~Publish(c)
      <3>1. stream' = stream
        BY <1>7, <2>2 DEF TaskStep, StartTurn, RequestTool, FinishTool, AwaitApproval,
                          CreateApproval, FinishDecision, CompleteRun, FailRun, EndTask, Write
      <3> QED
        BY <1>3, <3>1
    <2> QED
      BY <2>1, <2>2
  <1>8. ASSUME NEW i \in DOMAIN requests, StopServed(i)
        PROVE  Goal
    <2> DEFINE c == requests[i].conv
               n == task[c].run
               e == [type |-> "approval.resolved", run |-> n]
    <2>1. c \in Conversations /\ CancelTask(c)
      BY <1>8, SomeRequest DEF StopServed, InterruptRun, InterruptOther, InterruptFails
    <2>2. stream' = stream \/ (n # 0 /\ stream' = Published(c, <<e>>))
      <3>1. stream' = IF n # 0 /\ task[c].out = <<>> /\ IsDecided(runs[c][n])
                      THEN Published(c, <<e>>) ELSE stream
        BY <2>1 DEF CancelTask
      <3> HIDE DEF c, n, e
      <3> QED
        BY <3>1
    <2>3. CASE n # 0 /\ stream' = Published(c, <<e>>)
      <3>1. n \in DOMAIN runs'[c]
        BY <1>0, <2>1, <2>3 DEF ViewInv, TaskTrue, RunsRipen
      <3>2. n \in Session
        BY <2>1, <2>3 DEF ViewInv, TaskTrue, ServerInv, RunsOK, Session
      <3> HIDE DEF c, n
      <3>3. EventTrue(runs'[c], e)
        BY <3>1, <3>2 DEF EventTrue, Event, EventTypes
      <3> HIDE DEF e
      <3>4. EventsTrue(runs'[c], <<e>>)
        BY <3>3 DEF EventsTrue, EventTrue
      <3> QED
        BY <1>1, <2>1, <2>3, <3>4, PublishedTrue
    <2> QED
      BY <1>3, <2>2, <2>3
  <1>9. ASSUME NEW i \in DOMAIN requests, Handled(i)
        PROVE  StopServed(i) \/ stream' = stream
    BY <1>9 DEF Handled, Serve, PostBegins, PostStarts, StopRead, DecisionServed, BeginRun,
                BeginRefused, StartTask, StartRefused, InterruptAccepted, InterruptRefused,
                DecideApproval, DecideRefused, serverVars
  <1>10. ASSUME NEW i \in DOMAIN requests, Continued(i)
         PROVE  Goal
    <2>1. stream' = stream \/ Connect(requests[i].conv)
      BY <1>10 DEF Continued, RestoreDone, RestoreFailed, ActivitiesRefreshed, StateFetched,
                   TerminalReloaded, PostAnswered, StopAnswered, ReloadedAfterPost,
                   DecisionFailed, serverVars
    <2> QED
      BY <1>3, <1>5, <2>1 DEF Connect
  <1>11. ASSUME NEW c \in Conversations, Streaming(c)
         PROVE  Goal
    <2>1. CASE Subscribe(c)
      BY <1>4, <2>1 DEF Subscribe
    <2>2. CASE Deliver(c)
      <3>1. /\ stream' = [stream EXCEPT ![c] = [stream[c] EXCEPT !.queue = Tail(stream[c].queue)]]
            /\ stream[c].phase = "open" /\ stream[c].queue # <<>>
        BY <2>2 DEF Deliver
      <3>2. EventsTrue(runs'[c], Tail(stream[c].queue))
        BY <1>1, <3>1, QueueParts DEF ConnectionTrue
      <3>3. /\ stream'[c] = [phase |-> stream[c].phase, queue |-> Tail(stream[c].queue)]
            /\ \A d \in Conversations \ {c} : stream'[d] = stream[d]
        BY <3>1, QueueSet
      <3>4. ConnectionTrue(runs'[c], stream'[c])
        BY <3>1, <3>2, <3>3 DEF ConnectionTrue
      <3> QED
        BY <1>1, <3>3, <3>4
    <2>3. CASE StreamError(c)
      BY <1>4, <1>6, <2>3 DEF StreamError, CloseStream
    <2> QED
      BY <1>11, <2>1, <2>2, <2>3 DEF Streaming
  <1>12. User => stream' = stream \/ stream' = [d \in Conversations |-> Closed]
    BY DEF User, Select, CloseStream, Submit, Stop, Decide, ToggleGroup, RetryActivities, Issue,
           serverVars
  <1>13. ASSUME Fault
         PROVE  Goal
    <2>1. CASE ServerCrash
      <3>1. \A d \in Conversations : stream'[d] \in {Closed, Broken}
        BY <2>1 DEF ServerCrash, Crash
      <3> QED
        BY <1>2, <3>1
    <2>2. CASE \E c \in Conversations : LoseConnection(c)
      BY <1>4, <2>2 DEF LoseConnection
    <2>3. CASE \E i \in DOMAIN requests : LoseRequest(i) \/ LoseActivities(i)
      BY <1>3, <2>3 DEF LoseRequest, LoseActivities, serverVars
    <2> QED
      BY <1>13, <2>1, <2>2, <2>3 DEF Fault
  <1>14. ServerRestart \/ UNCHANGED vars => stream' = stream
    BY DEF ServerRestart, Restart, vars
  <1> HIDE DEF Goal
  <1>15. ASSUME User
         PROVE  Goal
    BY <1>3, <1>6, <1>12, <1>15
  <1>16. ASSUME NEW i \in DOMAIN requests, Handled(i)
         PROVE  Goal
    BY <1>3, <1>8, <1>9, <1>16
  <1>17. ASSUME ServerRestart \/ UNCHANGED vars
         PROVE  Goal
    BY <1>3, <1>14, <1>17
  <1>18. Goal
    BY <1>3, <1>7, <1>10, <1>11, <1>13, <1>15, <1>16, <1>17, LateLeaves DEF Next, RunTask
  <1> QED
    BY <1>18 DEF Goal

-----------------------------------------------------------------------------
(* The requests. *)

\* What the GET handlers answer is true (api.py).
LEMMA AnswersTrue ==
    ASSUME NEW rs \in Seq(Run)
    PROVE  /\ RunList(rs) \in Seq(RunStatuses)
           /\ ActivitiesTrue(rs, ActivityList(rs))
           /\ ConversationState(rs) \in StateAnswer
           /\ EndTrue(rs, ConversationState(rs).run, ConversationState(rs).status)
  <1>1. /\ DOMAIN rs = 1..Len(rs) /\ Len(rs) \in Nat
        /\ \A n \in DOMAIN rs : rs[n] \in Run /\ n \in Session
    BY DEF Session
  <1>2. RunList(rs) \in Seq(RunStatuses)
    BY <1>1, IsASeq DEF RunList, Run
  <1>3. ActivitiesTrue(rs, ActivityList(rs))
    BY <1>1 DEF ActivitiesTrue, ActivityTrue, IsActivities, ActivityList, Run
  <1>4. CASE Len(rs) = 0
    <2>1. ConversationState(rs) = [run |-> 0, status |-> "none", pending |-> 0]
      BY <1>4 DEF ConversationState
    <2> QED
      BY <1>2, <1>3, <2>1 DEF StateAnswer, EndTrue, TerminalStatuses
  <1>5. CASE Len(rs) # 0
    <2> DEFINE n == Len(rs)
               pending == IF rs[n].status = "waiting_approval" /\ rs[n].approval = "pending"
                          THEN n ELSE 0
    <2>1. ConversationState(rs) = [run |-> n, status |-> rs[n].status, pending |-> pending]
      BY <1>5 DEF ConversationState
    <2>2. n \in DOMAIN rs /\ n \in Nat /\ pending \in Nat /\ rs[n].status \in RunStatuses
      BY <1>1, <1>5 DEF Run
    <2> HIDE DEF pending, n
    <2> QED
      BY <1>2, <1>3, <2>1, <2>2 DEF StateAnswer, EndTrue
  <1> QED
    BY <1>4, <1>5

\* Requests alike but for their freshness and their fate.
LEMMA AlikeTrue ==
    ASSUME NEW rs, NEW r, RequestTrue(rs, r), NEW q,
           q.kind = r.kind, q.session = r.session, q.answer = r.answer, q.got = r.got
    PROVE  RequestTrue(rs, q)
  BY DEF RequestTrue

\* A request that has got nothing and no answer yet.
LEMMA NothingTrue ==
    ASSUME NEW rs, NEW q, q.kind \in Kinds, q.session \in Nat, q.answer = "none", q.got = <<>>
    PROVE  RequestTrue(rs, q)
  <1>1. DOMAIN q.got = {}
    OBVIOUS
  <1> QED
    BY <1>1 DEF RequestTrue, GotTrue, Answers

\* What the client issues.
LEMMA IssuedTrue ==
    ASSUME NEW kind \in Kinds, NEW c, NEW n \in Nat
    PROVE  \A rs : RequestTrue(rs, Request(kind, c, n))
  <1>1. /\ Request(kind, c, n).kind = kind /\ Request(kind, c, n).session = n
        /\ Request(kind, c, n).answer = "none" /\ Request(kind, c, n).got = <<>>
    BY DEF Request
  <1> QED
    BY <1>1, NothingTrue

\* What a continuation issues next.
LEMMA Next1True ==
    ASSUME ClientInv, ViewInv, NEW i \in DOMAIN requests, NEW kind \in Kinds
    PROVE  \A rs : RequestTrue(rs, Next1(i, kind))
  <1> DEFINE r == Request(kind, requests[i].conv, requests[i].session)
  <1>1. /\ r = [kind |-> kind, conv |-> requests[i].conv, session |-> requests[i].session,
                fresh |-> r.fresh, ok |-> r.ok, answer |-> "none", got |-> <<>>]
        /\ Next1(i, kind) = [r EXCEPT !.fresh = requests[i].fresh]
    BY DEF Request, Next1
  <1>2. requests[i].session \in Nat
    BY DEF ViewInv, RequestTrue
  <1> HIDE DEF r
  <1>3. /\ Next1(i, kind).kind = kind /\ Next1(i, kind).session = requests[i].session
        /\ Next1(i, kind).answer = "none" /\ Next1(i, kind).got = <<>>
    BY <1>1
  <1> QED
    BY <1>2, <1>3, NothingTrue

\* What a request becomes when a part has been fetched.
LEMMA FetchedIs ==
    ASSUME NEW r, IsRequest(r), NEW part, NEW value
    PROVE  /\ Fetched(r, part, value) =
                [kind |-> r.kind, conv |-> r.conv, session |-> r.session, fresh |-> r.fresh,
                 ok |-> r.ok, answer |-> r.answer, got |-> Fetched(r, part, value).got]
           /\ DOMAIN Fetched(r, part, value).got = DOMAIN r.got \union {part}
           /\ \A p \in DOMAIN r.got \union {part} :
                Fetched(r, part, value).got[p] = IF p = part THEN value ELSE r.got[p]
  <1> DEFINE g == [p \in DOMAIN r.got \union {part} |-> IF p = part THEN value ELSE r.got[p]]
  <1>1. Fetched(r, part, value) = [r EXCEPT !.got = g]
    BY DEF Fetched
  <1>2. /\ DOMAIN g = DOMAIN r.got \union {part}
        /\ \A p \in DOMAIN r.got \union {part} : g[p] = IF p = part THEN value ELSE r.got[p]
    OBVIOUS
  <1> HIDE DEF g
  <1>3. [r EXCEPT !.got = g] =
          [kind |-> r.kind, conv |-> r.conv, session |-> r.session, fresh |-> r.fresh,
           ok |-> r.ok, answer |-> r.answer, got |-> g]
    BY DEF IsRequest
  <1> QED
    BY <1>1, <1>2, <1>3

\* An answer joins what a request has got, and so does the failure of the activities.
LEMMA FetchedTrue ==
    ASSUME NEW rs \in Seq(Run), NEW r, IsRequest(r), RequestTrue(rs, r)
    PROVE  /\ \A part \in Parts[r.kind] : RequestTrue(rs, Fetched(r, part, Answer(rs, part)))
           /\ r.kind \in Restoration => RequestTrue(rs, Fetched(r, "noActivities", {}))
  <1>1. ASSUME NEW part, NEW value,
               part \in AnswerParts => part \in Parts[r.kind],
               part = "noActivities" => r.kind \in Restoration,
               part = "messages" => value \subseteq Messages(rs),
               part = "runs" => value \in Seq(RunStatuses),
               part = "activities" => ActivitiesTrue(rs, value),
               part = "state" => value \in StateAnswer /\ EndTrue(rs, value.run, value.status)
        PROVE  RequestTrue(rs, Fetched(r, part, value))
    <2> DEFINE q == Fetched(r, part, value)
    <2>1. /\ q.kind = r.kind /\ q.session = r.session /\ q.answer = r.answer
          /\ DOMAIN q.got = DOMAIN r.got \union {part}
          /\ \A p \in DOMAIN r.got \union {part} :
               q.got[p] = IF p = part THEN value ELSE r.got[p]
      BY FetchedIs
    <2> HIDE DEF q
    <2>2. GotTrue(rs, q.got)
      <3>1. ASSUME NEW p \in DOMAIN q.got
            PROVE  (p = part /\ q.got[p] = value) \/ (p \in DOMAIN r.got /\ q.got[p] = r.got[p])
        BY <2>1
      <3>2. GotTrue(rs, r.got)
        BY DEF RequestTrue
      <3> QED
        BY <1>1, <3>1, <3>2 DEF GotTrue
    <2>3. RequestTrue(rs, q)
      BY <1>1, <2>1, <2>2 DEF RequestTrue
    <2> QED
      BY <2>3 DEF q
  <1>2. AnswerParts = {"messages", "runs", "activities", "state"}
    BY DEF AnswerParts, Rank
  <1>3. ASSUME NEW part \in Parts[r.kind]
        PROVE  RequestTrue(rs, Fetched(r, part, Answer(rs, part)))
    <2>1. part \in AnswerParts
      <3>1. r.kind \in Kinds
        BY DEF RequestTrue
      <3> QED
        BY <1>2, <3>1 DEF Parts, Kinds
    <2>2. /\ part = "messages" => Answer(rs, part) = Messages(rs)
          /\ part = "runs" => Answer(rs, part) = RunList(rs)
          /\ part = "activities" => Answer(rs, part) = ActivityList(rs)
          /\ part = "state" => Answer(rs, part) = ConversationState(rs)
      BY DEF Answer
    <2>3. part # "noActivities"
      BY <1>2, <2>1
    <2> QED
      BY <1>1, <2>2, <2>3, AnswersTrue
  <1>4. ASSUME r.kind \in Restoration
        PROVE  RequestTrue(rs, Fetched(r, "noActivities", {}))
    BY <1>1, <1>2, <1>4
  <1> QED
    BY <1>3, <1>4

AllTrue(f, s) == \A i \in DOMAIN s : RequestTrue(f[s[i].conv], s[i])

\* One request is added, ends or moves on.
LEMMA AllStayTrue ==
    ASSUME NEW f, NEW a, NEW s, AreRequests(s, a), AllTrue(f, s)
    PROVE  /\ \A q : RequestTrue(f[q.conv], q) => AllTrue(f, Append(s, q))
           /\ \A i \in DOMAIN s : AllTrue(f, RemoveAt(s, i))
           /\ \A i \in DOMAIN s : \A q :
                RequestTrue(f[q.conv], q) => AllTrue(f, [s EXCEPT ![i] = q])
  <1>1. PICK S : s \in Seq(S)
    BY DEF AreRequests
  <1>2. ASSUME NEW q, RequestTrue(f[q.conv], q)
        PROVE  AllTrue(f, Append(s, q))
    <2>1. s \in Seq(S \union {q}) /\ q \in S \union {q}
      BY <1>1
    <2>2. \A i \in DOMAIN Append(s, q) : (i \in DOMAIN s /\ Append(s, q)[i] = s[i]) \/ Append(s, q)[i] = q
      BY <2>1, AppendProperties
    <2> QED
      BY <1>2, <2>2 DEF AllTrue
  <1>3. ASSUME NEW i \in DOMAIN s
        PROVE  AllTrue(f, RemoveAt(s, i))
    <2> DEFINE t == RemoveAt(s, i)
    <2>1. \A j \in DOMAIN t : \E k \in DOMAIN s \ {i} : t[j] = s[k]
      BY <1>1, RemoveAtKeeps
    <2> HIDE DEF t
    <2>2. AllTrue(f, t)
      BY <2>1 DEF AllTrue
    <2> QED
      BY <2>2 DEF t
  <1>4. ASSUME NEW i \in DOMAIN s, NEW q, RequestTrue(f[q.conv], q)
        PROVE  AllTrue(f, [s EXCEPT ![i] = q])
    <2>1. \A j \in DOMAIN [s EXCEPT ![i] = q] :
            j \in DOMAIN s /\ [s EXCEPT ![i] = q][j] = IF j = i THEN q ELSE s[j]
      OBVIOUS
    <2> QED
      BY <1>4, <2>1 DEF AllTrue
  <1> QED
    BY <1>2, <1>3, <1>4

\* What was true of the requests is true of the runs as they are next.
LEMMA RequestsStayTrue ==
    ASSUME ServerInv, ClientInv, ViewInv, [Next]_vars
    PROVE  AllTrue(runs', requests)
  <1>1. \A d \in Conversations : RunsRipen(runs[d], runs'[d])
    BY Ripened
  <1>2. \A i \in DOMAIN requests : requests[i].conv \in Conversations
    BY SomeRequest
  <1> QED
    BY <1>1, <1>2, TruthStays DEF ViewInv, AllTrue

\* The handlers (api.py).
LEMMA HandledTrue ==
    ASSUME ServerInv, ClientInv, ViewInv, [Next]_vars,
           NEW i \in DOMAIN requests, Handled(i) \/ LoseRequest(i) \/ LoseActivities(i)
    PROVE  AllTrue(runs', requests')
  <1> DEFINE r == requests[i]
             c == r.conv
  <1>0. /\ AllTrue(runs', requests) /\ AreRequests(requests, active)
        /\ IsRequest(r) /\ c \in Conversations /\ RequestTrue(runs[c], r)
        /\ RequestTrue(runs'[c], r)
        /\ runs[c] \in Seq(Run)
    BY RequestsStayTrue, SomeRequest DEF ClientInv, ViewInv, ServerInv, RunsOK, AllTrue
  <1>1. ASSUME NEW q, requests' = [requests EXCEPT ![i] = q], q.conv = c, RequestTrue(runs'[c], q)
        PROVE  AllTrue(runs', requests')
    BY <1>0, <1>1, AllStayTrue
  <1>2. CASE \E part \in Parts[r.kind] : Serve(i, part)
    <2>1. PICK part \in Parts[r.kind] :
            /\ requests' = [requests EXCEPT ![i] = Fetched(r, part, Answer(runs[c], part))]
            /\ runs' = runs
      BY <1>2 DEF Serve, serverVars
    <2>2. /\ RequestTrue(runs[c], Fetched(r, part, Answer(runs[c], part)))
          /\ Fetched(r, part, Answer(runs[c], part)).conv = c
      BY <1>0, FetchedTrue, FetchedIs
    <2> HIDE DEF c
    <2> QED
      BY <1>1, <2>1, <2>2
  <1>3. CASE LoseActivities(i)
    <2> DEFINE q == Fetched(r, "noActivities", {})
    <2>1. requests' = [requests EXCEPT ![i] = q] /\ runs' = runs /\ r.kind \in Restoration
      BY <1>3 DEF LoseActivities, serverVars, Restoration
    <2>2. RequestTrue(runs[c], q) /\ q.conv = c
      BY <1>0, <2>1, FetchedTrue, FetchedIs
    <2> HIDE DEF c, q
    <2> QED
      BY <1>1, <2>1, <2>2
  <1>4. CASE LoseRequest(i)
    <2> DEFINE q == [r EXCEPT !.ok = FALSE]
    <2>1. requests' = [requests EXCEPT ![i] = q]
      BY <1>4 DEF LoseRequest
    <2>2. /\ q.kind = r.kind /\ q.conv = c /\ q.session = r.session /\ q.answer = r.answer
          /\ q.got = r.got
      BY <1>0 DEF IsRequest
    <2> HIDE DEF c, q
    <2> QED
      BY <1>0, <1>1, <2>1, <2>2, AlikeTrue
  <1>5. ASSUME NEW a \in Answers, Answered(i, a),
               r.kind = "post" /\ a \in {"begun", "accepted"} => r.session \in DOMAIN runs'[c]
        PROVE  AllTrue(runs', requests')
    <2> DEFINE q == [r EXCEPT !.answer = a]
    <2>1. requests' = [requests EXCEPT ![i] = q]
      BY <1>5 DEF Answered
    <2>2. /\ q.kind = r.kind /\ q.conv = c /\ q.session = r.session /\ q.answer = a
          /\ q.got = r.got
      BY <1>0 DEF IsRequest
    <2> HIDE DEF q
    <2>3. RequestTrue(runs'[c], q)
      BY <1>0, <1>5, <2>2 DEF RequestTrue
    <2> QED
      BY <1>1, <2>1, <2>2, <2>3
  <1>6. CASE PostBegins(i)
    <2>1. CASE Answered(i, "refused")
      BY <1>5, <2>1 DEF Answers
    <2>2. CASE BeginRun(c) /\ requests' = [requests EXCEPT ![i].answer = "begun",
                                                          ![i].session = Len(runs[c]) + 1]
      <3> DEFINE n == Len(runs[c]) + 1
                 u == [r EXCEPT !.answer = "begun"]
                 q == [u EXCEPT !.session = n]
      <3>1. requests' = [requests EXCEPT ![i] = q]
        BY <2>2
      <3> HIDE DEF n
      <3>2. u = [kind |-> r.kind, conv |-> r.conv, session |-> r.session, fresh |-> r.fresh,
                 ok |-> r.ok, answer |-> "begun", got |-> r.got]
        BY <1>0 DEF IsRequest
      <3> HIDE DEF u
      <3>3. /\ q.kind = r.kind /\ q.conv = c /\ q.session = n /\ q.answer = "begun"
            /\ q.got = r.got
        BY <3>2
      <3> HIDE DEF q
      <3>4. n \in Nat /\ n \in DOMAIN runs'[c]
        <4>1. runs' = [runs EXCEPT ![c] = Append(runs[c], NewRun)]
          BY <2>2 DEF BeginRun
        <4>2. runs'[c] = Append(runs[c], NewRun)
          BY <1>0, <4>1 DEF ServerInv, RunsOK
        <4>3. NewRun \in Run
          BY DEF NewRun, Run, RunStatuses, ActiveStatuses
        <4> QED
          BY <1>0, <4>2, <4>3 DEF n
      <3>5. RequestTrue(runs'[c], q)
        BY <1>0, <3>3, <3>4 DEF RequestTrue, Answers
      <3> QED
        BY <1>1, <3>1, <3>3, <3>5
    <2> QED
      BY <1>6, <2>1, <2>2 DEF PostBegins
  <1>7. CASE PostStarts(i)
    <2>1. r.kind = "post" /\ r.answer = "begun" /\ (Answered(i, "accepted") \/ Answered(i, "refused"))
      BY <1>7 DEF PostStarts
    <2>2. r.session \in DOMAIN runs'[c]
      BY <1>0, <2>1 DEF RequestTrue
    <2> QED
      BY <1>5, <2>1, <2>2 DEF Answers
  <1>8. CASE StopRead(i)
    <2>1. CASE Answered(i, "refused")
      BY <1>5, <2>1 DEF Answers
    <2>2. CASE requests' = [requests EXCEPT
                 ![i].answer = "begun",
                 ![i].got = [approval |-> ConversationState(runs[c]).pending]]
      <3> DEFINE g == [approval |-> ConversationState(runs[c]).pending]
                 q == [r EXCEPT !.answer = "begun", !.got = g]
      <3>1. requests' = [requests EXCEPT ![i] = q]
        BY <2>2
      <3>2. DOMAIN g = {"approval"}
        OBVIOUS
      <3> HIDE DEF g
      <3>3. /\ q.kind = r.kind /\ q.conv = c /\ q.session = r.session /\ q.answer = "begun"
            /\ q.got = g
        BY <1>0, AnswerSet
      <3> HIDE DEF q
      <3>4. r.kind = "stop"
        BY <1>8 DEF StopRead
      <3>5. RequestTrue(runs'[c], q)
        BY <1>0, <3>2, <3>3, <3>4 DEF RequestTrue, GotTrue, Answers, AnswerParts, Rank
      <3> QED
        BY <1>1, <3>1, <3>3, <3>5
    <2> QED
      BY <1>8, <2>1, <2>2 DEF StopRead
  <1>9. CASE StopServed(i)
    <2>1. r.kind = "stop" /\ (Answered(i, "accepted") \/ Answered(i, "refused"))
      BY <1>9 DEF StopServed
    <2> QED
      BY <1>5, <2>1 DEF Answers
  <1>10. CASE DecisionServed(i)
    BY <1>0, <1>10, AllStayTrue DEF DecisionServed, Without
  <1> QED
    BY <1>2, <1>3, <1>4, <1>6, <1>7, <1>8, <1>9, <1>10 DEF Handled

\* The epoch drops what was got (handleSelect).
LEMMA StaleTrue ==
    ASSUME NEW rs, NEW r, IsRequest(r), RequestTrue(rs, r)
    PROVE  RequestTrue(rs, Stale(r)) /\ Stale(r).conv = r.conv
  <1>1. CASE r.kind \in Unguarded
    <2>1. Stale(r) = [kind |-> r.kind, conv |-> r.conv, session |-> r.session,
                      fresh |-> FALSE, ok |-> r.ok, answer |-> r.answer, got |-> r.got]
      BY <1>1, FreshSet DEF Stale
    <2> QED
      BY <2>1, AlikeTrue
  <1>2. CASE r.kind \notin Unguarded
    <2> DEFINE q == Stale(r)
    <2>1. q = [kind |-> r.kind, conv |-> r.conv, session |-> r.session,
               fresh |-> FALSE, ok |-> r.ok, answer |-> r.answer, got |-> <<>>]
      BY <1>2, FreshGotSet DEF Stale
    <2>2. DOMAIN <<>> = {}
      OBVIOUS
    <2>3. /\ q.kind = r.kind /\ q.conv = r.conv /\ q.session = r.session /\ q.answer = r.answer
          /\ DOMAIN q.got = {}
      BY <2>1, <2>2
    <2> HIDE DEF q
    <2>4. RequestTrue(rs, q) /\ q.conv = r.conv
      BY <2>3 DEF RequestTrue, GotTrue
    <2> QED
      BY <2>4 DEF q
  <1> QED
    BY <1>1, <1>2

\* Every step.
LEMMA RequestsTrue ==
    ASSUME ServerInv, ClientInv, ViewInv, [Next]_vars
    PROVE  AllTrue(runs', requests')
  <1>0. AllTrue(runs', requests) /\ AreRequests(requests, active)
    BY RequestsStayTrue DEF ClientInv
  <1>1. {"restore", "reconnect", "activities", "state", "terminal", "post", "submitted",
         "stop", "stopped", "decide"} \subseteq Kinds
    BY DEF Kinds, Parts
  <1>2. ASSUME NEW kind \in Kinds, NEW n \in Nat, NEW c,
               requests' = Append(requests, Request(kind, c, n))
        PROVE  AllTrue(runs', requests')
    BY <1>0, <1>2, IssuedTrue, AllStayTrue
  <1>3. ASSUME NEW i \in DOMAIN requests, Continued(i)
        PROVE  AllTrue(runs', requests')
    <2> DEFINE s == RemoveAt(requests, i)
    <2>1. \/ requests' = s
          \/ \E kind \in Kinds : requests' = Append(s, Next1(i, kind))
      BY <1>1, <1>3 DEF Continued, RestoreDone, RestoreFailed, ActivitiesRefreshed, StateFetched,
             TerminalReloaded, PostAnswered, StopAnswered, ReloadedAfterPost,
             DecisionFailed, Without
    <2>2. AllTrue(runs', s)
      BY <1>0, AllStayTrue
    <2>3. AreRequests(s, active)
      BY <1>0, RemoveRequest
    <2> HIDE DEF s
    <2>4. ASSUME NEW kind \in Kinds
          PROVE  AllTrue(runs', Append(s, Next1(i, kind)))
      BY <2>2, <2>3, Next1True, AllStayTrue
    <2> QED
      BY <2>1, <2>2, <2>4
  <1>4. ASSUME NEW c \in Conversations, Deliver(c)
        PROVE  AllTrue(runs', requests')
    <2> DEFINE next == Followup(Head(stream[c].queue).type)
               new == [k \in DOMAIN next |-> Request(next[k], c, 0)]
    <2>1. requests' = requests \o new
      BY <1>4 DEF Deliver
    <2>2. next = <<>> \/ next = <<"state">> \/ next = <<"terminal">>
      BY DEF Followup
    <2> HIDE DEF next
    <2>3. PICK S : requests \in Seq(S)
      BY <1>0 DEF AreRequests
    <2>4. CASE next = <<>>
      <3>1. new = <<>>
        BY <2>4
      <3> QED
        BY <1>0, <2>1, <2>3, <3>1, ConcatEmptySeq
    <2>5. ASSUME NEW kind \in {"state", "terminal"}, next = <<kind>>
          PROVE  AllTrue(runs', requests')
      <3> DEFINE q == Request(kind, c, 0)
      <3>1. new = <<q>>
        BY <2>5
      <3> HIDE DEF q
      <3>2. requests \in Seq(S \union {q}) /\ q \in S \union {q}
        BY <2>3
      <3>3. Append(requests, q) = requests \o <<q>>
        BY <3>2, AppendIsConcat
      <3>4. requests' = Append(requests, q)
        BY <2>1, <3>1, <3>3
      <3> QED
        BY <1>1, <1>2, <3>4 DEF q
    <2> QED
      BY <2>2, <2>4, <2>5
  <1>5. ASSUME NEW c \in Conversations, Subscribe(c) \/ StreamError(c)
        PROVE  AllTrue(runs', requests')
    <2>1. requests' = requests \/ requests' = Append(requests, Request("reconnect", c, 0))
      BY <1>5 DEF Subscribe, StreamError
    <2> QED
      BY <1>0, <1>1, <1>2, <2>1
  <1>6. ASSUME NEW c \in Conversations, Select(c)
        PROVE  AllTrue(runs', requests')
    <2> DEFINE s == [i \in DOMAIN requests |-> Stale(requests[i])]
    <2>1. requests' = Append(s, Request("restore", c, 0))
      BY <1>6 DEF Select
    <2>2. ASSUME NEW i \in DOMAIN requests
          PROVE  RequestTrue(runs'[s[i].conv], s[i])
      <3>1. IsRequest(requests[i]) /\ RequestTrue(runs'[requests[i].conv], requests[i])
        BY <1>0, SomeRequest DEF AllTrue
      <3>2. s[i] = Stale(requests[i])
        OBVIOUS
      <3> HIDE DEF s
      <3> QED
        BY <3>1, <3>2, StaleTrue
    <2>3. AllTrue(runs', s)
      BY <2>2 DEF AllTrue
    <2>4. \E S : s \in Seq(S)
      <3>1. PICK S : requests \in Seq(S)
        BY <1>0 DEF AreRequests
      <3>2. s \in Seq({Stale(requests[i]) : i \in DOMAIN requests})
        BY <3>1
      <3> QED
        BY <3>2
    <2> HIDE DEF s
    <2>5. PICK S : s \in Seq(S)
      BY <2>4
    <2> DEFINE q == Request("restore", c, 0)
    <2>6. RequestTrue(runs'[q.conv], q)
      BY <1>1, IssuedTrue
    <2> HIDE DEF q
    <2>7. s \in Seq(S \union {q}) /\ q \in S \union {q}
      BY <2>5
    <2>8. \A i \in DOMAIN Append(s, q) : (i \in DOMAIN s /\ Append(s, q)[i] = s[i]) \/ Append(s, q)[i] = q
      BY <2>7, AppendProperties
    <2> QED
      BY <2>1, <2>3, <2>6, <2>8 DEF AllTrue, q
  <1>7. CASE Submit \/ Stop \/ Decide \/ ToggleGroup \/ RetryActivities
    <2>1. view[active].active \in Nat /\ view[active].approval \in Nat
      BY ViewIs DEF ViewInv, ClientInv
    <2>2. \/ requests' = requests
          \/ \E kind \in {"post", "stop", "decide", "activities"}, n \in Nat :
               requests' = Append(requests, Request(kind, active, n))
      BY <1>7, <2>1 DEF Submit, Stop, Decide, ToggleGroup, RetryActivities, Issue
    <2> QED
      BY <1>0, <1>1, <1>2, <2>2
  <1>8. CASE ServerCrash
    <2>1. /\ DOMAIN requests' = DOMAIN requests
          /\ \A i \in DOMAIN requests :
               requests'[i] = [requests[i] EXCEPT !.ok = IsAnswered(requests[i])]
      BY <1>8 DEF ServerCrash
    <2>2. ASSUME NEW i \in DOMAIN requests
          PROVE  RequestTrue(runs'[requests'[i].conv], requests'[i])
      <3> DEFINE r == requests[i]
                 o == IsAnswered(requests[i])
      <3>1. IsRequest(r) /\ RequestTrue(runs'[r.conv], r)
        BY <1>0, SomeRequest DEF AllTrue
      <3>2. requests'[i] = [r EXCEPT !.ok = o]
        BY <2>1
      <3> HIDE DEF o
      <3>3. requests'[i] = [kind |-> r.kind, conv |-> r.conv, session |-> r.session,
                            fresh |-> r.fresh, ok |-> o, answer |-> r.answer, got |-> r.got]
        BY <3>1, <3>2, OkSet
      <3> QED
        BY <3>1, <3>3, AlikeTrue
    <2> QED
      BY <2>1, <2>2 DEF AllTrue
  <1>9. ASSUME \/ \E c : RunTask(c) \/ LateWrite(c) \/ LoseConnection(c)
               \/ ServerRestart \/ UNCHANGED vars
        PROVE  AllTrue(runs', requests')
    <2>1. requests' = requests
      BY <1>9, LateLeaves DEF RunTask, LoseConnection, ServerRestart, vars
    <2> QED
      BY <1>0, <2>1
  <1>10. Selectable \subseteq Conversations
    BY ClientAssumption
  <1> QED
    BY <1>3, <1>4, <1>5, <1>6, <1>7, <1>8, <1>9, <1>10, HandledTrue
    DEF Next, Streaming, User, Fault

-----------------------------------------------------------------------------
(* What is shown is true. *)

\* The flags, the lock of the card and the counters.
LEMMA FlagsStay ==
    ASSUME ClientInv, ViewInv, [Next]_vars
    PROVE  /\ {locked', missed', excused', orphaned'} \subseteq BOOLEAN
           /\ {faults', told'} \subseteq Nat
  <1>0. /\ locked \in BOOLEAN /\ missed \in BOOLEAN /\ excused \in BOOLEAN /\ orphaned \in BOOLEAN
        /\ faults \in Nat /\ told \in Nat
    BY DEF ViewInv
  <1>1. ASSUME NEW i \in DOMAIN requests, Continued(i)
        PROVE  /\ UNCHANGED <<missed, orphaned, faults, told>>
               /\ locked' \in BOOLEAN /\ excused' \in BOOLEAN
    <2>1. UNCHANGED <<missed, orphaned, faults, told>>
      BY <1>1 DEF Continued, RestoreDone, RestoreFailed, ActivitiesRefreshed, StateFetched,
                  TerminalReloaded, PostAnswered, StopAnswered, ReloadedAfterPost,
                  DecisionFailed, Ignore
    <2>2. /\ Apply(i) => locked' \in BOOLEAN /\ excused' \in BOOLEAN
          /\ Ignore => locked' \in BOOLEAN /\ excused' \in BOOLEAN
          /\ \A c, v : Dispatch(c, v) => locked' \in BOOLEAN
      BY <1>0 DEF Apply, Dispatch, Ignore
    <2>3. CASE PostAnswered(i)
      BY <1>0, <2>2, <2>3 DEF PostAnswered
    <2>4. CASE ~PostAnswered(i)
      BY <1>0, <1>1, <2>2, <2>4
      DEF Continued, RestoreDone, RestoreFailed, ActivitiesRefreshed, StateFetched,
          TerminalReloaded, StopAnswered, ReloadedAfterPost, DecisionFailed
    <2> QED
      BY <2>1, <2>3, <2>4
  <1>2. ASSUME NEW i \in DOMAIN requests, Handled(i)
        PROVE  /\ UNCHANGED <<locked, faults, told>>
               /\ missed' \in BOOLEAN /\ excused' \in BOOLEAN /\ orphaned' \in BOOLEAN
    <2>1. UNCHANGED <<locked, faults, told>>
      BY <1>2 DEF Handled, Serve, PostBegins, PostStarts, StopRead, StopServed, DecisionServed
    <2>2. CASE StopServed(i)
      BY <1>0, <2>1, <2>2 DEF StopServed
    <2>3. CASE PostStarts(i)
      BY <1>0, <2>1, <2>3 DEF PostStarts
    <2>4. CASE ~StopServed(i) /\ ~PostStarts(i)
      BY <1>0, <1>2, <2>1, <2>4 DEF Handled, Serve, PostBegins, StopRead, DecisionServed
    <2> QED
      BY <2>2, <2>3, <2>4
  <1>3. ASSUME NEW c \in Conversations, Streaming(c)
        PROVE  /\ UNCHANGED <<orphaned, faults>>
               /\ locked' \in BOOLEAN /\ missed' \in BOOLEAN /\ excused' \in BOOLEAN /\ told' \in Nat
    <2>1. CASE Subscribe(c)
      BY <1>0, <2>1 DEF Subscribe
    <2>2. CASE Deliver(c)
      <3>1. EventTrue(runs[c], Head(stream[c].queue))
        BY <2>2, QueueParts DEF Deliver, ViewInv, ConnectionTrue
      <3>2. Head(stream[c].queue).run \in Nat
        BY <3>1 DEF EventTrue, Event, Session
      <3> QED
        BY <1>0, <2>2, <3>2 DEF Deliver, Dispatch
    <2>3. CASE StreamError(c)
      BY <1>0, <2>3 DEF StreamError, Dispatch
    <2> QED
      BY <1>3, <2>1, <2>2, <2>3 DEF Streaming
  <1>4. ASSUME NEW c, RunTask(c)
        PROVE  UNCHANGED <<locked, excused, orphaned, faults, told>> /\ missed' \in BOOLEAN
    BY <1>0, <1>4 DEF RunTask
  <1>5. ASSUME NEW c, Select(c)
        PROVE  /\ UNCHANGED <<orphaned, faults>> /\ told' = 0
               /\ locked' \in BOOLEAN /\ missed' \in BOOLEAN /\ excused' \in BOOLEAN
    BY <1>0, <1>5 DEF Select
  <1>6. ASSUME Submit \/ Stop \/ Decide \/ ToggleGroup \/ RetryActivities
        PROVE  UNCHANGED <<missed, excused, orphaned, faults, told>> /\ locked' \in BOOLEAN
    BY <1>0, <1>6 DEF Submit, Stop, Decide, ToggleGroup, RetryActivities, Issue
  <1>7. ASSUME Fault
        PROVE  /\ UNCHANGED <<locked, orphaned, told>> /\ faults' \in Nat
               /\ missed' \in BOOLEAN /\ excused' \in BOOLEAN
    <2>1. ASSUME NEW i, LoseRequest(i) \/ LoseActivities(i)
          PROVE  /\ UNCHANGED <<locked, orphaned, told, missed>> /\ faults' = faults + 1
                 /\ excused' \in BOOLEAN
      BY <1>0, <2>1 DEF LoseRequest, LoseActivities
    <2>2. ASSUME NEW c, LoseConnection(c)
          PROVE  UNCHANGED <<locked, orphaned, told, missed, excused>> /\ faults' = faults + 1
      BY <2>2 DEF LoseConnection
    <2>3. CASE ServerCrash
      BY <1>0, <2>3 DEF ServerCrash
    <2> QED
      BY <1>0, <1>7, <2>1, <2>2, <2>3 DEF Fault
  <1>8. ServerRestart \/ UNCHANGED vars =>
          UNCHANGED <<locked, missed, excused, orphaned, faults, told>>
    BY DEF ServerRestart, vars
  <1>9. ASSUME NEW c, LateWrite(c)
        PROVE  UNCHANGED <<locked, missed, orphaned, faults, told>> /\ excused' \in BOOLEAN
    BY <1>0, <1>9 DEF LateWrite
  <1> QED
    BY <1>0, <1>1, <1>2, <1>3, <1>4, <1>5, <1>6, <1>7, <1>8, <1>9 DEF Next, User

\* The initial states.
LEMMA ViewStart == Init => ViewInv
  <1> SUFFICES ASSUME Init
               PROVE  ViewInv
    OBVIOUS
  <1> DEFINE r == Request("restore", active, 0)
  <1>1. /\ active \in Conversations /\ requests = <<r>>
        /\ view = [c \in Conversations |-> EmptyView]
        /\ runs = [c \in Conversations |-> <<>>]
        /\ task = [c \in Conversations |-> NoTask]
        /\ stream = [c \in Conversations |-> Closed]
        /\ locked = FALSE /\ faults = 0 /\ missed = FALSE /\ excused = FALSE
        /\ orphaned = FALSE /\ told = 0
    BY DEF Init, ServerInit, ClientInit
  <1>2. ViewTrue(<<>>, EmptyView)
    <2> DEFINE v == EmptyView
    <2>1. /\ IsShown(v)
          /\ v.messages = {} /\ v.runs = <<>> /\ v.activities = <<>> /\ v.status = "none"
          /\ v.active = 0 /\ v.latest = 0 /\ v.approval = 0
          /\ v.error \in BOOLEAN /\ v.activitiesError \in BOOLEAN
      BY DEF EmptyView, IsShown
    <2> HIDE DEF v
    <2>2. ActivitiesTrue(<<>>, v.activities)
      BY <2>1 DEF ActivitiesTrue, IsActivities
    <2>3. EndTrue(<<>>, v.latest, v.status)
      BY <2>1 DEF EndTrue, TerminalStatuses
    <2>4. /\ v.messages \subseteq Message /\ v.messages \subseteq Messages(<<>>)
          /\ v.runs \in Seq(RunStatuses) /\ v.status \in RunStatuses \union {"none"}
          /\ v.active \in Nat /\ v.latest \in Nat /\ v.approval \in Nat
      BY <2>1
    <2>5. \A rs : rs = <<>> => ViewTrue(rs, v)
      BY <2>1, <2>2, <2>3, <2>4, IsViewTrue
    <2> QED
      BY <2>5 DEF v
  <1>3. TaskTrue(<<>>, NoTask) /\ ConnectionTrue(<<>>, Closed)
    BY DEF TaskTrue, ConnectionTrue, EventsTrue, NoTask, Closed
  <1>4. \A i \in DOMAIN requests : RequestTrue(runs[requests[i].conv], requests[i])
    <2>1. \A rs : RequestTrue(rs, r)
      BY IssuedTrue DEF Kinds, Parts
    <2> HIDE DEF r
    <2> QED
      BY <1>1, <2>1
  <1>5. /\ {locked, missed, excused, orphaned} \subseteq BOOLEAN
        /\ {faults, told} \subseteq Nat
    <2>1. /\ locked \in BOOLEAN /\ missed \in BOOLEAN /\ excused \in BOOLEAN
          /\ orphaned \in BOOLEAN
      BY Zenon DEF Init, ClientInit
    <2> QED
      BY <1>1, <2>1
  <1>6. \A c \in Conversations :
          /\ ViewTrue(runs[c], view[c])
          /\ TaskTrue(runs[c], task[c])
          /\ ConnectionTrue(runs[c], stream[c])
          /\ \A n \in DOMAIN runs[c] : LateTrue(runs[c][n])
    BY <1>1, <1>2, <1>3
  <1>7. /\ DOMAIN view = Conversations
        /\ task = [c \in Conversations |-> task[c]]
        /\ stream = [c \in Conversations |-> stream[c]]
    BY <1>1
  <1> QED
    BY <1>4, <1>5, <1>6, <1>7 DEF ViewInv

\* The tasks and the connections are functions of the conversation.
LEMMA FunctionsStay ==
    ASSUME ViewInv, [Next]_vars
    PROVE  /\ task' = [c \in Conversations |-> task'[c]]
           /\ stream' = [c \in Conversations |-> stream'[c]]
  <1> DEFINE TaskIs == \/ task' = task
                       \/ \E c, t : task' = [task EXCEPT ![c] = t]
                       \/ task' = [c \in Conversations |-> NoTask]
             StreamIs == \/ stream' = stream
                         \/ \E c, s : stream' = [stream EXCEPT ![c] = s]
                         \/ stream' = [d \in Conversations |-> stream'[d]]
  <1>1. \A c, events : \/ Published(c, events) = stream
                      \/ \E s : Published(c, events) = [stream EXCEPT ![c] = s]
    BY DEF Published
  <1>p. \A c, events : stream' = Published(c, events) => StreamIs
    BY <1>1
  <1>2. ASSUME NEW c, TaskStep(c)
        PROVE  TaskIs /\ StreamIs
    <2>1. /\ task' = task \/ \E t : task' = [task EXCEPT ![c] = t]
          /\ stream' = stream \/ \E events : stream' = Published(c, events)
      BY <1>2 DEF TaskStep, StartTurn, RequestTool, FinishTool, AwaitApproval, CreateApproval,
           FinishDecision, CompleteRun, FailRun, Publish, EndTask, Write
    <2> QED
      BY <1>p, <2>1
  <1>3. ASSUME NEW i \in DOMAIN requests, Handled(i)
        PROVE  TaskIs /\ StreamIs
    <2>1. CASE StopServed(i)
      <3>1. CancelTask(requests[i].conv)
        BY <2>1 DEF StopServed, InterruptRun, InterruptOther, InterruptFails
      <3>2. /\ task' = [task EXCEPT ![requests[i].conv] = NoTask]
            /\ stream' = stream \/ \E events : stream' = Published(requests[i].conv, events)
        BY <3>1 DEF CancelTask
      <3> QED
        BY <1>p, <3>2
    <2>2. CASE ~StopServed(i)
      BY <1>3, <2>2 DEF Handled, Serve, PostBegins, PostStarts, StopRead, DecisionServed,
             BeginRun, BeginRefused, StartTask, StartRefused, InterruptAccepted, InterruptRefused,
             DecideApproval, DecideRefused, serverVars
    <2> QED
      BY <2>1, <2>2
  <1>4. ASSUME NEW i \in DOMAIN requests, Continued(i)
        PROVE  TaskIs /\ StreamIs
    BY <1>4 DEF Continued, RestoreDone, RestoreFailed, ActivitiesRefreshed, StateFetched,
           TerminalReloaded, PostAnswered, StopAnswered, ReloadedAfterPost, DecisionFailed,
           Connect, serverVars
  <1>5. ASSUME NEW c, Streaming(c)
        PROVE  TaskIs /\ StreamIs
    BY <1>5 DEF Streaming, Subscribe, Deliver, StreamError, CloseStream
  <1>6. User => TaskIs /\ StreamIs
    BY DEF User, Select, CloseStream, Submit, Stop, Decide, ToggleGroup, RetryActivities, Issue,
           serverVars
  <1>7. Fault => TaskIs /\ StreamIs
    BY DEF Fault, LoseRequest, LoseActivities, LoseConnection, ServerCrash, Crash, serverVars
  <1>8. ServerRestart \/ UNCHANGED vars => TaskIs /\ StreamIs
    BY DEF ServerRestart, Restart, vars
  <1>9. ASSUME NEW c, LateWrite(c)
        PROVE  TaskIs /\ StreamIs
    BY <1>9, LateLeaves
  <1>10. TaskIs /\ StreamIs
    <2> HIDE DEF TaskIs, StreamIs
    <2> QED
      BY <1>2, <1>3, <1>4, <1>5, <1>6, <1>7, <1>8, <1>9 DEF Next, RunTask
  <1> QED
    BY <1>10 DEF ViewInv

\* The parts of the invariant, step by step.
LEMMA ViewInvStep == ServerInv /\ ClientInv /\ ViewInv /\ [Next]_vars => ViewInv'
  <1> SUFFICES ASSUME ServerInv, ClientInv, ViewInv, [Next]_vars
               PROVE  ViewInv'
    OBVIOUS
  <1>1. /\ DOMAIN view' = Conversations
        /\ \A d \in Conversations : ViewTrue(runs'[d], view'[d])
    BY ViewsTrue, Ripened, TruthStays
  <1>2. \A d \in Conversations : TaskTrue(runs'[d], task'[d])
    BY TasksTrue
  <1>3. \A d \in Conversations : ConnectionTrue(runs'[d], stream'[d])
    BY ConnectionsTrue
  <1>4. \A i \in DOMAIN requests' : RequestTrue(runs'[requests'[i].conv], requests'[i])
    BY RequestsTrue DEF AllTrue
  <1>5. /\ {locked', missed', excused', orphaned'} \subseteq BOOLEAN
        /\ {faults', told'} \subseteq Nat
    BY FlagsStay
  <1>6. /\ task' = [c \in Conversations |-> task'[c]]
        /\ stream' = [c \in Conversations |-> stream'[c]]
    BY FunctionsStay
  <1>7. LatesTrue'
    BY LatesStay DEF ViewInv, LatesTrue
  <1> QED
    BY <1>1, <1>2, <1>3, <1>4, <1>5, <1>6, <1>7 DEF ViewInv, LatesTrue

\* What the page shows and what is on its way to it has been true.
LEMMA ViewInvHolds == Spec => [](ServerInv /\ ClientInv /\ ViewInv)
  <1>1. ServerInv /\ ClientInv /\ ViewInv /\ [Next]_vars => ViewInv'
    BY ViewInvStep
  <1> QED
    BY ViewStart, <1>1, ChatInvHolds, PTL DEF Spec

\* Nothing is shown that the database does not hold, however events and answers
\* are reordered, lost or repeated (reducer.ts, runner.py).
THEOREM ViewIsBehindServer == Spec => []ViewBehindServer
  <1>1. ViewInv => ViewBehindServer
    <2> SUFFICES ASSUME ViewInv, NEW c \in Conversations
                 PROVE  /\ view[c].messages \subseteq Messages(runs[c])
                        /\ DOMAIN view[c].activities \subseteq DOMAIN ActivityList(runs[c])
                        /\ \A n \in DOMAIN view[c].activities :
                             view[c].activities[n] \in TerminalActivityStatuses =>
                               runs[c][n].activity = view[c].activities[n]
                        /\ view[c].status \in TerminalStatuses =>
                             runs[c][view[c].latest].status = view[c].status
      BY DEF ViewBehindServer
    <2> QED
      BY DEF ViewInv, ViewTrue, ActivitiesTrue, ActivityTrue, EndTrue, ActivityList
  <1> QED
    BY <1>1, ViewInvHolds, PTL

\* The variables keep their shapes (web/chat/state/types.ts, chat/models.py).
THEOREM ChatTypes == Spec => []ChatTypeOK
  <1>1. ServerInv /\ ClientInv /\ ViewInv => ChatTypeOK
    <2> SUFFICES ASSUME ServerInv, ClientInv, ViewInv
                 PROVE  ChatTypeOK
      OBVIOUS
    <2>1. runs \in [Conversations -> Seq(Run)] /\ up \in BOOLEAN /\ active \in Conversations
      BY DEF ServerInv, RunsOK, ClientInv
    <2>2. task \in [Conversations -> [run : Nat, out : Seq(Event)]]
      <3>1. ASSUME NEW c \in Conversations
            PROVE  task[c] \in [run : Nat, out : Seq(Event)]
        <4>1. task[c] = [run |-> task[c].run, out |-> task[c].out]
          BY DEF ServerInv, TasksOK
        <4>2. task[c].run \in Nat
          BY <2>1 DEF ViewInv, TaskTrue
        <4>3. task[c].out \in Seq(Event)
          BY DEF ViewInv, TaskTrue, EventsTrue
        <4> QED
          BY <4>1, <4>2, <4>3
      <3>2. task = [c \in Conversations |-> task[c]]
        BY DEF ViewInv
      <3> QED
        BY <3>1, <3>2
    <2>3. stream \in [Conversations ->
                        [phase : {"closed", "connecting", "open", "broken"}, queue : Seq(Event)]]
      <3>1. ASSUME NEW c \in Conversations
            PROVE  stream[c] \in [phase : {"closed", "connecting", "open", "broken"},
                                  queue : Seq(Event)]
        <4>1. stream[c] = [phase |-> stream[c].phase, queue |-> stream[c].queue]
          BY DEF ClientInv, IsConnection
        <4>2. /\ stream[c].phase \in {"closed", "connecting", "open", "broken"}
              /\ stream[c].queue \in Seq(Event)
          BY DEF ViewInv, ConnectionTrue, EventsTrue
        <4> QED
          BY <4>1, <4>2
      <3>2. stream = [c \in Conversations |-> stream[c]]
        BY DEF ViewInv
      <3> QED
        BY <3>1, <3>2
    <2>4. \A i \in DOMAIN requests :
            /\ requests[i].kind \in Kinds
            /\ requests[i].conv \in Conversations
            /\ requests[i].session \in Nat
            /\ requests[i].fresh \in BOOLEAN
            /\ requests[i].ok \in BOOLEAN
            /\ requests[i].answer \in Answers
      BY SomeRequest DEF ViewInv, RequestTrue, IsRequest
    <2>5. DOMAIN view = Conversations /\ \A c \in Conversations : IsView(view[c])
      BY DEF ViewInv, ViewTrue
    <2> QED
      BY <2>1, <2>2, <2>3, <2>4, <2>5 DEF ChatTypeOK, ServerTypeOK, ViewInv
  <1> QED
    BY <1>1, ViewInvHolds, PTL
=============================================================================
