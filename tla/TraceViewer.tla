---------------------------- MODULE TraceViewer ----------------------------
(***************************************************************************)
(* The page of the run viewer, viewer/static/app.ts and state.ts, with the *)
(* server behind it (viewer/app.py, viewer/navigation.py, viewer/stream.py) *)
(* and the agents whose events it shows (runtime/sinks.py).                *)
(*                                                                         *)
(* An agent appends an event to the trace file of its session and posts it *)
(* to the viewer afterwards.  It waits 2 s for a post and then goes on: a  *)
(* post that fails is lost or is taken later, after those that follow it.  *)
(* The k-th event of a session is [session |-> s, step |-> k], and         *)
(* trace[s] is how many there are, with no file before the first.  The     *)
(* page asks for the navigation once, loads a trace whenever one is        *)
(* selected, and shows what the event stream brings when none is.          *)
(***************************************************************************)
EXTENDS Naturals, Sequences, SequencesExt

CONSTANTS
  Sessions,
  ConversationOf,   \* the conversation of a session, or None: a standalone run
  MaxEvents,        \* bound: MaxEvents[s], the events of a session
  MaxLoads          \* bound: trace loads in flight at once

None == "none"

ASSUME ViewerAssumption ==
  /\ None \notin Sessions
  /\ DOMAIN ConversationOf = Sessions
  /\ MaxEvents \in [Sessions -> Nat]
  /\ MaxLoads \in Nat

VARIABLES
  trace,        \* trace[s]: how many events the file of a session holds
  posting,      \* posting[s]: the agent is posting the last of them
  overdue,      \* overdue[s]: those whose post has failed and may still be taken
  late,         \* history: late[s]: those that were taken after their post had failed
  connection,   \* the event stream: "up" or "down"
  queue,        \* what the broker holds for the page
  query,        \* the session and conversation in the page's address
  navigation,   \* the index of the runs; every one "absent" until it is loaded
  asked,        \* the request for the navigation: "sent", "answered", "done"
  index,        \* its answer
  page,         \* events, selected, loadedSessionId, activeConversationId, the error
  loads,        \* the trace loads in flight, in the order of issue
  crossed       \* history: the header was changed while the trace of another
                \* run was coming in, and nothing has put that right since

agentVars == <<trace, posting, overdue, late>>
streamVars == <<connection, queue>>
indexVars == <<navigation, asked, index>>
vars == <<trace, posting, overdue, late, connection, queue, query, navigation, asked, index,
          page, loads, crossed>>

Listing == {"available", "unavailable", "absent"}
Conversations == {ConversationOf[s] : s \in Sessions} \union {None}
Event == [session : Sessions, step : Nat]
NoEvent == [session |-> None, step |-> 0]

TraceOf(s, k) == [i \in 1..k |-> [session |-> s, step |-> i]]

Init ==
  /\ trace \in [Sessions -> UNION {0..MaxEvents[s] : s \in Sessions}]
  /\ \A s \in Sessions : trace[s] <= MaxEvents[s]
  /\ posting = [s \in Sessions |-> FALSE]
  /\ overdue = [s \in Sessions |-> {}]
  /\ late = overdue
  /\ connection = "down"
  /\ queue = <<>>
  /\ query \in [session : Sessions \union {None}, conversation : Conversations]
  /\ query.session = None => query.conversation = None
  /\ navigation = [s \in Sessions |-> "absent"]
  /\ asked = "sent"
  /\ index = navigation
  /\ page = [events |-> <<>>, selected |-> NoEvent, loaded |-> None,
             conversation |-> None, error |-> FALSE]
  /\ loads = <<>>
  /\ crossed = FALSE

-----------------------------------------------------------------------------
(* The agents and the stream. *)

Emit(s) ==
  /\ trace[s] < MaxEvents[s]
  /\ ~posting[s]
  /\ trace' = [trace EXCEPT ![s] = @ + 1]
  /\ posting' = [posting EXCEPT ![s] = TRUE]
  /\ UNCHANGED <<overdue, late, streamVars, query, indexVars, page, loads, crossed>>

Post(s) ==
  /\ posting[s]
  /\ posting' = [posting EXCEPT ![s] = FALSE]
  /\ queue' = IF connection = "up"
              THEN Append(queue, [session |-> s, step |-> trace[s]])
              ELSE queue
  /\ UNCHANGED <<trace, overdue, late, connection, query, indexVars, page, loads, crossed>>

(* The agent has had no answer: the post was never made, or it is with the *)
(* server, which is busy or whose queue for the page is full.              *)
PostFails(s) ==
  /\ posting[s]
  /\ posting' = [posting EXCEPT ![s] = FALSE]
  /\ overdue' = [overdue EXCEPT ![s] = @ \union {trace[s]}]
  /\ UNCHANGED <<trace, late, streamVars, query, indexVars, page, loads, crossed>>

(* With no page connected it is as if it were never taken.                 *)
PostTakenLate(s) ==
  /\ connection = "up"
  /\ \E k \in overdue[s] :
    /\ overdue' = [overdue EXCEPT ![s] = @ \ {k}]
    /\ late' = [late EXCEPT ![s] = @ \union {k}]
    /\ queue' = Append(queue, [session |-> s, step |-> k])
    /\ UNCHANGED <<trace, posting, connection, query, indexVars, page, loads, crossed>>

(* The browser connects again by itself; what was queued is gone. *)
Connect ==
  /\ connection = "down"
  /\ connection' = "up"
  /\ UNCHANGED <<agentVars, queue, query, indexVars, page, loads, crossed>>

Disconnect ==
  /\ connection = "up"
  /\ connection' = "down"
  /\ queue' = <<>>
  /\ UNCHANGED <<agentVars, query, indexVars, page, loads, crossed>>

-----------------------------------------------------------------------------
(* What the page shows. *)

SetEvents(p, events) ==
  [p EXCEPT !.events = events,
            !.selected = IF events = <<>> THEN NoEvent ELSE Last(events),
            !.error = FALSE]

NextLiveMixed(current, incoming, historical) ==
  IF historical # None THEN current ELSE Append(current, incoming)

NextLiveOverHistory(current, incoming, historical) ==
  IF current # <<>> /\ Head(current).session # incoming.session
  THEN <<incoming>> ELSE Append(current, incoming)

NextLiveEvents(current, incoming, historical) ==
  IF historical # None THEN current
  ELSE IF current # <<>> /\ Head(current).session # incoming.session
       THEN <<incoming>>
       ELSE Append(current, incoming)

AppendLiveEvent(p, e) ==
  LET next == NextLiveEvents(p.events, e, p.loaded) IN
  IF next = p.events THEN p
  ELSE [p EXCEPT !.events = next, !.selected = e, !.error = FALSE]

LiveEvent ==
  /\ queue # <<>>
  /\ queue' = Tail(queue)
  /\ page' = AppendLiveEvent(page, Head(queue))
  /\ UNCHANGED <<agentVars, connection, query, indexVars, loads, crossed>>

(* A click in the timeline. *)
SelectEvent(i) ==
  /\ page' = [page EXCEPT !.selected = page.events[i]]
  /\ UNCHANGED <<agentVars, streamVars, query, indexVars, loads, crossed>>

-----------------------------------------------------------------------------
(* The navigation and the address. *)

(* What a run may be listed as.  Chat runs are listed from the database:   *)
(* one without a trace has begun, or not yet.  Standalone runs are listed  *)
(* from the trace files; one that cannot be read is unavailable.           *)
ListedAs(s) ==
  IF ConversationOf[s] # None
  THEN IF trace[s] > 0 THEN {"available"} ELSE {"unavailable", "absent"}
  ELSE IF trace[s] > 0 THEN {"available", "unavailable"} ELSE {"absent"}

NavigationServed ==
  /\ asked = "sent"
  /\ index' \in [Sessions -> Listing]
  /\ \A s \in Sessions : index'[s] \in ListedAs(s)
  /\ asked' = "answered"
  /\ UNCHANGED <<agentVars, streamVars, query, navigation, page, loads, crossed>>

(* A run begun while the index was being built fails the request. *)
NavigationFails ==
  /\ asked = "sent"
  /\ asked' = "done"
  /\ page' = [page EXCEPT !.error = TRUE]
  /\ UNCHANGED <<agentVars, streamVars, query, navigation, index, loads, crossed>>

(* resolveTraceQuerySelection: the session is listed, in the conversation  *)
(* the address names if it names one.                                      *)
IsFound ==
  /\ index[query.session] # "absent"
  /\ query.conversation \in {None, ConversationOf[query.session]}

Loading(s) == Append(loads, [session |-> s, answer |-> <<>>, served |-> FALSE,
                             ok |-> TRUE, opened |-> FALSE])

(* The trace of another run than the header names is coming in.            *)
IsCrossed ==
  \E i \in DOMAIN loads : loads[i].opened /\ loads[i].session # page.loaded

Crosses == crossed' = (crossed \/ IsCrossed')

ApplyTraceQuery ==
  /\ asked = "answered"
  /\ asked' = "done"
  /\ navigation' = index
  /\ \/ /\ query.session = None
        /\ UNCHANGED <<page, loads>>
     \/ /\ query.session # None /\ ~IsFound
        /\ page' = [page EXCEPT !.error = TRUE]
        /\ UNCHANGED loads
     \/ /\ query.session # None /\ IsFound
        /\ LET s == query.session
               p == [page EXCEPT !.loaded = s, !.conversation = ConversationOf[s]]
           IN IF index[s] = "available"
              THEN page' = p /\ loads' = Loading(s)
              ELSE page' = [p EXCEPT !.error = TRUE] /\ UNCHANGED loads
  /\ UNCHANGED <<agentVars, streamVars, query, index>>
  /\ Crosses

-----------------------------------------------------------------------------
(* Selecting a trace, or the live events. *)

SelectTrace(s) ==
  /\ navigation[s] = "available"
  /\ Len(loads) < MaxLoads
  /\ page' = [page EXCEPT !.loaded = s, !.conversation = ConversationOf[s]]
  /\ query' = [session |-> s, conversation |-> ConversationOf[s]]
  /\ loads' = Loading(s)
  /\ UNCHANGED <<agentVars, streamVars, indexVars>>
  /\ Crosses

SelectLiveEvents ==
  /\ page' = [SetEvents(page, <<>>) EXCEPT !.loaded = None, !.conversation = None]
  /\ query' = [session |-> None, conversation |-> None]
  /\ UNCHANGED <<agentVars, streamVars, indexVars, loads>>
  /\ crossed' = IsCrossed'

(* loadSelectedSession: the file as it is when it is read; no file, a torn *)
(* line or a lost answer fails the load.                                   *)
LoadServed(i) ==
  /\ ~loads[i].served
  /\ \/ loads' = [loads EXCEPT ![i] = [@ EXCEPT !.served = TRUE,
                                          !.answer = TraceOf(loads[i].session, trace[loads[i].session])]]
     \/ loads' = [loads EXCEPT ![i] = [@ EXCEPT !.served = TRUE, !.ok = FALSE]]
  /\ UNCHANGED <<agentVars, streamVars, query, indexVars, page, crossed>>

(* The head of the answer names the run shown, and the body is awaited.    *)
LoadOpened(i) ==
  /\ loads[i].served /\ loads[i].ok /\ ~loads[i].opened
  /\ page' = [page EXCEPT !.loaded = loads[i].session]
  /\ loads' = [loads EXCEPT ![i].opened = TRUE]
  /\ Crosses
  /\ UNCHANGED <<agentVars, streamVars, query, indexVars>>

(* It is shown, whatever has been selected meanwhile.                      *)
SessionLoaded(i) ==
  /\ loads[i].opened
  /\ page' = SetEvents(page, loads[i].answer)
  /\ loads' = RemoveAt(loads, i)
  /\ crossed' = IF loads[i].session = page.loaded THEN IsCrossed' ELSE crossed
  /\ UNCHANGED <<agentVars, streamVars, query, indexVars>>

SessionLoadFailed(i) ==
  /\ loads[i].served
  /\ loads[i].ok => loads[i].opened
  /\ page' = [page EXCEPT !.error = TRUE]
  /\ loads' = RemoveAt(loads, i)
  /\ UNCHANGED <<agentVars, streamVars, query, indexVars, crossed>>

-----------------------------------------------------------------------------

Next ==
  \/ \E s \in Sessions :
       Emit(s) \/ Post(s) \/ PostFails(s) \/ PostTakenLate(s) \/ SelectTrace(s)
  \/ Connect
  \/ Disconnect
  \/ LiveEvent
  \/ \E i \in DOMAIN page.events : SelectEvent(i)
  \/ NavigationServed
  \/ NavigationFails
  \/ ApplyTraceQuery
  \/ SelectLiveEvents
  \/ \E i \in DOMAIN loads : LoadServed(i) \/ LoadOpened(i) \/ SessionLoaded(i) \/ SessionLoadFailed(i)

Spec == Init /\ [][Next]_vars
=============================================================================
