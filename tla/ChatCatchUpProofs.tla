------------------------- MODULE ChatCatchUpProofs -------------------------
(***************************************************************************)
(* Proofs that the page catches up: where it is behind the server,         *)
(* something on its way to it will tell it, unless an event was missed or  *)
(* something older was put over something newer.  So when nothing is on    *)
(* its way any more the page shows what the server holds.                  *)
(***************************************************************************)
EXTENDS ChatViewProofs

-----------------------------------------------------------------------------
(* Requests join, leave and change, place by place. *)

Sized(s) == Len(s) \in Nat /\ DOMAIN s = 1..Len(s)

Added(s, u, q) ==
  /\ Sized(s) /\ Sized(u)
  /\ Len(u) = Len(s) + 1
  /\ \A i \in DOMAIN s : u[i] = s[i]
  /\ u[Len(u)] = q

Removed(s, u, i) ==
  /\ Sized(s) /\ Sized(u)
  /\ i \in DOMAIN s
  /\ Len(u) = Len(s) - 1
  /\ \A j \in DOMAIN u : u[j] = IF j < i THEN s[j] ELSE s[j + 1]

Changed(s, u, i, q) ==
  /\ Sized(s) /\ Sized(u)
  /\ i \in DOMAIN s
  /\ Len(u) = Len(s)
  /\ \A j \in DOMAIN s : u[j] = IF j = i THEN q ELSE s[j]

\* Append, RemoveAt and EXCEPT, place by place.
LEMMA PlaceByPlace ==
    ASSUME NEW a, NEW s, AreRequests(s, a)
    PROVE  /\ Sized(s)
           /\ \A q : Added(s, Append(s, q), q)
           /\ \A i \in DOMAIN s : Removed(s, RemoveAt(s, i), i)
           /\ \A i \in DOMAIN s : \A q : Changed(s, [s EXCEPT ![i] = q], i, q)
  <1>1. PICK S : s \in Seq(S)
    BY DEF AreRequests
  <1>2. Sized(s)
    BY <1>1 DEF Sized
  <1>3. ASSUME NEW q
        PROVE  Added(s, Append(s, q), q)
    <2>1. s \in Seq(S \union {q}) /\ q \in S \union {q}
      BY <1>1
    <2> DEFINE u == Append(s, q)
    <2>2. /\ u \in Seq(S \union {q})
          /\ Len(u) = Len(s) + 1
          /\ \A i \in 1..Len(s) : u[i] = s[i]
          /\ u[Len(s) + 1] = q
      BY <2>1, AppendProperties
    <2> HIDE DEF u
    <2>3. Added(s, u, q)
      BY <1>2, <2>2 DEF Added, Sized
    <2> QED
      BY <2>3 DEF u
  <1>4. ASSUME NEW i \in DOMAIN s
        PROVE  Removed(s, RemoveAt(s, i), i)
    <2> DEFINE u == RemoveAt(s, i)
    <2>1. /\ u \in Seq(S)
          /\ Len(u) = Len(s) - 1
          /\ \A j \in 1..(Len(s) - 1) : u[j] = IF j < i THEN s[j] ELSE s[j + 1]
      BY <1>1, <1>2, RemoveAtProperties DEF Sized
    <2> HIDE DEF u
    <2>2. Removed(s, u, i)
      BY <1>2, <2>1 DEF Removed, Sized
    <2> QED
      BY <2>2 DEF u
  <1>5. ASSUME NEW i \in DOMAIN s, NEW q
        PROVE  Changed(s, [s EXCEPT ![i] = q], i, q)
    <2> DEFINE u == [s EXCEPT ![i] = q]
    <2>1. /\ DOMAIN u = DOMAIN s
          /\ \A j \in DOMAIN s : u[j] = IF j = i THEN q ELSE s[j]
      OBVIOUS
    <2>2. s \in Seq(S \union {q}) /\ q \in S \union {q}
      BY <1>1
    <2>3. u \in Seq(S \union {q}) /\ Len(u) = Len(s)
      BY <1>2, <2>2 DEF Sized
    <2> HIDE DEF u
    <2>4. Changed(s, u, i, q)
      BY <1>2, <2>1, <2>3 DEF Changed, Sized
    <2> QED
      BY <2>4 DEF u
  <1> QED
    BY <1>2, <1>3, <1>4, <1>5

-----------------------------------------------------------------------------
(* What a step makes of the requests in flight. *)

Issues(kind, n) ==
  /\ requests' = Append(requests, Request(kind, active, n))
  /\ kind = "post" => ~Submitting
  /\ kind \in Restoration => StreamError(active) /\ ~Reconnecting

Follows == {"activities", "submitted", "stopped"}

Moves(i, q) ==
  /\ requests' = [requests EXCEPT ![i] = q]
  /\ IsRequest(q)
  /\ q.kind = requests[i].kind /\ q.conv = requests[i].conv /\ q.fresh = requests[i].fresh
  /\ q.ok => requests[i].ok
  /\ q.kind = "post" =>
       \/ q.answer = requests[i].answer /\ q.session = requests[i].session
       \/ q.answer = "refused"
       \/ PostBegins(i) \/ PostStarts(i)

RequestsMove ==
  \/ requests' = requests
  \/ \E kind \in Kinds, n \in Nat : Issues(kind, n)
  \/ \E i \in DOMAIN requests : requests' = RemoveAt(requests, i)
  \/ \E i \in DOMAIN requests, kind \in Follows :
       requests' = Append(RemoveAt(requests, i), Next1(i, kind))
  \/ \E i \in DOMAIN requests : \E q : Moves(i, q)
  \/ \E c \in Conversations : Select(c)
  \/ ServerCrash

\* The handlers move a request on (api.py).
LEMMA HandledMoves ==
    ASSUME ClientInv, NEW i \in DOMAIN requests,
           Handled(i) \/ LoseRequest(i) \/ LoseActivities(i)
    PROVE  RequestsMove
  <1> DEFINE r == requests[i]
             c == r.conv
  <1>0. IsRequest(r)
    BY SomeRequest
  <1>1. ASSUME NEW q, Moves(i, q)
        PROVE  RequestsMove
    BY <1>1 DEF RequestsMove
  <1>2. ASSUME NEW part, NEW value, requests' = [requests EXCEPT ![i] = Fetched(r, part, value)]
        PROVE  RequestsMove
    <2> DEFINE q == Fetched(r, part, value)
    <2>1. q = [kind |-> r.kind, conv |-> r.conv, session |-> r.session, fresh |-> r.fresh,
               ok |-> r.ok, answer |-> r.answer, got |-> q.got]
      BY <1>0, FetchedIs
    <2> HIDE DEF q
    <2>2. Moves(i, q)
      BY <1>0, <1>2, <2>1 DEF Moves, IsRequest, q
    <2> QED
      BY <1>1, <2>2
  <1>3. ASSUME NEW a, Answered(i, a),
               r.kind = "post" => a = "refused" \/ PostBegins(i) \/ PostStarts(i)
        PROVE  RequestsMove
    <2> DEFINE q == [r EXCEPT !.answer = a]
    <2>1. q = [kind |-> r.kind, conv |-> r.conv, session |-> r.session, fresh |-> r.fresh,
               ok |-> r.ok, answer |-> a, got |-> r.got]
      BY <1>0 DEF IsRequest
    <2>2. requests' = [requests EXCEPT ![i] = q]
      BY <1>3 DEF Answered
    <2> HIDE DEF q
    <2>3. Moves(i, q)
      BY <1>0, <1>3, <2>1, <2>2 DEF Moves, IsRequest
    <2> QED
      BY <1>1, <2>3
  <1>4. CASE \E part \in Parts[r.kind] : Serve(i, part)
    BY <1>2, <1>4 DEF Serve
  <1>5. CASE LoseActivities(i)
    BY <1>2, <1>5 DEF LoseActivities
  <1>6. CASE LoseRequest(i)
    <2> DEFINE q == [r EXCEPT !.ok = FALSE]
    <2>0. PICK no \in BOOLEAN : no = FALSE
      OBVIOUS
    <2>1. q = [kind |-> r.kind, conv |-> r.conv, session |-> r.session, fresh |-> r.fresh,
               ok |-> no, answer |-> r.answer, got |-> r.got]
      BY <1>0, <2>0, OkSet
    <2>2. requests' = [requests EXCEPT ![i] = q] /\ r.ok
      BY <1>6 DEF LoseRequest
    <2> HIDE DEF q
    <2>3. Moves(i, q)
      BY <1>0, <2>1, <2>2 DEF Moves, IsRequest
    <2> QED
      BY <1>1, <2>3
  <1>7. CASE PostBegins(i)
    <2>1. CASE Answered(i, "refused")
      BY <1>3, <2>1
    <2>2. CASE requests' = [requests EXCEPT ![i].answer = "begun",
                                            ![i].session = Len(runs[c]) + 1]
      <3> DEFINE n == Len(runs[c]) + 1
                 u == [r EXCEPT !.answer = "begun"]
                 q == [u EXCEPT !.session = n]
      <3>1. requests' = [requests EXCEPT ![i] = q]
        BY <2>2
      <3> HIDE DEF n
      <3>2. u = [kind |-> r.kind, conv |-> r.conv, session |-> r.session, fresh |-> r.fresh,
                 ok |-> r.ok, answer |-> "begun", got |-> r.got]
        BY <1>0 DEF IsRequest
      <3> HIDE DEF u
      <3>3. q = [kind |-> r.kind, conv |-> r.conv, session |-> n, fresh |-> r.fresh,
                 ok |-> r.ok, answer |-> "begun", got |-> r.got]
        BY <3>2
      <3> HIDE DEF q
      <3>4. Moves(i, q)
        BY <1>0, <1>7, <3>1, <3>3 DEF Moves, IsRequest
      <3> QED
        BY <1>1, <3>4
    <2> QED
      BY <1>7, <2>1, <2>2 DEF PostBegins
  <1>8. CASE PostStarts(i)
    BY <1>3, <1>8 DEF PostStarts
  <1>9. CASE StopRead(i)
    <2>1. CASE Answered(i, "refused")
      BY <1>3, <2>1
    <2>2. CASE requests' = [requests EXCEPT
                 ![i].answer = "begun",
                 ![i].got = [approval |-> ConversationState(runs[c]).pending]]
      <3> DEFINE g == [approval |-> ConversationState(runs[c]).pending]
                 q == [r EXCEPT !.answer = "begun", !.got = g]
      <3>1. requests' = [requests EXCEPT ![i] = q]
        BY <2>2
      <3> HIDE DEF g
      <3>2. q = [kind |-> r.kind, conv |-> r.conv, session |-> r.session, fresh |-> r.fresh,
                 ok |-> r.ok, answer |-> "begun", got |-> g]
        BY <1>0, AnswerSet
      <3> HIDE DEF q
      <3>3. Moves(i, q)
        BY <1>0, <1>9, <3>1, <3>2 DEF Moves, IsRequest, StopRead
      <3> QED
        BY <1>1, <3>3
    <2> QED
      BY <1>9, <2>1, <2>2 DEF StopRead
  <1>10. CASE StopServed(i)
    BY <1>3, <1>10 DEF StopServed
  <1>11. CASE DecisionServed(i)
    BY <1>11 DEF DecisionServed, Without, RequestsMove
  <1> QED
    BY <1>4, <1>5, <1>6, <1>7, <1>8, <1>9, <1>10, <1>11 DEF Handled

\* What follows an event (connectStream).
LEMMA DeliveredRequests ==
    ASSUME ClientInv, NEW c \in Conversations, Deliver(c)
    PROVE  LET next == Followup(Head(stream[c].queue).type) IN
           /\ c = active
           /\ \/ next = <<>> /\ requests' = requests
              \/ \E kind \in {"state", "terminal"} :
                   next = <<kind>> /\ requests' = Append(requests, Request(kind, active, 0))
  <1> DEFINE next == Followup(Head(stream[c].queue).type)
             new == [k \in DOMAIN next |-> Request(next[k], c, 0)]
  <1>1. requests' = requests \o new /\ stream[c].phase = "open"
    BY DEF Deliver
  <1>2. c = active
    BY <1>1, SpeakingIsActive
  <1>3. next = <<>> \/ next = <<"state">> \/ next = <<"terminal">>
    BY DEF Followup
  <1> HIDE DEF next
  <1>4. PICK S : requests \in Seq(S)
    BY DEF ClientInv, AreRequests
  <1>5. CASE next = <<>>
    <2>1. new = <<>>
      BY <1>5
    <2>2. requests' = requests
      BY <1>1, <1>4, <2>1, ConcatEmptySeq
    <2> QED
      BY <1>2, <1>5, <2>2 DEF next
  <1>6. ASSUME NEW kind \in {"state", "terminal"}, next = <<kind>>
        PROVE  requests' = Append(requests, Request(kind, active, 0))
    <2> DEFINE q == Request(kind, c, 0)
    <2>1. new = <<q>>
      BY <1>6
    <2> HIDE DEF q
    <2>2. requests \in Seq(S \union {q}) /\ q \in S \union {q}
      BY <1>4
    <2>3. Append(requests, q) = requests \o <<q>>
      BY <2>2, AppendIsConcat
    <2>4. requests' = Append(requests, q)
      BY <1>1, <2>1, <2>3
    <2> QED
      BY <1>2, <2>4 DEF q
  <1> QED
    BY <1>2, <1>3, <1>5, <1>6 DEF next

\* Every step, in the terms of the places.
LEMMA StepMoves ==
    ASSUME ClientInv, ViewInv, [Next]_vars
    PROVE  RequestsMove
  <1>1. {"restore", "reconnect", "activities", "state", "terminal", "post", "submitted",
         "stop", "stopped", "decide"} \subseteq Kinds
    BY DEF Kinds, Parts
  <1>2. ASSUME NEW i \in DOMAIN requests, Continued(i)
        PROVE  RequestsMove
    <2>1. \/ requests' = RemoveAt(requests, i)
          \/ \E kind \in Follows : requests' = Append(RemoveAt(requests, i), Next1(i, kind))
      BY <1>2 DEF Continued, RestoreDone, RestoreFailed, ActivitiesRefreshed, StateFetched,
             TerminalReloaded, PostAnswered, StopAnswered, ReloadedAfterPost,
             DecisionFailed, Without, Follows
    <2> QED
      BY <2>1 DEF RequestsMove
  <1>3. ASSUME NEW c \in Conversations, Deliver(c)
        PROVE  RequestsMove
    <2>1. \/ requests' = requests
          \/ \E kind \in {"state", "terminal"} :
               requests' = Append(requests, Request(kind, active, 0))
      BY <1>3, DeliveredRequests
    <2> QED
      BY <1>1, <2>1 DEF RequestsMove, Issues, Restoration
  <1>4. ASSUME NEW c \in Conversations, Subscribe(c) \/ StreamError(c)
        PROVE  RequestsMove
    <2>1. CASE requests' = requests
      BY <2>1 DEF RequestsMove
    <2>2. CASE requests' # requests
      <3>1. /\ StreamError(c) /\ stream[c].phase # "closed" /\ ~Reconnecting
            /\ requests' = Append(requests, Request("reconnect", c, 0))
        BY <1>4, <2>2 DEF Subscribe, StreamError
      <3>2. c = active
        BY <3>1, SpeakingIsActive
      <3> QED
        BY <1>1, <3>1, <3>2 DEF RequestsMove, Issues
    <2> QED
      BY <2>1, <2>2
  <1>5. CASE Submit \/ Stop \/ Decide \/ ToggleGroup \/ RetryActivities
    <2>1. view[active].active \in Nat /\ view[active].approval \in Nat
      BY ViewIs DEF ViewInv, ClientInv
    <2>2. CASE Submit
      BY <1>1, <2>2 DEF Submit, Issue, RequestsMove, Issues, Restoration
    <2>3. CASE Stop \/ Decide \/ RetryActivities
      BY <1>1, <2>1, <2>3 DEF Stop, Decide, RetryActivities, Issue, RequestsMove, Issues, Restoration
    <2>4. CASE ToggleGroup
      BY <2>4 DEF ToggleGroup, RequestsMove
    <2> QED
      BY <1>5, <2>2, <2>3, <2>4
  <1>6. ASSUME \/ \E c : RunTask(c) \/ LateWrite(c) \/ LoseConnection(c)
               \/ ServerRestart \/ UNCHANGED vars
        PROVE  RequestsMove
    BY <1>6, LateLeaves DEF RunTask, LoseConnection, ServerRestart, vars, RequestsMove
  <1>7. Selectable \subseteq Conversations
    BY ClientAssumption
  <1> QED
    BY <1>2, <1>3, <1>4, <1>5, <1>6, <1>7, HandledMoves
    DEF Next, Streaming, User, Fault, RequestsMove

(* The same request, but for its freshness and what it has got. *)
SameRequest(r, q) ==
  /\ q.kind = r.kind /\ q.conv = r.conv /\ q.session = r.session /\ q.answer = r.answer
  /\ q.ok => r.ok

\* A selection makes all requests stale and issues a restoration (handleSelect).
LEMMA SelectedRequests ==
    ASSUME ClientInv, NEW c \in Conversations, Select(c)
    PROVE  /\ Sized(requests) /\ Sized(requests')
           /\ Len(requests') = Len(requests) + 1
           /\ \A i \in DOMAIN requests :
                SameRequest(requests[i], requests'[i]) /\ ~requests'[i].fresh
           /\ requests'[Len(requests')] = Request("restore", c, 0)
  <1> DEFINE s == [i \in DOMAIN requests |-> Stale(requests[i])]
             q == Request("restore", c, 0)
  <1>1. requests' = Append(s, q)
    BY DEF Select
  <1>2. Sized(requests) /\ AreRequests(requests, active)
    BY PlaceByPlace DEF ClientInv
  <1>3. ASSUME NEW i \in DOMAIN requests
        PROVE  SameRequest(requests[i], s[i]) /\ s[i].fresh = FALSE
    <2> DEFINE r == requests[i]
               t == Stale(r)
    <2>1. IsRequest(r)
      BY SomeRequest
    <2>2. PICK no \in BOOLEAN : no = FALSE
      OBVIOUS
    <2>3. \E g : t = [kind |-> r.kind, conv |-> r.conv, session |-> r.session,
                      fresh |-> no, ok |-> r.ok, answer |-> r.answer, got |-> g]
      <3>1. CASE r.kind \in Unguarded
        BY <2>1, <2>2, <3>1, FreshSet DEF Stale
      <3>2. CASE r.kind \notin Unguarded
        BY <2>1, <2>2, <3>2, FreshGotSet DEF Stale
      <3> QED
        BY <3>1, <3>2
    <2>4. s[i] = t
      OBVIOUS
    <2> HIDE DEF t
    <2>5. PICK g : t = [kind |-> r.kind, conv |-> r.conv, session |-> r.session,
                        fresh |-> no, ok |-> r.ok, answer |-> r.answer, got |-> g]
      BY <2>3
    <2>6. SameRequest(r, t) /\ t.fresh = no
      BY <2>5 DEF SameRequest
    <2> QED
      BY <2>2, <2>4, <2>6
  <1>4. DOMAIN s = DOMAIN requests
    OBVIOUS
  <1> HIDE DEF s, q
  <1>5. Len(s) = Len(requests) /\ Sized(s) /\ \E S : s \in Seq(S)
    <2> DEFINE S == {s[i] : i \in DOMAIN requests}
    <2>1. s = [i \in 1..Len(requests) |-> s[i]]
      BY <1>2 DEF Sized, s
    <2>2. \A i \in 1..Len(requests) : s[i] \in S
      BY <1>2 DEF Sized
    <2>3. s \in [1..Len(requests) -> S]
      BY <2>1, <2>2
    <2>4. s \in Seq(S) /\ Len(s) = Len(requests)
      BY <1>2, <2>3 DEF Sized
    <2> QED
      BY <2>4 DEF Sized
  <1>6. PICK S : s \in Seq(S)
    BY <1>5
  <1>7. s \in Seq(S \union {q}) /\ q \in S \union {q}
    BY <1>6
  <1>8. /\ Len(requests') = Len(s) + 1
        /\ \A i \in 1..Len(s) : requests'[i] = s[i]
        /\ requests'[Len(s) + 1] = q
        /\ DOMAIN requests' = 1..(Len(s) + 1)
    BY <1>1, <1>7, AppendProperties
  <1>9. /\ Sized(requests') /\ Len(requests') = Len(requests) + 1
        /\ \A i \in DOMAIN requests : requests'[i] = s[i]
        /\ requests'[Len(requests')] = q
    BY <1>2, <1>5, <1>8 DEF Sized
  <1>10. ASSUME NEW i \in DOMAIN requests
         PROVE  SameRequest(requests[i], requests'[i]) /\ ~requests'[i].fresh
    <2>1. requests'[i] = s[i]
      BY <1>9
    <2>2. SameRequest(requests[i], s[i]) /\ s[i].fresh = FALSE
      BY <1>3
    <2> QED
      BY <2>1, <2>2
  <1> QED
    BY <1>2, <1>9, <1>10 DEF q

\* What the dead process has not answered is not answered (requestJson).
LEMMA CrashedRequests ==
    ASSUME ClientInv, ServerCrash
    PROVE  /\ Sized(requests) /\ Sized(requests')
           /\ Len(requests') = Len(requests)
           /\ \A i \in DOMAIN requests :
                /\ SameRequest(requests[i], requests'[i])
                /\ requests'[i].fresh = requests[i].fresh
                /\ requests'[i].got = requests[i].got
                /\ requests'[i].ok => requests[i].answer # "begun" \/ requests[i].kind # "post"
  <1>1. Sized(requests) /\ requests' = [i \in DOMAIN requests |->
          [requests[i] EXCEPT !.ok = IsAnswered(requests[i])]]
    BY PlaceByPlace DEF ClientInv, ServerCrash
  <1>2. ASSUME NEW i \in DOMAIN requests
        PROVE  /\ SameRequest(requests[i], requests'[i])
               /\ requests'[i].fresh = requests[i].fresh
               /\ requests'[i].got = requests[i].got
               /\ requests'[i].ok => requests[i].answer # "begun" \/ requests[i].kind # "post"
    <2> DEFINE r == requests[i]
               o == IsAnswered(requests[i])
               t == requests'[i]
    <2>1. IsRequest(r)
      BY SomeRequest
    <2>2. t = [r EXCEPT !.ok = o]
      BY <1>1
    <2>3. o => r.ok /\ (r.kind = "post" => r.answer # "begun")
      BY DEF IsAnswered, Parts
    <2> HIDE DEF o, t
    <2>4. t = [kind |-> r.kind, conv |-> r.conv, session |-> r.session, fresh |-> r.fresh,
               ok |-> o, answer |-> r.answer, got |-> r.got]
      BY <2>1, <2>2, OkSet
    <2>5. SameRequest(r, t) /\ t.fresh = r.fresh /\ t.got = r.got /\ t.ok = o
      BY <2>3, <2>4 DEF SameRequest
    <2> QED
      BY <2>3, <2>5 DEF t
  <1>3. \E S : requests \in Seq(S)
    BY DEF ClientInv, AreRequests
  <1>4. Len(requests') = Len(requests) /\ DOMAIN requests' = DOMAIN requests
    <2> DEFINE S == {requests'[i] : i \in DOMAIN requests}
    <2>1. requests' = [i \in 1..Len(requests) |-> requests'[i]]
      BY <1>1 DEF Sized
    <2>2. requests' \in [1..Len(requests) -> S]
      BY <1>1, <2>1 DEF Sized
    <2>3. requests' \in Seq(S) /\ Len(requests') = Len(requests)
      BY <1>1, <2>2 DEF Sized
    <2> QED
      BY <1>1, <2>3
  <1> QED
    BY <1>1, <1>2, <1>4 DEF Sized

-----------------------------------------------------------------------------
(* The POSTs. *)

\* At most one POST is in flight, and what it has begun it goes on with
\* (ChatComposer.handleSubmit).
LEMMA PostsMove ==
    ASSUME ClientInv, ViewInv, OnePost(requests), [Next]_vars
    PROVE  /\ OnePost(requests')
           /\ \A j \in DOMAIN requests' : Begins(requests'[j], requests'[j].conv) =>
                \/ \E k \in DOMAIN requests :
                     SameRequest(requests[k], requests'[j])
                \/ j \in DOMAIN requests /\ (PostBegins(j) \/ PostStarts(j))
  <1> DEFINE Goal ==
        /\ OnePost(requests')
        /\ \A j \in DOMAIN requests' : Begins(requests'[j], requests'[j].conv) =>
             \/ \E k \in DOMAIN requests :
                  SameRequest(requests[k], requests'[j])
             \/ j \in DOMAIN requests /\ (PostBegins(j) \/ PostStarts(j))
  <1>0. /\ Sized(requests)
        /\ AreRequests(requests, active)
        /\ \A r : SameRequest(r, r)
    BY PlaceByPlace DEF ClientInv, SameRequest
  <1>1. ASSUME requests' = requests
        PROVE  Goal
    BY <1>0, <1>1 DEF OnePost
  <1>2. ASSUME NEW kind \in Kinds, NEW n \in Nat, Issues(kind, n)
        PROVE  Goal
    <2> DEFINE q == Request(kind, active, n)
    <2>1. Added(requests, requests', q)
      BY <1>0, <1>2, PlaceByPlace DEF Issues
    <2>2. q.kind = kind /\ q.answer = "none"
      BY DEF Request
    <2> HIDE DEF q
    <2>3. \A j \in DOMAIN requests' : (j \in DOMAIN requests /\ requests'[j] = requests[j]) \/ (j = Len(requests') /\ requests'[j] = q)
      BY <2>1 DEF Added, Sized
    <2>4. kind = "post" => \A j \in DOMAIN requests : requests[j].kind # "post"
      BY <1>2 DEF Issues, Submitting, InFlight
    <2>5. OnePost(requests')
      BY <2>2, <2>3, <2>4 DEF OnePost
    <2> QED
      BY <1>0, <2>2, <2>3, <2>5 DEF Begins
  <1>3. ASSUME NEW i \in DOMAIN requests, NEW u, Removed(requests, u, i)
        PROVE  /\ OnePost(u)
               /\ \A j \in DOMAIN u : \E k \in DOMAIN requests : u[j] = requests[k]
    <2> DEFINE p(j) == IF j < i THEN j ELSE j + 1
    <2>1. \A j \in DOMAIN u : p(j) \in DOMAIN requests /\ u[j] = requests[p(j)]
      BY <1>3 DEF Removed, Sized
    <2>2. \A j, k \in DOMAIN u : p(j) = p(k) => j = k
      BY <1>3 DEF Removed, Sized
    <2> HIDE DEF p
    <2> QED
      BY <2>1, <2>2 DEF OnePost
  <1>4. ASSUME NEW i \in DOMAIN requests, requests' = RemoveAt(requests, i)
        PROVE  Goal
    <2>1. Removed(requests, requests', i)
      BY <1>0, <1>4, PlaceByPlace
    <2>2. /\ OnePost(requests')
          /\ \A j \in DOMAIN requests' : \E k \in DOMAIN requests : requests'[j] = requests[k]
      BY <1>3, <2>1
    <2> QED
      BY <1>0, <2>2
  <1>5. ASSUME NEW i \in DOMAIN requests, NEW kind \in Follows,
               requests' = Append(RemoveAt(requests, i), Next1(i, kind))
        PROVE  Goal
    <2> DEFINE u == RemoveAt(requests, i)
               q == Next1(i, kind)
    <2>1. Removed(requests, u, i) /\ AreRequests(u, active)
      BY <1>0, PlaceByPlace, RemoveRequest
    <2>2. Added(u, requests', q)
      BY <1>5, <2>1, PlaceByPlace
    <2>3. /\ OnePost(u)
          /\ \A j \in DOMAIN u : \E k \in DOMAIN requests : u[j] = requests[k]
      BY <1>3, <2>1
    <2>4. q.kind = kind
      BY DEF Next1, Request
    <2>5. q.kind # "post"
      BY <2>4 DEF Follows
    <2> HIDE DEF u, q
    <2>6. \A j \in DOMAIN requests' : (j \in DOMAIN u /\ requests'[j] = u[j]) \/ requests'[j] = q
      BY <2>2 DEF Added, Sized
    <2>7. OnePost(requests')
      BY <2>3, <2>5, <2>6 DEF OnePost
    <2>8. \A j \in DOMAIN requests' : Begins(requests'[j], requests'[j].conv) =>
            \E k \in DOMAIN requests : requests'[j] = requests[k]
      BY <2>3, <2>5, <2>6 DEF Begins
    <2> QED
      BY <1>0, <2>7, <2>8
  <1>6. ASSUME NEW i \in DOMAIN requests, NEW q, Moves(i, q)
        PROVE  Goal
    <2>1. Changed(requests, requests', i, q)
      BY <1>0, <1>6, PlaceByPlace DEF Moves
    <2>2. /\ DOMAIN requests' = DOMAIN requests
          /\ \A j \in DOMAIN requests : requests'[j] = IF j = i THEN q ELSE requests[j]
      BY <2>1 DEF Changed, Sized
    <2>3. OnePost(requests')
      BY <1>6, <2>2 DEF OnePost, Moves
    <2>4. Begins(q, q.conv) => SameRequest(requests[i], q) \/ PostBegins(i) \/ PostStarts(i)
      BY <1>6 DEF Begins, Moves, SameRequest
    <2> HIDE <1>6
    <2>5. ASSUME NEW j \in DOMAIN requests', Begins(requests'[j], requests'[j].conv)
          PROVE  \/ \E k \in DOMAIN requests : SameRequest(requests[k], requests'[j])
                 \/ j \in DOMAIN requests /\ (PostBegins(j) \/ PostStarts(j))
      <3>1. CASE j = i
        BY <2>2, <2>4, <2>5, <3>1
      <3>2. CASE j # i
        BY <1>0, <2>2, <3>2
      <3> QED
        BY <3>1, <3>2
    <2> QED
      BY <2>3, <2>5
  <1>7. ASSUME NEW c \in Conversations, Select(c)
        PROVE  Goal
    <2> DEFINE q == Request("restore", c, 0)
    <2>1. /\ \A i \in DOMAIN requests : SameRequest(requests[i], requests'[i])
          /\ \A j \in DOMAIN requests' : j \in DOMAIN requests \/ requests'[j] = q
      BY <1>7, SelectedRequests DEF Sized
    <2>2. q.kind = "restore"
      BY DEF Request
    <2> HIDE DEF q
    <2>3. OnePost(requests')
      BY <2>1, <2>2 DEF OnePost, SameRequest
    <2> QED
      BY <2>1, <2>2, <2>3 DEF Begins
  <1>8. ASSUME ServerCrash
        PROVE  Goal
    <2>1. /\ DOMAIN requests' = DOMAIN requests
          /\ \A i \in DOMAIN requests : SameRequest(requests[i], requests'[i])
      BY <1>8, CrashedRequests DEF Sized
    <2>2. OnePost(requests')
      BY <2>1 DEF OnePost, SameRequest
    <2> QED
      BY <2>1, <2>2
  <1> HIDE DEF Goal
  <1>9. RequestsMove
    BY StepMoves
  <1>10. Goal
    BY <1>1, <1>2, <1>4, <1>5, <1>6, <1>7, <1>8, <1>9 DEF RequestsMove
  <1> QED
    BY <1>10 DEF Goal

-----------------------------------------------------------------------------
(* What a task writes. *)

Tells(types, T) == \E k \in DOMAIN types : types[k] \in T

(* The run x becomes r, and what has to be told of it is. *)
Works(x, r, types) ==
  /\ x \in Run /\ r \in Run
  /\ IsActive(x)
  /\ r.status # "queued"
  /\ \/ r.status = "running"
     \/ r.status = "waiting_approval" /\ r.approval # "pending"
     \/ Tells(types, Followed)
  /\ IsActive(r) \/ Tells(types, Ends)
  /\ r.status = "completed" => Tells(types, {"run.completed"})
  /\ r.activity = x.activity \/ Tells(types, ToolEvents(r.activity))
  /\ Tells(types, {"run.started"}) => r.status = "running"
  /\ r.late = x.late

Wrote(c, r, types) ==
  LET n == task[c].run IN
  /\ up /\ up' = up /\ stream' = stream
  /\ task[c].out = <<>>
  /\ n # 0 /\ n \in DOMAIN runs[c]
  /\ Works(runs[c][n], r, types)
  /\ DOMAIN runs'[c] = DOMAIN runs[c] /\ Len(runs'[c]) = Len(runs[c])
  /\ \A m \in DOMAIN runs[c] : runs'[c][m] = IF m = n THEN r ELSE runs[c][m]
  /\ task'[c].run = n
  /\ DOMAIN task'[c].out = DOMAIN types
  /\ \A k \in DOMAIN types : task'[c].out[k] = [type |-> types[k], run |-> n]
  /\ \A d \in Conversations \ {c} : runs'[d] = runs[d] /\ task'[d] = task[d]

\* What is written is in its place.
LEMMA WriteIs ==
    ASSUME ServerInv, ViewInv, NEW c \in Conversations, Working(c), NEW r, NEW types,
           Write(c, r, types), Works(runs[c][task[c].run], r, types)
    PROVE  Wrote(c, r, types)
  <1> DEFINE n == task[c].run
             out == [k \in DOMAIN types |-> [type |-> types[k], run |-> n]]
             s == [runs[c] EXCEPT ![n] = r]
  <1>1. /\ up /\ task[c].out = <<>> /\ n # 0 /\ n \in DOMAIN runs[c]
        /\ task[c] = [run |-> n, out |-> task[c].out]
        /\ runs[c] \in Seq(Run) /\ r \in Run
    BY DEF Working, ViewInv, TaskTrue, ServerInv, TasksOK, RunsOK, Works
  <1>2. /\ runs' = [runs EXCEPT ![c] = s]
        /\ task' = [task EXCEPT ![c] = [task[c] EXCEPT !.out = out]]
        /\ UNCHANGED <<up, stream>>
    BY DEF Write
  <1>3. /\ DOMAIN s = DOMAIN runs[c] /\ Len(s) = Len(runs[c])
        /\ \A m \in DOMAIN runs[c] : s[m] = IF m = n THEN r ELSE runs[c][m]
    BY <1>1, ExceptSeq
  <1>4. /\ DOMAIN out = DOMAIN types
        /\ \A k \in DOMAIN types : out[k] = [type |-> types[k], run |-> n]
    OBVIOUS
  <1> HIDE DEF s, n, out
  <1>5. /\ runs'[c] = s /\ task'[c] = [run |-> n, out |-> out]
        /\ \A d \in Conversations \ {c} : runs'[d] = runs[d] /\ task'[d] = task[d]
    BY <1>1, <1>2 DEF ServerInv, RunsOK, TasksOK
  <1> QED
    BY <1>1, <1>2, <1>3, <1>4, <1>5 DEF Wrote, n

\* One event, or none.
LEMMA WorksTold ==
    ASSUME NEW x \in Run, NEW r \in Run, NEW type, NEW types,
           types = <<type>> \/ types = <<>>,
           IsActive(x), r.status # "queued",
           \/ r.status = "running"
           \/ r.status = "waiting_approval" /\ r.approval # "pending"
           \/ types = <<type>> /\ type \in Followed,
           IsActive(r) \/ (types = <<type>> /\ type \in Ends),
           r.status # "completed",
           r.activity = x.activity \/ (types = <<type>> /\ type \in ToolEvents(r.activity)),
           type = "run.started" => r.status = "running",
           r.late = x.late
    PROVE  Works(x, r, types)
  <1>1. \A T : types = <<type>> /\ type \in T => Tells(types, T)
    <2> SUFFICES ASSUME NEW T, types = <<type>> /\ type \in T
                 PROVE  Tells(types, T)
      OBVIOUS
    <2>1. 1 \in DOMAIN types /\ types[1] = type
      OBVIOUS
    <2> QED
      BY <2>1 DEF Tells
  <1>2. Tells(types, {"run.started"}) => type = "run.started"
    BY DEF Tells
  <1> HIDE DEF Tells
  <1> QED
    BY <1>1, <1>2 DEF Works

\* A step of a task writes, publishes or is its last (runner.py).
LEMMA TaskWrites ==
    ASSUME ServerInv, ViewInv, NEW c \in Conversations, TaskStep(c)
    PROVE  Publish(c) \/ EndTask(c) \/ \E r, types : Wrote(c, r, types)
  <1> DEFINE x == Owned(c)
  <1>1. Working(c) => x \in Run
    BY DEF Working, Owned, ViewInv, TaskTrue, ServerInv, RunsOK
  <1>2. ASSUME NEW r, NEW types, Working(c), Write(c, r, types), Works(x, r, types)
        PROVE  Wrote(c, r, types)
    BY <1>2, WriteIs DEF Owned
  <1> USE DEF If, WithStatus, Run, RunStatuses, ActiveStatuses, TerminalStatuses,
              ActivityStatuses, TerminalActivityStatuses, ApprovalStatuses, IsActive
  <1>3. ASSUME StartTurn(c)
        PROVE  \E r, types : Wrote(c, r, types)
    <2>1. PICK r \in Started(x) : Working(c) /\ Write(c, r, <<"run.started">>)
      BY <1>3 DEF StartTurn
    <2>2. Works(x, r, <<"run.started">>)
      BY <1>1, <2>1, WorksTold DEF Started
    <2> QED
      BY <1>2, <2>1, <2>2
  <1>4. ASSUME RequestTool(c)
        PROVE  \E r, types : Wrote(c, r, types)
    <2>1. PICK r \in ToolCalled(c, x) : Working(c) /\ Write(c, r, <<"tool.requested">>)
      BY <1>4 DEF RequestTool
    <2>2. "tool.requested" \in ToolEvents(r.activity)
      BY <1>1, <2>1 DEF ToolCalled, ToolEvents
    <2>3. Works(x, r, <<"tool.requested">>)
      BY <1>1, <2>1, <2>2, WorksTold DEF ToolCalled
    <2> QED
      BY <1>2, <2>1, <2>3
  <1>5. ASSUME FinishTool(c)
        PROVE  \E r, types : Wrote(c, r, types)
    <2> DEFINE types(r) == IF r.activity = "completed"
                           THEN <<"tool.completed">> ELSE <<"tool.failed">>
               type(r) == IF r.activity = "completed" THEN "tool.completed" ELSE "tool.failed"
    <2>1. PICK r \in ToolEnded(c, x) : Working(c) /\ Write(c, r, types(r))
      BY <1>5 DEF FinishTool
    <2>2. /\ r \in Run /\ r.activity \in {"completed", "failed"}
          /\ r.status = "running" /\ x.status = "running" /\ r.late = x.late
      BY <1>1, <2>1, ServerAssumption DEF ToolEnded
    <2>3. types(r) = <<type(r)>> /\ type(r) \in ToolEvents(r.activity) /\ type(r) # "run.started"
      BY <2>2 DEF ToolEvents
    <2> HIDE DEF types, type
    <2>4. Works(x, r, types(r))
      BY <1>1, <2>1, <2>2, <2>3, WorksTold
    <2> QED
      BY <1>2, <2>1, <2>4
  <1>6. ASSUME AwaitApproval(c)
        PROVE  \E r, types : Wrote(c, r, types)
    <2>1. PICK r \in Asking(c, x) : Working(c) /\ Write(c, r, <<>>)
      BY <1>6 DEF AwaitApproval
    <2>2. Works(x, r, <<>>)
      BY <1>1, <2>1, WorksTold DEF Asking
    <2> QED
      BY <1>2, <2>1, <2>2
  <1>7. ASSUME CreateApproval(c)
        PROVE  \E r, types : Wrote(c, r, types)
    <2>1. PICK r \in Asked(x) : Working(c) /\ Write(c, r, <<"approval.requested">>)
      BY <1>7 DEF CreateApproval
    <2>2. Works(x, r, <<"approval.requested">>)
      BY <1>1, <2>1, WorksTold DEF Asked, Followed
    <2> QED
      BY <1>2, <2>1, <2>2
  <1>8. ASSUME FinishDecision(c)
        PROVE  \E r, types : Wrote(c, r, types)
    <2>1. PICK r \in Resumed(x) : Working(c) /\ Write(c, r, <<"approval.resolved">>)
      BY <1>8 DEF FinishDecision
    <2>2. Works(x, r, <<"approval.resolved">>)
      BY <1>1, <2>1, WorksTold DEF Resumed, IsDecided
    <2> QED
      BY <1>2, <2>1, <2>2
  <1>9. ASSUME CompleteRun(c)
        PROVE  \E r, types : Wrote(c, r, types)
    <2> DEFINE types == <<"assistant.message.completed", "run.completed">>
    <2>1. PICK r \in Completed(x) : Working(c) /\ Write(c, r, types)
      BY <1>9 DEF CompleteRun
    <2>2. /\ 2 \in DOMAIN types /\ types[2] = "run.completed"
          /\ \A k \in DOMAIN types : types[k] # "run.started"
      OBVIOUS
    <2>3. /\ r \in Run /\ r.status = "completed" /\ r.activity = x.activity
          /\ x.status = "running" /\ r.late = x.late
      BY <1>1, <2>1 DEF Completed
    <2> HIDE DEF types
    <2>4. Tells(types, {"run.completed"}) /\ Tells(types, Ends) /\ Tells(types, Followed)
      BY <2>2 DEF Tells, Ends, Followed
    <2>5. ~Tells(types, {"run.started"})
      BY <2>2 DEF Tells
    <2>6. Works(x, r, types)
      BY <1>1, <2>1, <2>3, <2>4, <2>5 DEF Works
    <2> QED
      BY <1>2, <2>1, <2>6
  <1>10. ASSUME FailRun(c)
         PROVE  \E r, types : Wrote(c, r, types)
    <2>1. PICK r \in Failed(x) : Working(c) /\ Write(c, r, <<"run.failed">>)
      BY <1>10 DEF FailRun
    <2>2. /\ r \in Run /\ r.status = "failed" /\ r.activity = x.activity
          /\ r.late = x.late /\ IsActive(x)
      BY <1>1, <2>1 DEF Failed
    <2> DEFINE types == <<"run.failed">>
    <2>3. /\ 1 \in DOMAIN types /\ types[1] = "run.failed"
          /\ \A k \in DOMAIN types : types[k] # "run.started"
      OBVIOUS
    <2> HIDE DEF types
    <2>4. Tells(types, Ends) /\ Tells(types, Followed) /\ ~Tells(types, {"run.started"})
      BY <2>3 DEF Tells, Ends, Followed
    <2>5. Works(x, r, types)
      BY <1>1, <2>1, <2>2, <2>4 DEF Works
    <2> QED
      BY <1>2, <2>1, <2>5 DEF types
  <1> QED
    BY <1>3, <1>4, <1>5, <1>6, <1>7, <1>8, <1>9, <1>10 DEF TaskStep

-----------------------------------------------------------------------------
(* A POST that has begun a run is the one to start it. *)

(* No write of the run r is late, or will be of the run s that r becomes,  *)
(* which has not been moved, or only to its end.                           *)
KeptRun(r, s) ==
  r.late = "none" =>
    /\ s.late = "none"
    /\ s.status = r.status \/ s.status \in TerminalStatuses

(* The runs and the task a POST looks at are as it left them.             *)
Kept(rs, t, ss, u) ==
  /\ Len(ss) = Len(rs)
  /\ u.run \in {0, t.run}
  /\ \A n \in DOMAIN rs : n # t.run => KeptRun(rs[n], ss[n])

\* One run changes, that of the task or to its end.
LEMMA OneKept ==
    ASSUME RunsOK, NEW c \in Conversations, NEW n, NEW r,
           runs' = [runs EXCEPT ![c][n] = r],
           n \in DOMAIN runs[c] => n = task[c].run \/ KeptRun(runs[c][n], r),
           \A d \in Conversations : task'[d].run \in {0, task[d].run}
    PROVE  \A d \in Conversations : Kept(runs[d], task[d], runs'[d], task'[d])
  <1>1. /\ runs[c] \in Seq(Run)
        /\ runs'[c] = [runs[c] EXCEPT ![n] = r]
        /\ \A d \in Conversations \ {c} : runs'[d] = runs[d]
    BY DEF RunsOK
  <1>2. /\ Len(runs'[c]) = Len(runs[c])
        /\ \A m \in DOMAIN runs[c] : runs'[c][m] = IF m = n THEN r ELSE runs[c][m]
    <2>1. CASE n \in DOMAIN runs[c]
      <3>1. PICK T : runs[c] \in Seq(T) /\ r \in T
        <4>1. runs[c] \in Seq(Run \union {r})
          BY <1>1
        <4> QED
          BY <4>1
      <3> QED
        BY <1>1, <2>1, <3>1, ExceptSeq
    <2>2. CASE n \notin DOMAIN runs[c]
      <3>1. runs'[c] = runs[c]
        BY <1>1, <2>2
      <3> QED
        BY <2>2, <3>1
    <2> QED
      BY <2>1, <2>2
  <1>3. Kept(runs[c], task[c], runs'[c], task'[c])
    BY <1>2 DEF Kept, KeptRun
  <1>4. \A d \in Conversations \ {c} : Kept(runs[d], task[d], runs'[d], task'[d])
    BY <1>1 DEF Kept, KeptRun
  <1> QED
    BY <1>3, <1>4

\* Nobody else touches the runs, the tasks or the process.
LEMMA ServerUntouched ==
    ASSUME [Next]_vars,
           ~\E c \in Conversations : TaskStep(c) \/ LateWrite(c),
           ~\E i \in DOMAIN requests :
              PostBegins(i) \/ PostStarts(i) \/ StopServed(i) \/ DecisionServed(i),
           ~ServerCrash, ~ServerRestart
    PROVE  UNCHANGED <<runs, task, up>>
  <1>1. ASSUME NEW i \in DOMAIN requests, Handled(i)
        PROVE  UNCHANGED <<runs, task, up>>
    BY <1>1 DEF Handled, Serve, StopRead, InterruptAccepted, InterruptRefused, serverVars
  <1>2. ASSUME NEW i \in DOMAIN requests, Continued(i)
        PROVE  UNCHANGED <<runs, task, up>>
    BY <1>2 DEF Continued, RestoreDone, RestoreFailed, ActivitiesRefreshed, StateFetched,
                TerminalReloaded, PostAnswered, StopAnswered, ReloadedAfterPost,
                DecisionFailed, serverVars
  <1>3. ASSUME NEW c \in Conversations, RunTask(c) \/ Streaming(c)
        PROVE  UNCHANGED <<runs, task, up>>
    BY <1>3 DEF RunTask, Streaming, Subscribe, Deliver, StreamError
  <1>4. CASE User
    BY <1>4 DEF User, Select, Submit, Stop, Decide, ToggleGroup, RetryActivities, Issue, serverVars
  <1>5. CASE Fault
    BY <1>5 DEF Fault, LoseRequest, LoseActivities, LoseConnection, serverVars
  <1> QED
    BY <1>1, <1>2, <1>3, <1>4, <1>5 DEF Next, vars

\* Unless a run is begun or a task started, no POST notices anything.
LEMMA ServerKept ==
    ASSUME ServerInv, ClientInv, ViewInv, [Next]_vars
    PROVE  \/ \A d \in Conversations : Kept(runs[d], task[d], runs'[d], task'[d])
           \/ \E i \in DOMAIN requests :
                \/ PostBegins(i) /\ BeginRun(requests[i].conv)
                \/ PostStarts(i) /\ StartTask(requests[i].conv, requests[i].session)
  <1> DEFINE AllKept == \A d \in Conversations : Kept(runs[d], task[d], runs'[d], task'[d])
  <1>0. RunsOK /\ DOMAIN task = Conversations
    BY DEF ServerInv, TasksOK
  <1>1. ASSUME UNCHANGED runs, \A d \in Conversations : task'[d].run \in {0, task[d].run}
        PROVE  AllKept
    BY <1>1 DEF Kept, KeptRun
  <1>2. ASSUME NEW c \in Conversations, TaskStep(c)
        PROVE  AllKept
    <2>1. CASE Publish(c)
      <3>1. UNCHANGED runs /\ task' = [task EXCEPT ![c] = [task[c] EXCEPT !.out = <<>>]]
        BY <2>1 DEF Publish
      <3>2. task[c] = [run |-> task[c].run, out |-> task[c].out]
        BY DEF ServerInv, TasksOK
      <3>3. \A d \in Conversations : task'[d].run = task[d].run
        BY <1>0, <3>1, <3>2
      <3> QED
        BY <1>1, <3>1, <3>3
    <2>2. CASE EndTask(c)
      BY <1>0, <1>1, <2>2 DEF EndTask, NoTask
    <2>3. ASSUME NEW r, NEW types, Wrote(c, r, types)
          PROVE  AllKept
      <3>1. Kept(runs[c], task[c], runs'[c], task'[c])
        BY <2>3 DEF Kept, KeptRun, Wrote
      <3>2. \A d \in Conversations \ {c} : Kept(runs[d], task[d], runs'[d], task'[d])
        BY <2>3 DEF Kept, KeptRun, Wrote
      <3> QED
        BY <3>1, <3>2
    <2> QED
      BY <1>2, <2>1, <2>2, <2>3, TaskWrites
  <1>3. ASSUME NEW i \in DOMAIN requests,
               PostBegins(i) \/ PostStarts(i) \/ StopServed(i) \/ DecisionServed(i),
               ~(PostBegins(i) /\ BeginRun(requests[i].conv)),
               ~(PostStarts(i) /\ StartTask(requests[i].conv, requests[i].session))
        PROVE  AllKept
    <2> DEFINE c == requests[i].conv
               n == requests[i].session
    <2>0. c \in Conversations
      BY SomeRequest
    <2>1. CASE PostBegins(i)
      BY <1>1, <1>3, <2>1 DEF PostBegins, BeginRefused, serverVars
    <2>2. CASE PostStarts(i)
      <3>1. StartRefused(c, n)
        BY <1>3, <2>2 DEF PostStarts
      <3> DEFINE r == [runs[c][n] EXCEPT !.status = "failed"]
      <3>2. task' = task /\ (runs' = runs \/ runs' = [runs EXCEPT ![c][n] = r])
        BY <3>1 DEF StartRefused
      <3>3. n \in DOMAIN runs[c] => KeptRun(runs[c][n], r)
        <4>1. n \in DOMAIN runs[c] => runs[c][n] \in Run
          BY <1>0, <2>0 DEF RunsOK
        <4> QED
          BY <4>1 DEF Run, TerminalStatuses, KeptRun
      <3> HIDE DEF c, n, r
      <3> QED
        BY <1>0, <1>1, <2>0, <3>2, <3>3, OneKept
    <2>3. CASE StopServed(i)
      <3> DEFINE a == requests[i].got.approval
      <3>1. \/ InterruptRun(c, n, a)
            \/ InterruptOther(c, n)
            \/ InterruptFails(c, n)
        BY <2>3 DEF StopServed
      <3>2. /\ task' = [task EXCEPT ![c] = NoTask]
            /\ \A d \in Conversations : task'[d].run \in {0, task[d].run}
        <4>1. task' = [task EXCEPT ![c] = NoTask]
          BY <3>1 DEF InterruptRun, InterruptOther, InterruptFails, CancelTask
        <4> QED
          BY <1>0, <4>1 DEF NoTask
      <3>3. \E m, r : /\ runs' = [runs EXCEPT ![c][m] = r]
                      /\ m \in DOMAIN runs[c] => m = task[c].run \/ KeptRun(runs[c][m], r)
        <4>1. CASE InterruptRun(c, n, a)
          <5>1. PICK r \in Cancelled(c, n, a) : runs' = [runs EXCEPT ![c][n] = r]
            BY <4>1 DEF InterruptRun
          <5>2. n # task[c].run => r = Settled(runs[c][n], a)
            BY <5>1 DEF Cancelled, Stopped, IsWriting, If
          <5>3. n \in DOMAIN runs[c] => KeptRun(runs[c][n], Settled(runs[c][n], a))
            <6>1. n \in DOMAIN runs[c] => runs[c][n] \in Run
              BY <1>0, <2>0 DEF RunsOK
            <6> QED
              BY <6>1 DEF Settled, Interrupted, KeptRun, Run, TerminalStatuses
          <5> QED
            BY <5>1, <5>2, <5>3
        <4>2. CASE InterruptOther(c, n)
          BY <4>2 DEF InterruptOther
        <4>3. CASE InterruptFails(c, n)
          <5> DEFINE m == IF task[c].run = 0 THEN n ELSE task[c].run
          <5>1. PICK r \in Overtaking(c, m) : runs' = [runs EXCEPT ![c][m] = r]
            BY <4>3 DEF InterruptFails
          <5>2. m = task[c].run \/ runs[c][m].late \in {"start", "fail"}
            BY <5>1 DEF Overtaking, IsWriting, If
          <5> QED
            BY <5>1, <5>2 DEF KeptRun
        <4> QED
          BY <3>1, <4>1, <4>2, <4>3
      <3> HIDE DEF c, n
      <3>4. PICK m : \E r :
              /\ runs' = [runs EXCEPT ![c][m] = r]
              /\ m \in DOMAIN runs[c] => m = task[c].run \/ KeptRun(runs[c][m], r)
        BY <3>3
      <3>5. PICK r : /\ runs' = [runs EXCEPT ![c][m] = r]
                     /\ m \in DOMAIN runs[c] => m = task[c].run \/ KeptRun(runs[c][m], r)
        BY <3>4
      <3> QED
        BY <1>0, <2>0, <3>2, <3>5, OneKept
    <2>4. CASE DecisionServed(i)
      <3>1. CASE DecideRefused(c, n)
        BY <1>1, <3>1 DEF DecideRefused, serverVars
      <3>2. CASE DecideApproval(c, n)
        <4> DEFINE r == [runs[c][n] EXCEPT !.approval = "decided"]
        <4>1. task' = task /\ runs' = [runs EXCEPT ![c][n] = r] /\ task[c].run = n
          BY <3>2 DEF DecideApproval, IsWaiting
        <4> HIDE DEF r, c, n
        <4> QED
          BY <1>0, <2>0, <4>1, OneKept
      <3> QED
        BY <2>4, <3>1, <3>2 DEF DecisionServed
    <2> QED
      BY <1>3, <2>1, <2>2, <2>3, <2>4
  <1>4. ASSUME ServerCrash
        PROVE  AllKept
    BY <1>1, <1>4 DEF ServerCrash, Crash, NoTask
  <1>5. ASSUME ServerRestart
        PROVE  AllKept
    <2>1. /\ \A d \in Conversations :
               runs'[d] = [n \in DOMAIN runs[d] |-> Recovered(runs[d][n])]
          /\ task' = task
      BY <1>5 DEF ServerRestart, Restart
    <2>2. ASSUME NEW d \in Conversations
          PROVE  Kept(runs[d], task[d], runs'[d], task'[d])
      <3>1. runs[d] \in Seq(Run) /\ runs'[d] \in Seq(Run)
        <4>1. RunsOK'
          BY ServerStep DEF ServerInv
        <4> QED
          BY <1>0, <4>1 DEF RunsOK
      <3>2. Len(runs'[d]) = Len(runs[d])
        <4>1. DOMAIN runs'[d] = DOMAIN runs[d]
          BY <2>1
        <4> QED
          BY <3>1, <4>1
      <3>3. \A n \in DOMAIN runs[d] : KeptRun(runs[d][n], runs'[d][n])
        <4>1. \A n \in DOMAIN runs[d] : runs'[d][n] = Recovered(runs[d][n])
          BY <2>1
        <4>2. \A x : KeptRun(x, Recovered(x))
          BY DEF Recovered, TerminalStatuses, KeptRun
        <4> QED
          BY <4>1, <4>2
      <3> QED
        BY <2>1, <3>2, <3>3 DEF Kept
    <2> QED
      BY <2>2
  <1>6. ASSUME UNCHANGED <<runs, task, up>>
        PROVE  AllKept
    BY <1>1, <1>6
  <1>7. ASSUME NEW c \in Conversations, LateWrite(c)
        PROVE  AllKept
    <2>1. PICK n \in DOMAIN runs[c] :
            \E r \in LateLanded(runs[c][n]) : runs' = [runs EXCEPT ![c][n] = r]
      BY <1>7 DEF LateWrite, LandLate
    <2>2. PICK r \in LateLanded(runs[c][n]) : runs' = [runs EXCEPT ![c][n] = r]
      BY <2>1
    <2>3. KeptRun(runs[c][n], r)
      BY <2>2 DEF LateLanded, If, KeptRun, ActivityStatuses, TerminalActivityStatuses
    <2>4. \A d \in Conversations : task'[d].run \in {0, task[d].run}
      BY <1>7, LateLeaves
    <2> QED
      BY <1>0, <2>2, <2>3, <2>4, OneKept
  <1> DEFINE Taken(i) == \/ PostBegins(i) /\ BeginRun(requests[i].conv)
                         \/ PostStarts(i) /\ StartTask(requests[i].conv, requests[i].session)
  <1>8. ASSUME NEW i \in DOMAIN requests,
               PostBegins(i) \/ PostStarts(i) \/ StopServed(i) \/ DecisionServed(i)
        PROVE  AllKept \/ Taken(i)
    BY <1>3, <1>8
  <1> HIDE DEF AllKept, Taken
  <1>9. AllKept \/ \E i \in DOMAIN requests : Taken(i)
    <2>1. CASE \E c \in Conversations : TaskStep(c) \/ LateWrite(c)
      BY <1>2, <1>7, <2>1
    <2>2. CASE \E i \in DOMAIN requests :
                 PostBegins(i) \/ PostStarts(i) \/ StopServed(i) \/ DecisionServed(i)
      BY <1>8, <2>2
    <2>3. CASE ServerCrash \/ ServerRestart
      BY <1>4, <1>5, <2>3
    <2> QED
      BY <1>6, <2>1, <2>2, <2>3, ServerUntouched
  <1> QED
    BY <1>9 DEF AllKept, Taken

\* A POST answered keeps what it was (post_message).
LEMMA AnsweredIs ==
    ASSUME ClientInv, NEW i \in DOMAIN requests, NEW a, Answered(i, a)
    PROVE  /\ i \in DOMAIN requests'
           /\ requests'[i].answer = a
           /\ requests'[i].kind = requests[i].kind /\ requests'[i].conv = requests[i].conv
           /\ requests'[i].session = requests[i].session
           /\ requests'[i].ok = requests[i].ok /\ requests'[i].fresh = requests[i].fresh
           /\ requests'[i].got = requests[i].got
           /\ Changed(requests, requests', i, requests'[i])
  <1> DEFINE r == requests[i]
             q == [r EXCEPT !.answer = a]
  <1>1. q = [kind |-> r.kind, conv |-> r.conv, session |-> r.session, fresh |-> r.fresh,
             ok |-> r.ok, answer |-> a, got |-> r.got]
    BY SomeRequest DEF IsRequest
  <1>2. requests' = [requests EXCEPT ![i] = q]
    BY DEF Answered
  <1> HIDE DEF q
  <1>3. requests'[i] = q /\ Changed(requests, requests', i, q)
    BY <1>2, PlaceByPlace DEF ClientInv
  <1>4. i \in DOMAIN requests'
    BY <1>3 DEF Changed, Sized
  <1> QED
    BY <1>1, <1>3, <1>4

\* What a POST that begins a run becomes (begin_run).
LEMMA BeginsIs ==
    ASSUME ServerInv, ClientInv, ViewInv, NEW i \in DOMAIN requests,
           PostBegins(i), BeginRun(requests[i].conv)
    PROVE  LET c == requests[i].conv
               n == Len(runs[c]) + 1
           IN /\ c \in Conversations /\ requests[i].kind = "post" /\ requests[i].ok
              /\ requests[i].answer = "none"
              /\ i \in DOMAIN requests'
              /\ requests'[i].answer = "begun" /\ requests'[i].session = n
              /\ requests'[i].kind = "post" /\ requests'[i].conv = c
              /\ requests'[i].ok /\ requests'[i].fresh = requests[i].fresh
              /\ requests'[i].got = requests[i].got
              /\ Changed(requests, requests', i, requests'[i])
              /\ up /\ ActiveRuns(c) = {}
              /\ Len(runs'[c]) = n
              /\ DOMAIN runs[c] = 1..Len(runs[c]) /\ DOMAIN runs'[c] = 1..n
              /\ \A m \in DOMAIN runs[c] : runs'[c][m] = runs[c][m]
              /\ runs'[c][n] = NewRun
              /\ \A d \in Conversations \ {c} : runs'[d] = runs[d]
              /\ UNCHANGED <<task, up, stream, view, active, missed, excused, told>>
  <1> DEFINE c == requests[i].conv
             n == Len(runs[c]) + 1
             r == requests[i]
             v == [r EXCEPT !.answer = "begun"]
             q == [v EXCEPT !.session = n]
  <1>1. c \in Conversations /\ runs[c] \in Seq(Run) /\ IsRequest(r) /\ NewRun \in Run
    BY SomeRequest DEF ServerInv, RunsOK, NewRun, Run, RunStatuses, ActiveStatuses
  <1>2. /\ up /\ ActiveRuns(c) = {}
        /\ runs' = [runs EXCEPT ![c] = Append(runs[c], NewRun)]
        /\ UNCHANGED <<task, up, stream, view, active, missed, excused, told>>
        /\ r.kind = "post" /\ r.ok /\ r.answer = "none"
    BY DEF PostBegins, BeginRun
  <1>3. requests' = [requests EXCEPT ![i] = q]
    <2>1. ~BeginRefused(c)
      BY <1>2 DEF BeginRefused
    <2>2. requests' = [requests EXCEPT ![i].answer = "begun",
                                       ![i].session = Len(runs[requests[i].conv]) + 1]
      BY <2>1 DEF PostBegins
    <2> QED
      BY <2>2
  <1> DEFINE s == Append(runs[c], NewRun)
  <1>4. /\ Len(s) = n /\ DOMAIN runs[c] = 1..Len(runs[c]) /\ DOMAIN s = 1..n
        /\ \A m \in DOMAIN runs[c] : s[m] = runs[c][m]
        /\ s[n] = NewRun
    BY <1>1, AppendProperties
  <1> HIDE DEF s
  <1>5. runs'[c] = s /\ \A d \in Conversations \ {c} : runs'[d] = runs[d]
    BY <1>1, <1>2 DEF ServerInv, RunsOK, s
  <1> HIDE DEF n, c
  <1>6. v = [kind |-> r.kind, conv |-> r.conv, session |-> r.session, fresh |-> r.fresh,
             ok |-> r.ok, answer |-> "begun", got |-> r.got]
    BY <1>1 DEF IsRequest
  <1> HIDE DEF v
  <1>7. q = [kind |-> r.kind, conv |-> r.conv, session |-> n, fresh |-> r.fresh,
             ok |-> r.ok, answer |-> "begun", got |-> r.got]
    BY <1>6
  <1> HIDE DEF q
  <1>8. requests'[i] = q /\ Changed(requests, requests', i, q)
    BY <1>3, PlaceByPlace DEF ClientInv
  <1>9. i \in DOMAIN requests'
    BY <1>8 DEF Changed, Sized
  <1>10. /\ requests'[i].answer = "begun" /\ requests'[i].session = n
         /\ requests'[i].kind = "post" /\ requests'[i].conv = c
         /\ requests'[i].ok /\ requests'[i].fresh = requests[i].fresh
         /\ requests'[i].got = requests[i].got
    BY <1>2, <1>7, <1>8 DEF c
  <1>11. /\ Len(runs'[c]) = n
         /\ DOMAIN runs[c] = 1..Len(runs[c]) /\ DOMAIN runs'[c] = 1..n
         /\ \A m \in DOMAIN runs[c] : runs'[c][m] = runs[c][m]
         /\ runs'[c][n] = NewRun
    BY <1>4, <1>5
  <1>12. Changed(requests, requests', i, requests'[i])
    BY <1>8
  <1> QED
    BY <1>1, <1>2, <1>5, <1>9, <1>10, <1>11, <1>12 DEF c, n

\* What a POST begins it goes on with until it has started it, however the runs and
\* the tasks of others go on (post_message, supervisor.start).
LEMMA PostsStayTrue ==
    ASSUME ServerInv, ClientInv, ViewInv, PostsInv, [Next]_vars
    PROVE  \A j \in DOMAIN requests' :
             LET c == requests'[j].conv IN PostTrue(runs'[c], task'[c], requests'[j])
  <1>0. /\ OnePost(requests')
        /\ \A j \in DOMAIN requests' : Begins(requests'[j], requests'[j].conv) =>
             \/ \E k \in DOMAIN requests : SameRequest(requests[k], requests'[j])
             \/ j \in DOMAIN requests /\ (PostBegins(j) \/ PostStarts(j))
    BY PostsMove DEF PostsInv
  <1>1. \A rs, t, r : ~Begins(r, r.conv) => PostTrue(rs, t, r)
    BY DEF Begins, PostTrue, IsBegun
  <1>2. ASSUME NEW j \in DOMAIN requests', NEW i \in DOMAIN requests',
               requests'[i].kind = "post", j # i
        PROVE  ~Begins(requests'[j], requests'[j].conv)
    BY <1>0, <1>2 DEF OnePost, Begins
  <1>3. ASSUME NEW i \in DOMAIN requests, PostBegins(i), BeginRun(requests[i].conv)
        PROVE  \A j \in DOMAIN requests' :
                 LET c == requests'[j].conv IN PostTrue(runs'[c], task'[c], requests'[j])
    <2> DEFINE c == requests[i].conv
               q == requests'[i]
    <2>1. /\ c \in Conversations /\ i \in DOMAIN requests' /\ q.conv = c
          /\ q.kind = "post" /\ q.answer = "begun" /\ q.session = Len(runs'[c])
          /\ Len(runs'[c]) = Len(runs[c]) + 1 /\ DOMAIN runs[c] = 1..Len(runs[c])
          /\ runs'[c][Len(runs'[c])].status = "queued" /\ task' = task
          /\ runs'[c][Len(runs'[c])].late = "none"
      BY <1>3, BeginsIs DEF NewRun
    <2>2. task[c].run \in DOMAIN runs[c] \/ task[c].run = 0
      BY <2>1 DEF ViewInv, TaskTrue
    <2>3. Len(runs[c]) \in Nat
      BY <2>1 DEF ServerInv, RunsOK
    <2>4. task'[c].run # q.session
      BY <2>1, <2>2, <2>3
    <2>5. PostTrue(runs'[c], task'[c], q)
      BY <2>1, <2>4 DEF PostTrue
    <2> QED
      BY <1>1, <1>2, <2>1, <2>5
  <1>4. ASSUME NEW i \in DOMAIN requests, PostStarts(i),
               StartTask(requests[i].conv, requests[i].session)
        PROVE  \A j \in DOMAIN requests' :
                 LET c == requests'[j].conv IN PostTrue(runs'[c], task'[c], requests'[j])
    <2> DEFINE c == requests[i].conv
               q == requests'[i]
    <2>1. Answered(i, "accepted") /\ runs' = runs
      BY <1>4 DEF PostStarts, StartTask, StartRefused
    <2>2. /\ i \in DOMAIN requests' /\ q.conv = c /\ q.kind = requests[i].kind
          /\ q.answer = "accepted" /\ q.session = requests[i].session
      BY <2>1, AnsweredIs
    <2>3. requests[i].kind = "post" /\ requests[i].ok /\ requests[i].answer = "begun"
      BY <1>4 DEF PostStarts
    <2>4. requests[i].session = Len(runs[c])
      BY <2>3 DEF PostsInv, PostTrue, Begins
    <2>5. PostTrue(runs'[c], task'[c], q)
      BY <2>1, <2>2, <2>4 DEF PostTrue, IsBegun
    <2> QED
      BY <1>1, <1>2, <2>2, <2>3, <2>5
  <1>5. ASSUME \A d \in Conversations : Kept(runs[d], task[d], runs'[d], task'[d]),
               \A i \in DOMAIN requests :
                 /\ ~(PostBegins(i) /\ BeginRun(requests[i].conv))
                 /\ ~(PostStarts(i) /\ StartTask(requests[i].conv, requests[i].session)),
               NEW j \in DOMAIN requests'
        PROVE  LET c == requests'[j].conv IN PostTrue(runs'[c], task'[c], requests'[j])
    <2> DEFINE q == requests'[j]
               c == q.conv
    <2> SUFFICES ASSUME Begins(q, c)
                 PROVE  PostTrue(runs'[c], task'[c], q)
      BY <1>1
    <2>1. ~(j \in DOMAIN requests /\ (PostBegins(j) \/ PostStarts(j)))
      <3> SUFFICES ASSUME j \in DOMAIN requests, PostBegins(j) \/ PostStarts(j)
                   PROVE  FALSE
        OBVIOUS
      <3>1. CASE PostBegins(j)
        <4>1. ~BeginRun(requests[j].conv)
          BY <1>5, <3>1
        <4>2. Answered(j, "refused")
          BY <3>1, <4>1 DEF PostBegins
        <4> QED
          BY <4>2, AnsweredIs DEF Begins
      <3>2. CASE PostStarts(j)
        <4>1. ~StartTask(requests[j].conv, requests[j].session)
          BY <1>5, <3>2
        <4>2. Answered(j, "refused")
          BY <3>2, <4>1 DEF PostStarts
        <4> QED
          BY <4>2, AnsweredIs DEF Begins
      <3> QED
        BY <3>1, <3>2
    <2>2. PICK k \in DOMAIN requests : SameRequest(requests[k], q)
      BY <1>0, <2>1
    <2>3. /\ Begins(requests[k], c) /\ requests[k].conv = c
          /\ IsBegun(q) => IsBegun(requests[k])
          /\ q.session = requests[k].session
          /\ c \in Conversations
      BY <2>2, SomeRequest DEF SameRequest, Begins, IsBegun
    <2>4. PostTrue(runs[c], task[c], requests[k])
      BY <2>3 DEF PostsInv
    <2>5. Kept(runs[c], task[c], runs'[c], task'[c])
      BY <1>5, <2>3
    <2>6. q.session \in DOMAIN runs[c] /\ runs[c] \in Seq(Run)
      BY <2>3 DEF ViewInv, RequestTrue, Begins, ServerInv, RunsOK
    <2> HIDE DEF q, c
    <2>7. q.session # 0
      BY <2>6
    <2> QED
      BY <2>3, <2>4, <2>5, <2>6, <2>7 DEF PostTrue, Kept, KeptRun
  <1> QED
    BY <1>3, <1>4, <1>5, ServerKept

\* A run.started in the hands of a task is of a run that has just started, and no
\* write is late of the run of a task.
LEMMA StartsStayTrue ==
    ASSUME ServerInv, ClientInv, ViewInv, PostsInv, [Next]_vars
    PROVE  \A c \in Conversations : StartTrue(runs'[c], task'[c])
  <1> DEFINE Goal == \A c \in Conversations : StartTrue(runs'[c], task'[c])
  <1>0. /\ \A rs, t : t.out = <<>> /\ (t.run = 0 \/ rs[t.run].late = "none") =>
                       StartTrue(rs, t)
        /\ \A c \in Conversations : StartTrue(runs[c], task[c])
        /\ NoTask.out = <<>> /\ NoTask.run = 0
        /\ DOMAIN task = Conversations
    BY DEF StartTrue, PostsInv, NoTask, ServerInv, TasksOK
  <1>1. ASSUME NEW c \in Conversations, StartTrue(runs'[c], task'[c]),
               \A d \in Conversations \ {c} : runs'[d] = runs[d] /\ task'[d] = task[d]
        PROVE  Goal
    <2>1. ASSUME NEW d \in Conversations
          PROVE  StartTrue(runs'[d], task'[d])
      <3>1. CASE d = c
        BY <1>1, <3>1
      <3>2. CASE d # c
        <4>1. runs'[d] = runs[d] /\ task'[d] = task[d]
          BY <1>1, <3>2
        <4> QED
          BY <1>0, <4>1
      <3> QED
        BY <3>1, <3>2
    <2> QED
      BY <2>1
  <1>2. ASSUME NEW c \in Conversations, TaskStep(c)
        PROVE  Goal
    <2>1. CASE Publish(c) \/ EndTask(c)
      <3>1. /\ runs' = runs
            /\ \/ task' = [task EXCEPT ![c] = [task[c] EXCEPT !.out = <<>>]]
               \/ task' = [task EXCEPT ![c] = NoTask]
        BY <2>1 DEF Publish, EndTask
      <3>2. task[c] = [run |-> task[c].run, out |-> task[c].out]
        BY DEF ServerInv, TasksOK
      <3>3. /\ task'[c].out = <<>> /\ task'[c].run \in {0, task[c].run}
            /\ \A d \in Conversations \ {c} : task'[d] = task[d]
        BY <1>0, <3>1, <3>2
      <3>4. task[c].run = 0 \/ runs[c][task[c].run].late = "none"
        BY <1>0 DEF StartTrue
      <3>5. StartTrue(runs'[c], task'[c])
        BY <1>0, <3>1, <3>3, <3>4
      <3> QED
        BY <1>1, <3>1, <3>3, <3>5
    <2>2. ASSUME NEW r, NEW types, Wrote(c, r, types)
          PROVE  Goal
      <3>0. runs'[c][task'[c].run].late = "none"
        BY <1>0, <2>2 DEF StartTrue, Wrote, Works
      <3>1. StartTrue(runs'[c], task'[c])
        <4> SUFFICES ASSUME NEW k \in DOMAIN task'[c].out, task'[c].out[k].type = "run.started"
                     PROVE  runs'[c][task'[c].run].status = "running"
          BY <3>0 DEF StartTrue
        <4>0. /\ DOMAIN task'[c].out = DOMAIN types
              /\ \A l \in DOMAIN types :
                   task'[c].out[l] = [type |-> types[l], run |-> task[c].run]
          BY <2>2 DEF Wrote
        <4>1. k \in DOMAIN types /\ types[k] = "run.started"
          <5>1. k \in DOMAIN types
            BY <4>0
          <5>2. task'[c].out[k] = [type |-> types[k], run |-> task[c].run]
            BY <4>0, <5>1
          <5> QED
            BY <5>1, <5>2
        <4>2. r.status = "running"
          BY <2>2, <4>1 DEF Wrote, Works, Tells
        <4> QED
          BY <2>2, <4>2 DEF Wrote
      <3>2. \A d \in Conversations \ {c} : runs'[d] = runs[d] /\ task'[d] = task[d]
        BY <2>2 DEF Wrote
      <3> QED
        BY <1>1, <3>1, <3>2
    <2> QED
      BY <1>2, <2>1, <2>2, TaskWrites
  <1>3. ASSUME NEW i \in DOMAIN requests, PostBegins(i)
        PROVE  Goal
    <2>1. CASE BeginRun(requests[i].conv)
      <3> DEFINE c == requests[i].conv
      <3>1. /\ c \in Conversations
            /\ \A m \in DOMAIN runs[c] : runs'[c][m] = runs[c][m]
            /\ \A d \in Conversations \ {c} : runs'[d] = runs[d]
            /\ task' = task
        BY <1>3, <2>1, BeginsIs
      <3>2. task[c].run \in DOMAIN runs[c] \/ (task[c].run = 0 /\ task[c].out = <<>>)
        BY <3>1 DEF ViewInv, TaskTrue
      <3> HIDE DEF c
      <3>3. StartTrue(runs'[c], task'[c])
        BY <1>0, <3>1, <3>2 DEF StartTrue
      <3> QED
        BY <1>1, <3>1, <3>3
    <2>2. CASE BeginRefused(requests[i].conv)
      BY <1>0, <2>2 DEF BeginRefused, serverVars
    <2> QED
      BY <1>3, <2>1, <2>2 DEF PostBegins
  <1>4. ASSUME NEW i \in DOMAIN requests, PostStarts(i)
        PROVE  Goal
    <2> DEFINE c == requests[i].conv
               n == requests[i].session
    <2>0. c \in Conversations
      BY SomeRequest
    <2>1. task[c] = [run |-> task[c].run, out |-> task[c].out]
      BY <2>0 DEF ServerInv, TasksOK
    <2>2. CASE StartTask(c, n)
      <3>1. /\ task[c].run = 0
            /\ task' = [task EXCEPT ![c] = [task[c] EXCEPT !.run = n]] /\ runs' = runs
        BY <2>2 DEF StartTask
      <3>2. task[c].out = <<>>
        BY <2>0, <3>1 DEF ViewInv, TaskTrue
      <3>3. runs[c][n].late = "none"
        <4>1. requests[i].kind = "post" /\ requests[i].ok /\ requests[i].answer = "begun"
          BY <1>4 DEF PostStarts
        <4> QED
          BY <4>1 DEF PostsInv, PostTrue, IsBegun
      <3> HIDE DEF c, n
      <3>4. /\ task'[c].out = <<>> /\ task'[c].run = n
            /\ \A d \in Conversations \ {c} : task'[d] = task[d]
        BY <1>0, <2>0, <2>1, <3>1, <3>2
      <3>5. runs'[c][task'[c].run].late = "none"
        BY <3>1, <3>3, <3>4
      <3>6. StartTrue(runs'[c], task'[c])
        BY <1>0, <3>4, <3>5
      <3> QED
        BY <1>1, <2>0, <3>1, <3>4, <3>6
    <2>3. CASE StartRefused(c, n)
      <3>1. /\ task' = task
            /\ runs' = runs \/ runs' = [runs EXCEPT ![c] = [runs[c] EXCEPT ![n].status = "failed"]]
        BY <2>3 DEF StartRefused
      <3>2. /\ runs' = runs \/ \A m \in DOMAIN runs[c] \ {n} : runs'[c][m] = runs[c][m]
            /\ \A d \in Conversations \ {c} : runs'[d] = runs[d]
        BY <2>0, <3>1 DEF ServerInv, RunsOK
      <3>3. task[c].run # n
        <4>1. requests[i].kind = "post" /\ requests[i].ok /\ requests[i].answer = "begun"
          BY <1>4 DEF PostStarts
        <4> QED
          BY <4>1 DEF PostsInv, PostTrue, IsBegun
      <3>4. task[c].run \in DOMAIN runs[c] \/ (task[c].run = 0 /\ task[c].out = <<>>)
        BY <2>0 DEF ViewInv, TaskTrue
      <3> HIDE DEF c, n
      <3>5. \/ task[c].run = 0 /\ task[c].out = <<>>
            \/ runs'[c][task[c].run] = runs[c][task[c].run]
        BY <3>2, <3>3, <3>4
      <3>6. StartTrue(runs'[c], task'[c])
        BY <1>0, <2>0, <3>1, <3>5 DEF StartTrue
      <3> QED
        BY <1>1, <2>0, <3>1, <3>2, <3>6
    <2> QED
      BY <1>4, <2>2, <2>3 DEF PostStarts
  <1>5. ASSUME NEW i \in DOMAIN requests, StopServed(i)
        PROVE  Goal
    <2> DEFINE c == requests[i].conv
    <2>1. c \in Conversations
      BY SomeRequest
    <2>0. PICK n, a : InterruptRun(c, n, a) \/ InterruptOther(c, n) \/ InterruptFails(c, n)
      BY <1>5 DEF StopServed
    <2> HIDE DEF c
    <2>2. task' = [task EXCEPT ![c] = NoTask]
      BY <2>0 DEF InterruptRun, InterruptOther, InterruptFails, CancelTask
    <2>3. \E m, r : runs' = [runs EXCEPT ![c] = [runs[c] EXCEPT ![m] = r]]
      BY <2>0 DEF InterruptRun, InterruptOther, InterruptFails
    <2>4. \A d \in Conversations \ {c} : runs'[d] = runs[d] /\ task'[d] = task[d]
      BY <1>0, <2>1, <2>2, <2>3 DEF ServerInv, RunsOK
    <2>5. task'[c].out = <<>> /\ task'[c].run = 0
      BY <1>0, <2>1, <2>2
    <2> QED
      BY <1>0, <1>1, <2>1, <2>4, <2>5
  <1>6. ASSUME NEW i \in DOMAIN requests, DecisionServed(i)
        PROVE  Goal
    <2> DEFINE c == requests[i].conv
               n == requests[i].session
    <2>1. c \in Conversations
      BY SomeRequest
    <2>2. CASE DecideApproval(c, n)
      <3>1. /\ task' = task /\ task[c].out = <<>>
            /\ runs' = [runs EXCEPT ![c] = [runs[c] EXCEPT ![n].approval = "decided"]]
        BY <2>2 DEF DecideApproval, IsWaiting
      <3>2. \A d \in Conversations \ {c} : runs'[d] = runs[d]
        BY <2>1, <3>1 DEF ServerInv, RunsOK
      <3>3. task[c].run = 0 \/ task[c].run \in DOMAIN runs[c]
        BY <2>1 DEF ViewInv, TaskTrue
      <3>4. \A m \in DOMAIN runs[c] : runs'[c][m].late = runs[c][m].late
        BY <2>1, <3>1 DEF ServerInv, RunsOK, Run
      <3> HIDE DEF c, n
      <3>5. task[c].run = 0 \/ runs'[c][task[c].run].late = "none"
        BY <1>0, <2>1, <3>3, <3>4 DEF StartTrue
      <3>6. StartTrue(runs'[c], task'[c])
        BY <1>0, <3>1, <3>5
      <3> QED
        BY <1>1, <2>1, <3>1, <3>2, <3>6
    <2>3. CASE DecideRefused(c, n)
      BY <1>0, <2>3 DEF DecideRefused, serverVars
    <2> QED
      BY <1>6, <2>2, <2>3 DEF DecisionServed
  <1>7. ASSUME ServerCrash
        PROVE  Goal
    BY <1>0, <1>7 DEF ServerCrash, Crash
  <1>8. ASSUME ServerRestart
        PROVE  Goal
    BY <1>0, <1>8 DEF ServerRestart, Restart, PostsInv
  <1>9. ASSUME UNCHANGED <<runs, task, up>>
        PROVE  Goal
    BY <1>0, <1>9
  <1>10. ASSUME NEW c \in Conversations, LateWrite(c)
         PROVE  Goal
    <2>1. PICK n \in DOMAIN runs[c] : \E r \in LateLanded(runs[c][n]) :
            runs' = [runs EXCEPT ![c] = [runs[c] EXCEPT ![n] = r]]
      BY <1>10 DEF LateWrite, LandLate
    <2>2. runs[c][n].late # "none" /\ task' = task
      BY <1>10, <2>1, LateLeaves
      DEF LateLanded, If, ActivityStatuses, TerminalActivityStatuses
    <2>3. /\ \A m \in DOMAIN runs[c] \ {n} : runs'[c][m] = runs[c][m]
          /\ \A d \in Conversations \ {c} : runs'[d] = runs[d]
      BY <2>1 DEF ServerInv, RunsOK
    <2>4. \/ task[c].run = 0 /\ task[c].out = <<>>
          \/ task[c].run \in DOMAIN runs[c] /\ task[c].run # n
      BY <1>0, <2>2 DEF ViewInv, TaskTrue, StartTrue
    <2>5. StartTrue(runs'[c], task'[c])
      BY <1>0, <2>2, <2>3, <2>4 DEF StartTrue
    <2> QED
      BY <1>1, <2>2, <2>3, <2>5
  <1> HIDE DEF Goal
  <1>11. Goal
    <2>1. CASE \E c \in Conversations : TaskStep(c) \/ LateWrite(c)
      BY <1>2, <1>10, <2>1
    <2>2. CASE \E i \in DOMAIN requests :
                 PostBegins(i) \/ PostStarts(i) \/ StopServed(i) \/ DecisionServed(i)
      BY <1>3, <1>4, <1>5, <1>6, <2>2
    <2> QED
      BY <1>7, <1>8, <1>9, <2>1, <2>2, ServerUntouched
  <1> QED
    BY <1>11 DEF Goal

\* Every step.
LEMMA PostsInvStep ==
    ASSUME ServerInv, ClientInv, ViewInv, PostsInv, [Next]_vars
    PROVE  PostsInv'
  <1>1. OnePost(requests')
    BY PostsMove DEF PostsInv
  <1>2. ~up' => \A c \in Conversations : task'[c] = NoTask
    <2>1. CASE ServerCrash \/ ServerRestart
      BY <2>1 DEF ServerCrash, Crash, ServerRestart, Restart
    <2>2. CASE UNCHANGED <<runs, task, up>>
      BY <2>2 DEF PostsInv
    <2>3. ASSUME NEW c \in Conversations, TaskStep(c)
          PROVE  up'
      BY <2>3 DEF TaskStep, StartTurn, RequestTool, FinishTool, AwaitApproval, CreateApproval,
                  FinishDecision, CompleteRun, FailRun, Publish, EndTask, Write, Working
    <2>4. ASSUME NEW i \in DOMAIN requests,
                 PostBegins(i) \/ PostStarts(i) \/ StopServed(i) \/ DecisionServed(i)
          PROVE  up'
      <3>1. CASE PostBegins(i)
        BY <3>1 DEF PostBegins, BeginRun, BeginRefused, serverVars
      <3>2. CASE PostStarts(i)
        BY <3>2 DEF PostStarts, StartTask, StartRefused
      <3>3. CASE StopServed(i)
        <4>1. \A c, n, a :
                InterruptRun(c, n, a) \/ InterruptOther(c, n) \/ InterruptFails(c, n) => up'
          BY DEF InterruptRun, InterruptOther, InterruptFails, CancelTask
        <4>2. \E c, n, a :
                InterruptRun(c, n, a) \/ InterruptOther(c, n) \/ InterruptFails(c, n)
          BY <3>3 DEF StopServed
        <4> QED
          BY <4>1, <4>2
      <3>4. CASE DecisionServed(i)
        BY <3>4 DEF DecisionServed, DecideApproval, DecideRefused, serverVars
      <3> QED
        BY <2>4, <3>1, <3>2, <3>3, <3>4
    <2>5. ASSUME NEW c \in Conversations, LateWrite(c)
          PROVE  up'
      BY <2>5 DEF LateWrite, LandLate
    <2> QED
      BY <2>1, <2>2, <2>3, <2>4, <2>5, ServerUntouched
  <1>3. \A j \in DOMAIN requests' :
          PostTrue(runs'[requests'[j].conv], task'[requests'[j].conv], requests'[j])
    BY PostsStayTrue
  <1>4. \A c \in Conversations : StartTrue(runs'[c], task'[c])
    BY StartsStayTrue
  <1> QED
    BY <1>1, <1>2, <1>3, <1>4 DEF PostsInv

-----------------------------------------------------------------------------
(* The restorations and the connection. *)

(* The wanted restorations are still the same, or there is a new one only. *)
WantedMoves ==
  \/ /\ OneWanted(requests')
     /\ \A j \in DOMAIN requests' : IsWanted(requests'[j]) =>
          \E k \in DOMAIN requests :
            /\ IsWanted(requests[k])
            /\ requests'[j].conv = requests[k].conv
            /\ requests'[j].ok => requests[k].ok
  \/ /\ \/ \E c \in Conversations : Select(c)
        \/ StreamError(active) /\ ~Reconnecting
     /\ \A j \in DOMAIN requests' : IsWanted(requests'[j]) =>
          j = Len(requests') /\ requests'[j].ok = up

\* Whatever becomes of the requests, one restoration at most is wanted
\* (handleSelect, connectStream).
LEMMA RestorationsMove ==
    ASSUME ClientInv, ViewInv, ConnectionInv, [Next]_vars
    PROVE  WantedMoves
  <1> DEFINE Same(u) ==
        /\ OneWanted(u)
        /\ \A j \in DOMAIN u : IsWanted(u[j]) =>
             \E k \in DOMAIN requests :
               /\ IsWanted(requests[k])
               /\ u[j].conv = requests[k].conv
               /\ u[j].ok => requests[k].ok
  <1>0. /\ Sized(requests)
        /\ AreRequests(requests, active)
        /\ OneWanted(requests)
    BY PlaceByPlace DEF ClientInv, ConnectionInv
  <1>1. ASSUME requests' = requests
        PROVE  Same(requests')
    BY <1>0, <1>1
  <1>2. ASSUME NEW u, Sized(u), NEW q, ~IsWanted(q), Added(u, requests', q), Same(u)
        PROVE  Same(requests')
    <2>1. \A j \in DOMAIN requests' :
            (j \in DOMAIN u /\ requests'[j] = u[j]) \/ requests'[j] = q
      BY <1>2 DEF Added, Sized
    <2> QED
      BY <1>2, <2>1 DEF OneWanted
  <1>3. ASSUME NEW i \in DOMAIN requests, NEW u, Removed(requests, u, i)
        PROVE  Same(u)
    <2> DEFINE p(j) == IF j < i THEN j ELSE j + 1
    <2>1. \A j \in DOMAIN u : p(j) \in DOMAIN requests /\ u[j] = requests[p(j)]
      BY <1>3 DEF Removed, Sized
    <2>2. \A j, k \in DOMAIN u : p(j) = p(k) => j = k
      BY <1>3 DEF Removed, Sized
    <2> HIDE DEF p
    <2> QED
      BY <1>0, <2>1, <2>2 DEF OneWanted
  <1>4. ASSUME NEW kind \in Kinds, NEW n \in Nat, Issues(kind, n)
        PROVE  WantedMoves
    <2> DEFINE q == Request(kind, active, n)
    <2>1. Added(requests, requests', q)
      BY <1>0, <1>4, PlaceByPlace DEF Issues
    <2>2. q.kind = kind /\ q.ok = up
      BY DEF Request
    <2> HIDE DEF q
    <2>3. CASE kind \notin Restoration
      BY <1>0, <1>1, <1>2, <2>1, <2>2, <2>3 DEF IsWanted, WantedMoves
    <2>4. CASE kind \in Restoration
      <3>1. StreamError(active) /\ ~Reconnecting
        BY <1>4, <2>4 DEF Issues
      <3>2. \A k \in DOMAIN requests : ~IsWanted(requests[k])
        BY <3>1 DEF StreamError, ConnectionInv
      <3>3. \A j \in DOMAIN requests' : IsWanted(requests'[j]) =>
              j = Len(requests') /\ requests'[j].ok = up
        <4>1. \A j \in DOMAIN requests' :
                \/ j \in DOMAIN requests /\ requests'[j] = requests[j]
                \/ j = Len(requests') /\ requests'[j] = q
          BY <2>1 DEF Added, Sized
        <4> QED
          BY <2>2, <3>2, <4>1
      <3> QED
        BY <3>1, <3>3 DEF WantedMoves
    <2> QED
      BY <2>3, <2>4
  <1>5. ASSUME NEW i \in DOMAIN requests, requests' = RemoveAt(requests, i)
        PROVE  Same(requests')
    <2>1. Removed(requests, requests', i)
      BY <1>0, <1>5, PlaceByPlace
    <2> QED
      BY <1>3, <2>1
  <1>6. ASSUME NEW i \in DOMAIN requests, NEW kind \in Follows,
               requests' = Append(RemoveAt(requests, i), Next1(i, kind))
        PROVE  Same(requests')
    <2> DEFINE u == RemoveAt(requests, i)
               q == Next1(i, kind)
    <2>1. Removed(requests, u, i) /\ AreRequests(u, active)
      BY <1>0, PlaceByPlace, RemoveRequest
    <2>2. Added(u, requests', q) /\ Sized(u)
      BY <1>6, <2>1, PlaceByPlace
    <2>3. q.kind = kind
      BY DEF Next1, Request
    <2>4. ~IsWanted(q)
      BY <2>3 DEF IsWanted, Follows, Restoration
    <2> HIDE DEF u, q
    <2>5. Same(u)
      BY <1>3, <2>1
    <2> HIDE DEF Same
    <2> QED
      BY <1>2, <2>2, <2>4, <2>5
  <1>7. ASSUME NEW i \in DOMAIN requests, NEW q, Moves(i, q)
        PROVE  Same(requests')
    <2>1. Changed(requests, requests', i, q)
      BY <1>0, <1>7, PlaceByPlace DEF Moves
    <2>2. /\ DOMAIN requests' = DOMAIN requests
          /\ \A j \in DOMAIN requests : requests'[j] = IF j = i THEN q ELSE requests[j]
      BY <2>1 DEF Changed, Sized
    <2>3. \A j \in DOMAIN requests :
            /\ IsWanted(requests'[j]) => IsWanted(requests[j])
            /\ requests'[j].conv = requests[j].conv
            /\ requests'[j].ok => requests[j].ok
      BY <1>7, <2>2 DEF IsWanted, Moves
    <2> QED
      BY <1>0, <2>2, <2>3 DEF OneWanted
  <1>8. ASSUME NEW c \in Conversations, Select(c)
        PROVE  WantedMoves
    <2> DEFINE q == Request("restore", c, 0)
    <2>1. /\ \A i \in DOMAIN requests : ~requests'[i].fresh
          /\ \A j \in DOMAIN requests' :
               j \in DOMAIN requests \/ (j = Len(requests') /\ requests'[j] = q)
      BY <1>8, SelectedRequests DEF Sized
    <2>2. q.ok = up
      BY DEF Request
    <2> HIDE DEF q
    <2> QED
      BY <1>8, <2>1, <2>2 DEF WantedMoves, IsWanted
  <1>9. ASSUME ServerCrash
        PROVE  Same(requests')
    <2>1. /\ DOMAIN requests' = DOMAIN requests
          /\ \A i \in DOMAIN requests :
               /\ IsWanted(requests'[i]) => IsWanted(requests[i])
               /\ requests'[i].conv = requests[i].conv
               /\ requests'[i].ok => requests[i].ok
      BY <1>9, CrashedRequests DEF Sized, SameRequest, IsWanted
    <2> QED
      BY <1>0, <2>1 DEF OneWanted
  <1>10. Same(requests') => WantedMoves
    BY DEF WantedMoves
  <1>11. RequestsMove
    BY StepMoves
  <1> HIDE DEF Same
  <1> QED
    BY <1>1, <1>4, <1>5, <1>6, <1>7, <1>8, <1>9, <1>10, <1>11 DEF RequestsMove

(* What becomes of the connection, when the user does not turn away and no *)
(* error makes the client close it.                                        *)
PhaseMoves ==
  LET p == stream[active].phase
      q == stream'[active].phase
  IN \/ q = p
     \/ p = "connecting" /\ q = "open" /\ up /\ up' = up
     \/ /\ p = "closed" /\ q = "connecting"
        /\ \E i \in DOMAIN requests : RestoreDone(i) /\ requests[i].fresh
     \/ p \in {"connecting", "open"} /\ q = "broken"
     \/ ServerCrash /\ p # "closed" /\ q = "broken"

\* The phase of the connection goes its round (connectStream, eventStream.ts).
LEMMA PhasesMove ==
    ASSUME ClientInv, ViewInv, [Next]_vars
    PROVE  \/ \E c \in Conversations : Select(c)
           \/ StreamError(active)
           \/ active' = active /\ PhaseMoves
  <1>0. active \in Conversations /\ DOMAIN stream = Conversations
    BY DEF ClientInv
  <1>1. ASSUME stream' = stream
        PROVE  PhaseMoves
    BY <1>1 DEF PhaseMoves
  <1>2. ASSUME NEW c \in Conversations, NEW events, stream' = Published(c, events)
        PROVE  PhaseMoves
    <2>1. CASE stream[c].phase = "open"
      <3> DEFINE q == Newest(stream[c].queue \o events)
      <3>1. stream' = [stream EXCEPT ![c] = [stream[c] EXCEPT !.queue = q]]
        BY <1>2, <2>1 DEF Published
      <3> HIDE DEF q
      <3>2. /\ stream'[c] = [phase |-> stream[c].phase, queue |-> q]
            /\ \A d \in Conversations \ {c} : stream'[d] = stream[d]
        BY <3>1, QueueSet
      <3> QED
        BY <1>0, <3>2 DEF PhaseMoves
    <2>2. CASE stream[c].phase # "open"
      BY <1>1, <1>2, <2>2 DEF Published
    <2> QED
      BY <2>1, <2>2
  <1>3. ASSUME NEW c \in Conversations, TaskStep(c)
        PROVE  PhaseMoves
    <2>1. stream' = stream \/ stream' = Published(c, task[c].out)
      BY <1>3 DEF TaskStep, StartTurn, RequestTool, FinishTool, AwaitApproval, CreateApproval,
                  FinishDecision, CompleteRun, FailRun, Publish, EndTask, Write
    <2> QED
      BY <1>1, <1>2, <2>1
  <1>4. ASSUME NEW i \in DOMAIN requests, Handled(i)
        PROVE  active' = active /\ PhaseMoves
    <2>1. active' = active
      BY <1>4 DEF Handled, Serve, PostBegins, PostStarts, StopRead, StopServed, DecisionServed
    <2>2. CASE StopServed(i)
      <3>1. requests[i].conv \in Conversations
        BY SomeRequest
      <3>2. CancelTask(requests[i].conv)
        BY <2>2 DEF StopServed, InterruptRun, InterruptOther, InterruptFails
      <3>3. stream' = stream \/ \E events : stream' = Published(requests[i].conv, events)
        BY <3>2 DEF CancelTask
      <3> QED
        BY <1>1, <1>2, <2>1, <3>1, <3>3
    <2>3. CASE ~StopServed(i)
      <3>1. stream' = stream
        BY <1>4, <2>3
        DEF Handled, Serve, PostBegins, PostStarts, StopRead, DecisionServed, BeginRun,
            BeginRefused, StartTask, StartRefused, InterruptAccepted, InterruptRefused,
            DecideApproval, DecideRefused, serverVars
      <3> QED
        BY <1>1, <2>1, <3>1
    <2> QED
      BY <2>2, <2>3
  <1>5. ASSUME NEW i \in DOMAIN requests, Continued(i)
        PROVE  active' = active /\ PhaseMoves
    <2>1. active' = active
      BY <1>5 DEF Continued, RestoreDone, RestoreFailed, ActivitiesRefreshed, StateFetched,
             TerminalReloaded, PostAnswered, StopAnswered, ReloadedAfterPost, DecisionFailed
    <2>2. \/ stream' = stream
          \/ RestoreDone(i) /\ requests[i].fresh /\ Connect(requests[i].conv)
      BY <1>5 DEF Continued, RestoreDone, RestoreFailed, ActivitiesRefreshed, StateFetched,
             TerminalReloaded, PostAnswered, StopAnswered, ReloadedAfterPost, DecisionFailed,
             serverVars
    <2>3. ASSUME RestoreDone(i), requests[i].fresh, Connect(requests[i].conv), stream' # stream
          PROVE  PhaseMoves
      <3>1. requests[i].conv = active
        BY <2>3, SomeRequest
      <3>2. /\ stream[active].phase = "closed"
            /\ stream' = [d \in Conversations |-> IF d = active THEN Connecting ELSE Closed]
        BY <2>3, <3>1 DEF Connect
      <3>3. stream'[active].phase = "connecting"
        BY <1>0, <3>2 DEF Connecting
      <3> QED
        BY <2>3, <3>2, <3>3 DEF PhaseMoves
    <2> QED
      BY <1>1, <2>1, <2>2, <2>3
  <1>6. ASSUME NEW c \in Conversations, Subscribe(c) \/ Deliver(c) \/ LoseConnection(c)
        PROVE  active' = active /\ PhaseMoves
    <2>1. c = active /\ active' = active
      BY <1>6, SpeakingIsActive DEF Subscribe, Deliver, LoseConnection
    <2>2. CASE Subscribe(c)
      BY <1>0, <2>1, <2>2 DEF Subscribe, Subscribed, PhaseMoves
    <2>3. CASE LoseConnection(c)
      BY <1>0, <2>1, <2>3 DEF LoseConnection, Broken, PhaseMoves
    <2>4. CASE Deliver(c)
      <3> DEFINE q == Tail(stream[c].queue)
      <3>1. stream' = [stream EXCEPT ![c] = [stream[c] EXCEPT !.queue = q]]
        BY <2>4 DEF Deliver
      <3> HIDE DEF q
      <3>2. stream'[c] = [phase |-> stream[c].phase, queue |-> q]
        BY <3>1, QueueSet
      <3> QED
        BY <2>1, <3>2 DEF PhaseMoves
    <2> QED
      BY <1>6, <2>1, <2>2, <2>3, <2>4
  <1>7. ASSUME NEW c \in Conversations, StreamError(c)
        PROVE  StreamError(active)
    <2>1. c = active
      BY <1>7, SpeakingIsActive DEF StreamError
    <2> QED
      BY <1>7, <2>1
  <1>8. ASSUME ServerCrash
        PROVE  active' = active /\ PhaseMoves
    <2>1. /\ active' = active
          /\ stream'[active] = IF stream[active].phase = "closed" THEN Closed ELSE Broken
      BY <1>0, <1>8 DEF ServerCrash, Crash
    <2> QED
      BY <1>8, <2>1 DEF PhaseMoves, Closed, Broken
  <1>9. ASSUME \/ Submit \/ Stop \/ Decide \/ ToggleGroup \/ RetryActivities
               \/ ServerRestart \/ UNCHANGED vars
               \/ \E i \in DOMAIN requests : LoseRequest(i) \/ LoseActivities(i)
               \/ \E c \in Conversations : LateWrite(c)
        PROVE  active' = active /\ PhaseMoves
    <2>1. active' = active /\ stream' = stream
      BY <1>9, LateLeaves DEF Submit, Stop, Decide, ToggleGroup, RetryActivities, Issue, ServerRestart, Restart,
                  LoseRequest, LoseActivities, serverVars, vars
    <2> QED
      BY <1>1, <2>1
  <1>10. ASSUME NEW c \in Conversations, RunTask(c)
         PROVE  active' = active /\ PhaseMoves
    <2>1. TaskStep(c) /\ active' = active
      BY <1>10 DEF RunTask
    <2> QED
      BY <1>3, <2>1
  <1>11. Selectable \subseteq Conversations
    BY ClientAssumption
  <1> QED
    BY <1>4, <1>5, <1>6, <1>7, <1>8, <1>9, <1>10, <1>11 DEF Next, Streaming, User, Fault

\* A restoration that will have its effect is wanted.
LEMMA RestoresIs ==
    ASSUME NEW r, NEW c, Restores(r, c)
    PROVE  IsWanted(r) /\ r.ok /\ r.conv = c
  BY DEF Restores, Effective, HasEffect, Unguarded, IsWanted, Restoration

\* What has been missed, overwritten or told is so until the next restoration is sent.
LEMMA FlagsMove ==
    ASSUME [Next]_vars
    PROVE  \/ \E c \in Conversations : Select(c) \/ StreamError(c)
           \/ /\ missed => missed'
              /\ excused => excused'
              /\ told' = told \/ \E c \in Conversations : Deliver(c)
              /\ up' = up \/ ServerCrash \/ ServerRestart
  <1> DEFINE Goal ==
        /\ missed => missed'
        /\ excused => excused'
        /\ told' = told \/ \E c \in Conversations : Deliver(c)
        /\ up' = up \/ ServerCrash \/ ServerRestart
  <1>1. ASSUME NEW i \in DOMAIN requests, Handled(i)
        PROVE  Goal
    <2>1. CASE StopServed(i)
      <3>1. CancelTask(requests[i].conv)
        BY <2>1 DEF StopServed, InterruptRun, InterruptOther, InterruptFails
      <3>2. up' = up
        BY <3>1 DEF CancelTask
      <3>3. (missed => missed') /\ (excused => excused') /\ told' = told
        BY <2>1 DEF StopServed
      <3> QED
        BY <3>2, <3>3
    <2>2. CASE PostBegins(i)
      BY <2>2 DEF PostBegins, BeginRun, BeginRefused, serverVars
    <2>3. CASE PostStarts(i)
      BY <2>3 DEF PostStarts, StartTask, StartRefused
    <2>4. CASE DecisionServed(i)
      BY <2>4 DEF DecisionServed, DecideApproval, DecideRefused, serverVars
    <2>5. CASE StopRead(i) \/ \E part \in Parts[requests[i].kind] : Serve(i, part)
      BY <2>5 DEF StopRead, Serve, InterruptAccepted, InterruptRefused, serverVars
    <2> QED
      BY <1>1, <2>1, <2>2, <2>3, <2>4, <2>5 DEF Handled
  <1>2. ASSUME NEW i \in DOMAIN requests, Continued(i)
        PROVE  Goal
    <2>1. UNCHANGED <<missed, told, up>>
      BY <1>2 DEF Continued, RestoreDone, RestoreFailed, ActivitiesRefreshed, StateFetched,
                  TerminalReloaded, PostAnswered, StopAnswered, ReloadedAfterPost,
                  DecisionFailed, Apply, Ignore, serverVars
    <2>2. excused => excused'
      BY <1>2 DEF Continued, RestoreDone, RestoreFailed, ActivitiesRefreshed, StateFetched,
                  TerminalReloaded, PostAnswered, StopAnswered, ReloadedAfterPost,
                  DecisionFailed, Apply, Ignore, serverVars
    <2> QED
      BY <2>1, <2>2
  <1>3. ASSUME NEW c \in Conversations, RunTask(c)
        PROVE  Goal
    <2>1. up' = up
      BY <1>3 DEF RunTask, TaskStep, StartTurn, RequestTool, FinishTool, AwaitApproval,
                  CreateApproval, FinishDecision, CompleteRun, FailRun, Publish, EndTask, Write
    <2> QED
      BY <1>3, <2>1 DEF RunTask
  <1>4. ASSUME NEW c \in Conversations, Subscribe(c) \/ Deliver(c) \/ LoseConnection(c)
        PROVE  Goal
    <2>1. UNCHANGED <<missed, up>>
      BY <1>4 DEF Subscribe, Deliver, LoseConnection
    <2>2. excused => excused'
      BY <1>4 DEF Subscribe, Deliver, LoseConnection
    <2>3. told' = told \/ Deliver(c)
      BY <1>4 DEF Subscribe, LoseConnection
    <2> QED
      BY <2>1, <2>2, <2>3
  <1>5. ASSUME \/ Submit \/ Stop \/ Decide \/ ToggleGroup \/ RetryActivities
               \/ UNCHANGED vars
               \/ \E i \in DOMAIN requests : LoseRequest(i) \/ LoseActivities(i)
        PROVE  Goal
    <2>1. UNCHANGED <<missed, told, up>>
      BY <1>5 DEF Submit, Stop, Decide, ToggleGroup, RetryActivities, Issue,
                  LoseRequest, LoseActivities, serverVars, vars
    <2>2. excused => excused'
      BY <1>5 DEF Submit, Stop, Decide, ToggleGroup, RetryActivities, Issue,
                  LoseRequest, LoseActivities, serverVars, vars
    <2> QED
      BY <2>1, <2>2
  <1>6. ASSUME ServerCrash \/ ServerRestart
        PROVE  Goal
    <2>1. missed => missed'
      BY <1>6 DEF ServerCrash, ServerRestart
    <2>2. excused => excused'
      BY <1>6 DEF ServerCrash, ServerRestart
    <2>3. told' = told
      BY <1>6 DEF ServerCrash, ServerRestart
    <2> QED
      BY <1>6, <2>1, <2>2, <2>3
  <1>7. ASSUME NEW c \in Conversations, LateWrite(c)
        PROVE  Goal
    <2>1. excused => excused'
      BY <1>7 DEF LateWrite
    <2> QED
      BY <1>7, <2>1, LateLeaves
  <1>8. Selectable \subseteq Conversations
    BY ClientAssumption
  <1> HIDE DEF Goal
  <1>9. Goal \/ \E c \in Conversations : Select(c) \/ StreamError(c)
    BY <1>1, <1>2, <1>3, <1>4, <1>5, <1>6, <1>7, <1>8 DEF Next, Streaming, User, Fault
  <1> QED
    BY <1>9 DEF Goal

\* While the page is told, or a restoration is on its way, the process is up.
LEMMA CleanIsUp ==
    ASSUME ServerInv, ClientInv, ViewInv, ConnectionInv, [Next]_vars
    PROVE  Clean' => up'
  <1> SUFFICES ASSUME Clean'
               PROVE  up'
    OBVIOUS
  <1>1. ClientInv' /\ active \in Conversations
    BY ClientInvStep DEF ClientInv
  <1>2. PICK j \in DOMAIN requests' \union {0} :
          \/ stream'[active'].phase \in {"connecting", "open"}
          \/ /\ j \in DOMAIN requests'
             /\ IsWanted(requests'[j]) /\ requests'[j].ok /\ requests'[j].conv = active'
    BY RestoresIs DEF Clean, Watching
  <1>3. CASE \E c \in Conversations : Select(c)
    <2>1. stream'[active'].phase = "closed" /\ up' = up
      BY <1>1, <1>3 DEF Select, CloseStream, Closed, ClientInv
    <2>2. requests'[j].ok = up
      <3>1. \A k \in DOMAIN requests' : IsWanted(requests'[k]) => requests'[k].ok = up
        <4>1. PICK c \in Conversations : Select(c)
          BY <1>3
        <4> DEFINE q == Request("restore", c, 0)
        <4>2. /\ \A k \in DOMAIN requests : ~requests'[k].fresh
              /\ \A k \in DOMAIN requests' : k \in DOMAIN requests \/ requests'[k] = q
          BY <4>1, SelectedRequests DEF Sized
        <4>3. q.ok = up
          BY DEF Request
        <4> HIDE DEF q
        <4> QED
          BY <4>2, <4>3 DEF IsWanted
      <3> QED
        BY <1>2, <2>1, <3>1
    <2> QED
      BY <1>2, <2>1, <2>2
  <1>4. CASE StreamError(active)
    <2>1. ~missed' /\ up' = up /\ active' = active
      BY <1>4 DEF Clean, StreamError
    <2>2. ~Reconnecting /\ stream'[active].phase = "closed" /\ stream[active].phase # "closed"
      BY <1>1, <1>4, <2>1 DEF StreamError, CloseStream, Closed
    <2>3. j \in DOMAIN requests' /\ IsWanted(requests'[j]) /\ requests'[j].ok
      BY <1>2, <2>1, <2>2
    <2>4. ~\E k \in DOMAIN requests : IsWanted(requests[k])
      BY <2>2 DEF ConnectionInv
    <2> QED
      BY <2>1, <2>3, <2>4, RestorationsMove DEF WantedMoves
  <1>5. ASSUME active' = active, PhaseMoves, ~\E c \in Conversations : Select(c), ~StreamError(active)
        PROVE  up'
    <2>1. ~\E c \in Conversations : StreamError(c)
      BY <1>5, SpeakingIsActive DEF StreamError
    <2>2. ~missed /\ ~excused /\ (up' = up \/ ServerCrash \/ ServerRestart)
      BY <1>5, <2>1, FlagsMove DEF Clean
    <2>3. j \in DOMAIN requests' /\ IsWanted(requests'[j]) /\ requests'[j].ok
            /\ requests'[j].conv = active =>
          \E k \in DOMAIN requests : Restores(requests[k], active)
      BY <1>5, RestorationsMove
      DEF WantedMoves, IsWanted, Restores, Effective, HasEffect
    <2>4. \A k \in DOMAIN requests : Restores(requests[k], active) => stream[active].phase = "closed"
      BY RestoresIs DEF ConnectionInv
    <2>5. ServerCrash => missed' \/ stream[active].phase # "closed"
      BY DEF ServerCrash
    <2>6. ServerCrash => stream'[active].phase \in {"closed", "broken"}
      BY <1>1 DEF ServerCrash, Crash, Closed, Broken
    <2>7. ~ServerCrash
      BY <1>2, <1>5, <2>3, <2>4, <2>5, <2>6 DEF Clean
    <2>8. CASE ServerRestart
      BY <2>8 DEF ServerRestart, Restart
    <2>9. CASE up' = up
      <3>1. \A i \in DOMAIN requests : RestoreDone(i) /\ requests[i].fresh =>
              Restores(requests[i], active)
        BY SomeRequest DEF RestoreDone, IsDone, Restores, Effective, HasEffect, Restoration
      <3>2. Watching
        BY <1>2, <1>5, <2>3, <2>7, <3>1 DEF Watching, PhaseMoves
      <3> QED
        BY <2>2, <2>9, <3>2 DEF Clean, ConnectionInv
    <2> QED
      BY <2>2, <2>7, <2>8, <2>9
  <1> QED
    BY <1>3, <1>4, <1>5, PhasesMove

\* Every step.
LEMMA ConnectionInvStep ==
    ASSUME ServerInv, ClientInv, ViewInv, ConnectionInv, [Next]_vars
    PROVE  ConnectionInv'
  <1>1. ClientInv' /\ active \in Conversations
    BY ClientInvStep DEF ClientInv
  <1>2. \A d \in Conversations : RunsRipen(runs[d], runs'[d])
    BY Ripened
  <1>3. ASSUME NEW c \in Conversations, Select(c) \/ (StreamError(c) /\ c = active)
        PROVE  /\ told' = 0 /\ active' = c /\ up' = up
               /\ Select(c) \/ ~Reconnecting => stream'[c].phase = "closed"
               /\ StreamError(c) => \/ stream'[c].phase \in {"closed", "connecting"}
    BY <1>1, <1>3 DEF Select, StreamError, CloseStream, Closed, Connecting, ClientInv
  <1>4. OneWanted(requests')
    <2>1. WantedMoves
      BY RestorationsMove
    <2> QED
      BY <2>1 DEF WantedMoves, OneWanted
  <1>5. ASSUME NEW j \in DOMAIN requests', IsWanted(requests'[j])
        PROVE  stream'[active'].phase = "closed"
    <2>1. CASE \E c \in Conversations : Select(c)
      BY <1>3, <2>1
    <2>2. CASE StreamError(active) /\ ~Reconnecting
      BY <1>1, <1>3, <2>2
    <2>3. CASE /\ ~\E c \in Conversations : Select(c)
               /\ ~(StreamError(active) /\ ~Reconnecting)
      <3>1. stream[active].phase = "closed" /\ \E k \in DOMAIN requests : IsWanted(requests[k])
        BY <1>5, <2>3, RestorationsMove DEF WantedMoves, ConnectionInv
      <3>2. active' = active /\ PhaseMoves
        BY <2>3, <3>1, PhasesMove DEF StreamError
      <3>3. ASSUME NEW i \in DOMAIN requests, RestoreDone(i), requests[i].fresh
            PROVE  FALSE
        <4> DEFINE u == RemoveAt(requests, i)
                   q == Next1(i, "activities")
        <4>1. requests' = Append(u, q)
          BY <3>3 DEF RestoreDone, Without
        <4>2. IsWanted(requests[i])
          BY <3>3 DEF RestoreDone, IsWanted, Restoration
        <4>3. Removed(requests, u, i) /\ AreRequests(u, active)
          BY PlaceByPlace, RemoveRequest DEF ClientInv
        <4>4. Added(u, requests', q)
          BY <4>1, <4>3, PlaceByPlace
        <4>5. q.kind = "activities"
          BY DEF Next1, Request
        <4> HIDE DEF u, q
        <4>6. j \in DOMAIN u /\ requests'[j] = u[j]
          BY <1>5, <4>4, <4>5 DEF Added, Sized, IsWanted, Restoration
        <4>7. \E k \in DOMAIN requests : k # i /\ u[j] = requests[k]
          <5> DEFINE k == IF j < i THEN j ELSE j + 1
          <5>1. k \in DOMAIN requests /\ k # i /\ u[j] = requests[k]
            BY <4>3, <4>6 DEF Removed, Sized
          <5> QED
            BY <5>1
        <4> QED
          BY <1>5, <4>2, <4>6, <4>7 DEF ConnectionInv, OneWanted
      <3> QED
        BY <3>1, <3>2, <3>3 DEF PhaseMoves
    <2> QED
      BY <2>1, <2>2, <2>3
  <1>6. ASSUME ~up', NEW c \in Conversations
        PROVE  stream'[c].phase # "open"
    <2>1. CASE c # active'
      BY <1>1, <2>1 DEF ClientInv, StreamFollowsSelection
    <2>2. CASE \E d \in Conversations : Select(d) \/ (StreamError(d) /\ d = active)
      BY <1>3, <2>1, <2>2
    <2>3. CASE active' = active /\ PhaseMoves /\ c = active
               /\ ~\E d \in Conversations : Select(d) \/ (StreamError(d) /\ d = active)
      <3>1. ~\E d \in Conversations : Select(d) \/ StreamError(d)
        BY <2>3, SpeakingIsActive DEF StreamError
      <3>2. up' = up \/ ServerCrash
        BY <1>6, <3>1, FlagsMove DEF ServerRestart, Restart
      <3>3. ServerCrash => stream'[c].phase # "open"
        BY <1>1, <2>3 DEF ServerCrash, Crash, Closed, Broken
      <3>4. ~up => stream[active].phase # "open"
        BY <1>1 DEF ConnectionInv
      <3> QED
        BY <1>6, <2>3, <3>2, <3>3, <3>4 DEF PhaseMoves
    <2> QED
      BY <1>1, <2>1, <2>2, <2>3, PhasesMove
  <1>7. stream'[active'].phase \in {"closed", "connecting"} => told' = 0
    <2>1. CASE \E d \in Conversations : Select(d) \/ (StreamError(d) /\ d = active)
      BY <1>3, <2>1
    <2>2. CASE active' = active /\ PhaseMoves
               /\ ~\E d \in Conversations : Select(d) \/ (StreamError(d) /\ d = active)
      <3>1. ~\E d \in Conversations : Select(d) \/ StreamError(d)
        BY <2>2, SpeakingIsActive DEF StreamError
      <3>2. \A d \in Conversations : Deliver(d) => stream'[active].phase = "open"
        <4> SUFFICES ASSUME NEW d \in Conversations, Deliver(d)
                     PROVE  stream'[active].phase = "open"
          OBVIOUS
        <4> DEFINE q == Tail(stream[d].queue)
        <4>1. stream' = [stream EXCEPT ![d] = [stream[d] EXCEPT !.queue = q]]
          BY DEF Deliver
        <4> HIDE DEF q
        <4>2. stream'[d] = [phase |-> stream[d].phase, queue |-> q]
          BY <4>1, QueueSet
        <4> QED
          BY <4>2, SpeakingIsActive DEF Deliver
      <3>3. told' = told \/ \E d \in Conversations : Deliver(d)
        BY <3>1, FlagsMove
      <3>4. stream[active].phase \in {"closed", "connecting"} => told = 0
        BY DEF ConnectionInv
      <3> QED
        BY <2>2, <3>2, <3>3, <3>4 DEF PhaseMoves
    <2> QED
      BY <1>1, <2>1, <2>2, PhasesMove
  <1>8. told' # 0 => /\ told' \in DOMAIN runs'[active']
                     /\ runs'[active'][told'].status \in TerminalStatuses
    <2>1. CASE \E d \in Conversations : Select(d) \/ (StreamError(d) /\ d = active)
      BY <1>3, <2>1
    <2>2. CASE active' = active
               /\ ~\E d \in Conversations : Select(d) \/ (StreamError(d) /\ d = active)
      <3>1. ~\E d \in Conversations : Select(d) \/ StreamError(d)
        BY <2>2, SpeakingIsActive DEF StreamError
      <3>2. told # 0 => /\ told \in DOMAIN runs[active]
                        /\ runs[active][told].status \in TerminalStatuses
        BY DEF ConnectionInv
      <3>3. ASSUME NEW d \in Conversations, Deliver(d), told' # told
            PROVE  /\ told' \in DOMAIN runs[active]
                   /\ runs[active][told'].status \in TerminalStatuses
        <4> DEFINE e == Head(stream[d].queue)
        <4>1. told' = e.run /\ IsEnd(e.type) /\ stream[d].queue # <<>> /\ stream[d].phase = "open"
          BY <3>3 DEF Deliver
        <4>2. d = active
          BY <4>1, SpeakingIsActive
        <4>3. EventTrue(runs[active], e)
          BY <4>1, <4>2, QueueParts DEF ViewInv, ConnectionTrue
        <4> HIDE DEF e
        <4> QED
          BY <4>1, <4>3 DEF EventTrue, IsEnd, TerminalStatuses
      <3>4. told' = told \/ \E d \in Conversations : Deliver(d)
        BY <3>1, FlagsMove
      <3>5. told' # 0 => /\ told' \in DOMAIN runs[active]
                         /\ runs[active][told'].status \in TerminalStatuses
        BY <3>2, <3>3, <3>4
      <3> QED
        BY <1>1, <1>2, <2>2, <3>5 DEF RunsRipen, Ripens
    <2> QED
      BY <1>1, <2>1, <2>2, PhasesMove
  <1>9. Clean' => up'
    BY CleanIsUp
  <1> QED
    BY <1>4, <1>5, <1>6, <1>7, <1>8, <1>9 DEF ConnectionInv

-----------------------------------------------------------------------------
(* What is on its way stays on its way when requests join, leave and change. *)

NoneBrings(reqs, c, part) == \A i \in DOMAIN reqs : ~Brings(reqs[i], c, part)

\* In these terms.
LEMMA AwaitedIs ==
    \A reqs, c, part, value, shown :
      Awaited(reqs, c, part, value, shown) <=>
        LastBrings(reqs, c, part, value) \/ (shown /\ NoneBrings(reqs, c, part))
  BY DEF Awaited, NoneBrings

(* All that a request is in the invariant for: it brings nothing, has begun *)
(* nothing and has stopped nothing.                                         *)
Idle(r, c) ==
  /\ ~Begins(r, c)
  /\ ~StopIsServed(r, c)
  /\ Effective(r, c) => Parts[r.kind] = {}

\* Such a request is not missed.
LEMMA IdleBringsNothing ==
    ASSUME NEW r, NEW c, Idle(r, c)
    PROVE  /\ \A part : ~Brings(r, c, part)
           /\ ~Restores(r, c)
           /\ ~(Effective(r, c) /\ r.kind = "activities")
           /\ \A n, activity : ~BringsActivity(r, c, n, activity)
           /\ \A m : ~BringsMessage(r, c, m)
           /\ ~(IsBegun(r) /\ r.conv = c)
  <1>1. Effective(r, c) => r.kind \notin Restoration \union {"terminal", "activities"}
    BY DEF Idle, Parts, Restoration
  <1>2. \A part : ~Brings(r, c, part)
    BY DEF Idle, Brings
  <1>3. ~Begins(r, c)
    BY DEF Idle
  <1> QED
    BY <1>1, <1>2, <1>3 DEF Restores, BringsActivity, BringsMessage, IsBegun, Begins

\* A request that has got nothing yet joins.
LEMMA AddedOnward ==
    ASSUME NEW s, NEW u, NEW q, Added(s, u, q), q.got = <<>>, ~Fails(q)
    PROVE  /\ \A c, rs, t, qu, v :
                CatchesUp(c, rs, t, qu, s, v) => CatchesUp(c, rs, t, qu, u, v)
           /\ \A c, rs, v, n :
                ActivityAwaited(c, rs, s, v, n) => ActivityAwaited(c, rs, u, v, n)
  <1>1. /\ \A i \in DOMAIN s : i \in DOMAIN u /\ u[i] = s[i] /\ i < Len(u)
        /\ Len(u) \in DOMAIN u /\ u[Len(u)] = q /\ DOMAIN u \subseteq Nat
        /\ \A i \in DOMAIN u : i = Len(u) \/ i \in DOMAIN s
        /\ \A i \in DOMAIN u : ~(i > Len(u))
    BY DEF Added, Sized
  <1>2. \A part : part \notin DOMAIN q.got
    OBVIOUS
  <1>3. ASSUME NEW c, NEW part, NEW value
        PROVE  /\ LastBrings(s, c, part, value) => LastBrings(u, c, part, value)
               /\ NoneBrings(s, c, part) =>
                    NoneBrings(u, c, part) \/ LastBrings(u, c, part, value)
    <2>1. CASE Brings(q, c, part)
      BY <1>1, <1>2, <2>1 DEF LastBrings
    <2>2. CASE ~Brings(q, c, part)
      BY <1>1, <2>2 DEF LastBrings, NoneBrings
    <2> QED
      BY <2>1, <2>2
  <1>4. ASSUME NEW c, NEW rs, NEW v, NEW n, ActivityAwaited(c, rs, s, v, n)
        PROVE  ActivityAwaited(c, rs, u, v, n)
    BY <1>1, <1>4 DEF ActivityAwaited
  <1>5. ASSUME NEW c, NEW rs, NEW t, NEW qu, NEW v, CatchesUp(c, rs, t, qu, s, v)
        PROVE  CatchesUp(c, rs, t, qu, u, v)
    <2>1. StateCatchesUp(c, rs, t, qu, u, v)
      <3>1. StateUnderway(c, rs, t, qu, s) => StateUnderway(c, rs, t, qu, u)
        BY <1>1 DEF StateUnderway
      <3> QED
        BY <1>3, <1>5, <3>1, AwaitedIs DEF CatchesUp, StateCatchesUp
    <2>2. RunsCatchUp(c, rs, t, qu, u, v)
      <3>1. RunsUnderway(c, rs, t, qu, s) => RunsUnderway(c, rs, t, qu, u)
        BY <1>1 DEF RunsUnderway
      <3> QED
        BY <1>3, <1>5, <3>1, AwaitedIs DEF CatchesUp, RunsCatchUp
    <2>3. MessagesCatchUp(c, rs, t, qu, u, v)
      BY <1>1, <1>5 DEF CatchesUp, MessagesCatchUp
    <2>4. ActivitiesCatchUp(c, rs, t, qu, u, v)
      BY <1>4, <1>5 DEF CatchesUp, ActivitiesCatchUp
    <2>5. ErrorsPass(c, u, v)
      BY <1>1, <1>5 DEF CatchesUp, ErrorsPass
    <2> QED
      BY <1>5, <2>1, <2>2, <2>3, <2>4, <2>5 DEF CatchesUp
  <1> QED
    BY <1>4, <1>5

\* Places after a removal.
LEMMA RemovedPlaces ==
    ASSUME NEW s, NEW u, NEW i, Removed(s, u, i)
    PROVE  /\ \A k \in DOMAIN s \ {i} : LET j == IF k < i THEN k ELSE k - 1 IN
                j \in DOMAIN u /\ u[j] = s[k]
           /\ \A j \in DOMAIN u : LET k == IF j < i THEN j ELSE j + 1 IN
                k \in DOMAIN s \ {i} /\ u[j] = s[k]
  BY DEF Removed, Sized

\* What other requests bring is brought in the same order.
LEMMA RemovedBrings ==
    ASSUME NEW s, NEW u, NEW i, Removed(s, u, i)
    PROVE  /\ \A k \in DOMAIN s \ {i} : \E j \in DOMAIN u : u[j] = s[k]
           /\ \A j \in DOMAIN u : \E k \in DOMAIN s \ {i} : u[j] = s[k]
           /\ \A c, part, value : \A k \in DOMAIN s \ {i} :
                /\ Brings(s[k], c, part)
                /\ \A j \in DOMAIN s \ {i} : j > k => ~Brings(s[j], c, part)
                /\ part \in DOMAIN s[k].got => s[k].got[part] = value
                => LastBrings(u, c, part, value)
           /\ \A c : \A k \in DOMAIN s \ {i} :
                /\ Restores(s[k], c)
                /\ \A j \in DOMAIN s \ {i} : j > k => ~Fails(s[j])
                => \E l \in DOMAIN u : Restores(u[l], c) /\ \A j \in DOMAIN u : j > l => ~Fails(u[j])
  <1> DEFINE p(k) == IF k < i THEN k ELSE k - 1
             o(j) == IF j < i THEN j ELSE j + 1
  <1>1. /\ \A k \in DOMAIN s \ {i} : p(k) \in DOMAIN u /\ u[p(k)] = s[k]
        /\ \A j \in DOMAIN u : o(j) \in DOMAIN s \ {i} /\ u[j] = s[o(j)]
    BY RemovedPlaces
  <1>2. \A k \in DOMAIN s \ {i} : \A j \in DOMAIN u : j > p(k) => o(j) > k
    BY DEF Removed, Sized
  <1> HIDE DEF p, o
  <1>3. ASSUME NEW c, NEW part, NEW value, NEW k \in DOMAIN s \ {i},
               Brings(s[k], c, part),
               \A j \in DOMAIN s \ {i} : j > k => ~Brings(s[j], c, part),
               part \in DOMAIN s[k].got => s[k].got[part] = value
        PROVE  LastBrings(u, c, part, value)
    BY <1>1, <1>2, <1>3 DEF LastBrings
  <1>4. ASSUME NEW c, NEW k \in DOMAIN s \ {i}, Restores(s[k], c),
               \A j \in DOMAIN s \ {i} : j > k => ~Fails(s[j])
        PROVE  \E l \in DOMAIN u : Restores(u[l], c) /\ \A j \in DOMAIN u : j > l => ~Fails(u[j])
    BY <1>1, <1>2, <1>4
  <1> QED
    BY <1>1, <1>3, <1>4

\* An idle request leaves.
LEMMA RemovedOnward ==
    ASSUME NEW s, NEW u, NEW i, Removed(s, u, i), NEW c, Idle(s[i], c)
    PROVE  /\ \A rs, t, qu, v :
                CatchesUp(c, rs, t, qu, s, v) => CatchesUp(c, rs, t, qu, u, v)
           /\ \A rs, v, n :
                ActivityAwaited(c, rs, s, v, n) => ActivityAwaited(c, rs, u, v, n)
  <1>0. /\ i \in DOMAIN s
        /\ \A part : ~Brings(s[i], c, part)
        /\ ~Restores(s[i], c)
        /\ ~(Effective(s[i], c) /\ s[i].kind = "activities")
        /\ \A n, activity : ~BringsActivity(s[i], c, n, activity)
        /\ \A m : ~BringsMessage(s[i], c, m)
        /\ ~(IsBegun(s[i]) /\ s[i].conv = c)
        /\ ~Begins(s[i], c) /\ ~StopIsServed(s[i], c)
    BY IdleBringsNothing DEF Removed, Idle
  <1>1. /\ \A k \in DOMAIN s \ {i} : \E j \in DOMAIN u : u[j] = s[k]
        /\ \A j \in DOMAIN u : \E k \in DOMAIN s \ {i} : u[j] = s[k]
    BY RemovedBrings
  <1>3. ASSUME NEW part, NEW value
        PROVE  /\ LastBrings(s, c, part, value) => LastBrings(u, c, part, value)
               /\ NoneBrings(s, c, part) => NoneBrings(u, c, part)
    <2>1. NoneBrings(s, c, part) => NoneBrings(u, c, part)
      BY <1>1 DEF NoneBrings
    <2>2. ASSUME LastBrings(s, c, part, value)
          PROVE  LastBrings(u, c, part, value)
      <3>1. PICK k \in DOMAIN s : /\ Brings(s[k], c, part)
                                  /\ \A j \in DOMAIN s : j > k => ~Brings(s[j], c, part)
                                  /\ part \in DOMAIN s[k].got => s[k].got[part] = value
        BY <2>2 DEF LastBrings
      <3>2. k \in DOMAIN s \ {i}
        BY <1>0, <3>1
      <3> QED
        BY <3>1, <3>2, RemovedBrings
    <2> QED
      BY <2>1, <2>2
  <1>4. ASSUME NEW rs, NEW v, NEW n, ActivityAwaited(c, rs, s, v, n)
        PROVE  ActivityAwaited(c, rs, u, v, n)
    BY <1>0, <1>1, <1>4 DEF ActivityAwaited
  <1>5. ASSUME NEW rs, NEW t, NEW qu, NEW v, CatchesUp(c, rs, t, qu, s, v)
        PROVE  CatchesUp(c, rs, t, qu, u, v)
    <2>1. StateCatchesUp(c, rs, t, qu, u, v)
      <3>1. StateUnderway(c, rs, t, qu, s) => StateUnderway(c, rs, t, qu, u)
        BY <1>0, <1>1 DEF StateUnderway
      <3> QED
        BY <1>3, <1>5, <3>1, AwaitedIs DEF CatchesUp, StateCatchesUp
    <2>2. RunsCatchUp(c, rs, t, qu, u, v)
      <3>1. RunsUnderway(c, rs, t, qu, s) => RunsUnderway(c, rs, t, qu, u)
        BY <1>0, <1>1 DEF RunsUnderway
      <3> QED
        BY <1>3, <1>5, <3>1, AwaitedIs DEF CatchesUp, RunsCatchUp
    <2>3. MessagesCatchUp(c, rs, t, qu, u, v)
      BY <1>0, <1>1, <1>5 DEF CatchesUp, MessagesCatchUp
    <2>4. ActivitiesCatchUp(c, rs, t, qu, u, v)
      BY <1>4, <1>5 DEF CatchesUp, ActivitiesCatchUp
    <2>5. ErrorsPass(c, u, v)
      <3>1. CASE \E k \in DOMAIN s : Restores(s[k], c) /\ \A j \in DOMAIN s : j > k => ~Fails(s[j])
        <4>1. PICK k \in DOMAIN s \ {i} :
                Restores(s[k], c) /\ \A j \in DOMAIN s : j > k => ~Fails(s[j])
          BY <1>0, <3>1
        <4>2. \E l \in DOMAIN u : Restores(u[l], c) /\ \A j \in DOMAIN u : j > l => ~Fails(u[j])
          BY <4>1, RemovedBrings
        <4> QED
          BY <4>2 DEF ErrorsPass
      <3>2. CASE /\ ~v.error
                 /\ \A k \in DOMAIN s : ~Fails(s[k])
                 /\ v.activitiesError =>
                      \E k \in DOMAIN s : Effective(s[k], c) /\ s[k].kind = "activities"
        BY <1>0, <1>1, <3>2 DEF ErrorsPass
      <3> QED
        BY <1>5, <3>1, <3>2 DEF CatchesUp, ErrorsPass
    <2> QED
      BY <1>5, <2>1, <2>2, <2>3, <2>4, <2>5 DEF CatchesUp
  <1> QED
    BY <1>4, <1>5

(* A request that moves on brings what it did, or what is so now.         *)
Carries(r, q, c, rs, t) ==
  /\ q.kind = r.kind
  /\ Effective(q, c) <=> Effective(r, c)
  /\ Begins(r, c) => Begins(q, c) /\ q.session = r.session
  /\ StopIsServed(r, c) => StopIsServed(q, c)
  /\ IsBegun(r) /\ r.conv = c /\ IsActive(rs[r.session]) => (IsBegun(q) /\ q.conv = c) \/ Moving(rs, t)
  /\ Fails(q) => Fails(r)
  /\ \A part \in DOMAIN q.got \intersect Parts[r.kind] : Effective(r, c) =>
       \/ part \in DOMAIN r.got /\ q.got[part] = r.got[part]
       \/ q.got[part] = Answer(rs, part)

\* One changes.
LEMMA ChangedOnward ==
    ASSUME NEW s, NEW u, NEW i, NEW q, Changed(s, u, i, q),
           NEW c, NEW rs, NEW t, Carries(s[i], q, c, rs, t)
    PROVE  /\ \A qu, v : CatchesUp(c, rs, t, qu, s, v) => CatchesUp(c, rs, t, qu, u, v)
           /\ \A v : \A n \in DOMAIN ActivityList(rs) :
                ActivityAwaited(c, rs, s, v, n) => ActivityAwaited(c, rs, u, v, n)
  <1>1. /\ i \in DOMAIN s /\ DOMAIN u = DOMAIN s
        /\ u[i] = q /\ \A k \in DOMAIN s : k # i => u[k] = s[k]
    BY DEF Changed, Sized
  <1>2. \A part : Brings(q, c, part) <=> Brings(s[i], c, part)
    BY DEF Carries, Brings
  <1>3. \A part : Brings(q, c, part) /\ part \in DOMAIN q.got =>
          \/ part \in DOMAIN s[i].got /\ q.got[part] = s[i].got[part]
          \/ q.got[part] = Answer(rs, part)
    BY DEF Carries, Brings
  <1>4. ASSUME NEW part, NEW value, Answer(rs, part) = value
        PROVE  /\ LastBrings(s, c, part, value) => LastBrings(u, c, part, value)
               /\ NoneBrings(s, c, part) => NoneBrings(u, c, part)
    BY <1>1, <1>2, <1>3, <1>4 DEF LastBrings, NoneBrings
  <1>5. ASSUME NEW v, NEW n \in DOMAIN ActivityList(rs), ActivityAwaited(c, rs, s, v, n)
        PROVE  ActivityAwaited(c, rs, u, v, n)
    <2>1. BringsActivity(s[i], c, n, rs[n].activity) => BringsActivity(q, c, n, rs[n].activity)
      <3> SUFFICES ASSUME BringsActivity(s[i], c, n, rs[n].activity)
                   PROVE  BringsActivity(q, c, n, rs[n].activity)
        OBVIOUS
      <3>1. Effective(q, c) /\ q.kind = s[i].kind
        BY DEF BringsActivity, Carries
      <3>2. Answer(rs, "activities") = ActivityList(rs)
        BY DEF Answer
      <3>3. n \in DOMAIN ActivityList(rs) /\ ActivityList(rs)[n] = rs[n].activity
        BY DEF ActivityList
      <3>4. CASE s[i].kind \in Restoration \union {"terminal"}
        BY <3>1, <3>4 DEF BringsActivity
      <3>5. CASE s[i].kind = "activities"
        <4>1. Brings(q, c, "activities")
          BY <3>1, <3>5 DEF Brings, Parts
        <4>2. s[i].kind \notin Restoration \union {"terminal"}
          BY <3>5 DEF Restoration
        <4> QED
          BY <1>3, <3>1, <3>2, <3>3, <3>5, <4>1, <4>2 DEF BringsActivity
      <3> QED
        BY <3>4, <3>5 DEF BringsActivity
    <2> QED
      BY <1>1, <1>5, <2>1 DEF ActivityAwaited
  <1>6. ASSUME NEW qu, NEW v, CatchesUp(c, rs, t, qu, s, v)
        PROVE  CatchesUp(c, rs, t, qu, u, v)
    <2>1. StateCatchesUp(c, rs, t, qu, u, v)
      <3>1. ASSUME StateUnderway(c, rs, t, qu, s)
            PROVE  StateUnderway(c, rs, t, qu, u)
        <4>1. CASE \E k \in DOMAIN s :
                     IsBegun(s[k]) /\ s[k].conv = c /\ IsActive(rs[s[k].session])
          <5>1. PICK k \in DOMAIN s :
                     IsBegun(s[k]) /\ s[k].conv = c /\ IsActive(rs[s[k].session])
            BY <4>1
          <5>2. CASE k # i
            BY <1>1, <5>1, <5>2 DEF StateUnderway
          <5>3. CASE k = i
            <6>1. Begins(s[i], c)
              BY <5>1, <5>3 DEF IsBegun, Begins
            <6> QED
              BY <1>1, <5>1, <5>3, <6>1 DEF StateUnderway, Carries
          <5> QED
            BY <5>2, <5>3
        <4>2. CASE \E k \in DOMAIN s : StopIsServed(s[k], c)
          BY <1>1, <4>2 DEF StateUnderway, Carries
        <4> QED
          BY <3>1, <4>1, <4>2 DEF StateUnderway
      <3>2. Answer(rs, "state") = ConversationState(rs)
        BY DEF Answer
      <3> QED
        BY <1>4, <1>6, <3>1, <3>2, AwaitedIs DEF CatchesUp, StateCatchesUp
    <2>2. RunsCatchUp(c, rs, t, qu, u, v)
      <3>1. RunsUnderway(c, rs, t, qu, s) => RunsUnderway(c, rs, t, qu, u)
        BY <1>1 DEF RunsUnderway, Carries
      <3>2. Answer(rs, "runs") = RunList(rs)
        BY DEF Answer
      <3> QED
        BY <1>4, <1>6, <3>1, <3>2, AwaitedIs DEF CatchesUp, RunsCatchUp
    <2>3. MessagesCatchUp(c, rs, t, qu, u, v)
      <3>1. ASSUME NEW m \in Messages(rs), BringsMessage(s[i], c, m)
            PROVE  BringsMessage(q, c, m)
        <4>1. Answer(rs, "messages") = Messages(rs)
          BY DEF Answer
        <4>2. CASE Begins(s[i], c) /\ m.role = "user" /\ s[i].session = m.run
          BY <4>2 DEF BringsMessage, Carries
        <4>3. CASE /\ Brings(s[i], c, "messages")
                   /\ "messages" \in DOMAIN s[i].got => m \in s[i].got["messages"]
          BY <1>2, <1>3, <3>1, <4>1, <4>3 DEF BringsMessage
        <4> QED
          BY <3>1, <4>2, <4>3 DEF BringsMessage
      <3> QED
        BY <1>1, <1>6, <3>1 DEF CatchesUp, MessagesCatchUp
    <2>4. ActivitiesCatchUp(c, rs, t, qu, u, v)
      BY <1>5, <1>6 DEF CatchesUp, ActivitiesCatchUp
    <2>5. ErrorsPass(c, u, v)
      <3>1. Restores(s[i], c) => Restores(q, c)
        BY DEF Restores, Carries
      <3>2. \A k \in DOMAIN s : Fails(u[k]) => Fails(s[k])
        BY <1>1 DEF Carries
      <3>3. \A k \in DOMAIN s : Restores(s[k], c) => Restores(u[k], c)
        BY <1>1, <3>1
      <3>4. \A k \in DOMAIN s : Effective(s[k], c) /\ s[k].kind = "activities" =>
              Effective(u[k], c) /\ u[k].kind = "activities"
        BY <1>1 DEF Carries
      <3> QED
        BY <1>1, <1>6, <3>2, <3>3, <3>4 DEF CatchesUp, ErrorsPass
    <2> QED
      BY <1>6, <2>1, <2>2, <2>3, <2>4, <2>5 DEF CatchesUp
  <1> QED
    BY <1>5, <1>6

\* The page is told again when a restoration is sent, and only then.
LEMMA CleanMoves ==
    ASSUME ServerInv, ClientInv, ViewInv, ConnectionInv, [Next]_vars, Clean'
    PROVE  \/ Clean /\ active' = active /\ ~\E c \in Conversations : StreamError(c)
           \/ \E c \in Conversations : Select(c)
           \/ StreamError(active) /\ ~Reconnecting
  <1>1. ClientInv' /\ active \in Conversations
    BY ClientInvStep DEF ClientInv
  <1>2. PICK j \in DOMAIN requests' \union {0} :
          \/ stream'[active'].phase \in {"connecting", "open"}
          \/ /\ j \in DOMAIN requests'
             /\ IsWanted(requests'[j]) /\ requests'[j].ok /\ requests'[j].conv = active'
    BY RestoresIs DEF Clean, Watching
  <1>3. ASSUME active' = active, PhaseMoves, ~\E c \in Conversations : Select(c), ~StreamError(active)
        PROVE  Clean /\ ~\E c \in Conversations : StreamError(c)
    <2>1. ~\E c \in Conversations : StreamError(c)
      BY <1>3, SpeakingIsActive DEF StreamError
    <2>2. ~missed /\ ~excused
      BY <1>3, <2>1, FlagsMove DEF Clean
    <2>3. j \in DOMAIN requests' /\ IsWanted(requests'[j]) /\ requests'[j].ok
            /\ requests'[j].conv = active =>
          \E k \in DOMAIN requests : Restores(requests[k], active)
      BY <1>3, RestorationsMove
      DEF WantedMoves, IsWanted, Restores, Effective, HasEffect
    <2>4. \A i \in DOMAIN requests : RestoreDone(i) /\ requests[i].fresh =>
            Restores(requests[i], active)
      BY SomeRequest DEF RestoreDone, IsDone, Restores, Effective, HasEffect, Restoration
    <2>5. Watching \/ ServerCrash
      BY <1>2, <1>3, <2>3, <2>4 DEF Watching, PhaseMoves
    <2>6. ~ServerCrash
      <3>1. ServerCrash => ~up'
        BY DEF ServerCrash, Crash
      <3> QED
        BY <3>1, CleanIsUp
    <2> QED
      BY <2>1, <2>2, <2>5, <2>6 DEF Clean
  <1>4. CASE StreamError(active)
    <2>1. Reconnecting => missed'
      BY <1>4 DEF StreamError
    <2> QED
      BY <1>4, <2>1 DEF Clean
  <1> QED
    BY <1>3, <1>4, PhasesMove

-----------------------------------------------------------------------------
(* The page catches up with what the server does. *)

\* What the parts of the invariant say of the tool call of a run depends on that run.
LEMMA SameActivity ==
    ASSUME NEW rs, NEW ss, NEW n, ss[n].status = rs[n].status \/ ss[n].status = "interrupted",
           ss[n].activity = rs[n].activity
    PROVE  \A c, s, v : ActivityAwaited(c, rs, s, v, n) => ActivityAwaited(c, ss, s, v, n)
  BY DEF ActivityAwaited, ShowsActivity

\* A task writes, and will tell (runner.py).
LEMMA WriteOnward ==
    ASSUME ServerInv, ViewInv, NEW c \in Conversations, NEW r, NEW types, Wrote(c, r, types),
           NEW s, NEW v, CatchesUp(c, runs[c], task[c], stream[c].queue, s, v)
    PROVE  CatchesUp(c, runs'[c], task'[c], stream'[c].queue, s, v)
  <1> DEFINE rs == runs[c]
             ss == runs'[c]
             t == task[c]
             u == task'[c]
             q == stream[c].queue
             n == task[c].run
  <1>1. /\ rs \in Seq(Run) /\ t.out = <<>> /\ n \in DOMAIN rs
        /\ Works(rs[n], r, types) /\ DOMAIN ss = DOMAIN rs /\ Len(ss) = Len(rs)
        /\ \A m \in DOMAIN rs : ss[m] = IF m = n THEN r ELSE rs[m]
        /\ u.run = n /\ DOMAIN u.out = DOMAIN types
        /\ \A k \in DOMAIN types : u.out[k] = [type |-> types[k], run |-> n]
        /\ stream' = stream /\ EventsTrue(rs, q)
    BY DEF Wrote, ServerInv, RunsOK, ViewInv, ConnectionTrue
  <1>2. n = Len(rs)
    <2>1. rs[n].status \in ActiveStatuses
      BY <1>1 DEF Works, IsActive
    <2> QED
      BY <1>1, <2>1 DEF ServerInv, OneActiveRun, ActiveRuns
  <1>3. CatchesUp(c, rs, t, q, s, v)
    OBVIOUS
  <1> HIDE DEF rs, ss, t, u, q, n
  <1> USE <1>1, <1>2, <1>3
  <1>4. /\ r \in Run /\ IsActive(rs[n]) /\ r.status # "queued" /\ n # 0
        /\ \/ r.status = "running"
           \/ r.status = "waiting_approval" /\ r.approval # "pending"
           \/ Tells(types, Followed)
        /\ IsActive(r) \/ Tells(types, Ends)
        /\ r.status = "completed" => Tells(types, {"run.completed"})
        /\ r.activity = rs[n].activity \/ Tells(types, ToolEvents(r.activity))
    BY DEF Works
  <1>5. \A T : Tells(types, T) =>
          /\ \E k \in DOMAIN u.out : u.out[k].type \in T
          /\ Pending(u, q, T)
          /\ PendingOf(n, u, q, T)
    <2> SUFFICES ASSUME NEW T, Tells(types, T)
                 PROVE  \E k \in DOMAIN u.out : u.out[k].type \in T /\ u.out[k].run = n
      BY DEF Pending, PendingOf
    <2>1. PICK k \in DOMAIN types : types[k] \in T
      BY DEF Tells
    <2>2. k \in DOMAIN u.out /\ u.out[k] = [type |-> types[k], run |-> n]
      BY <2>1
    <2> QED
      BY <2>1, <2>2
  <1>6. \A T, m : PendingOf(m, t, q, T) => PendingOf(m, u, q, T)
    BY DEF PendingOf
  <1>7. ss[n] = r
    OBVIOUS
  <1>8. Moving(ss, u) \/ \E k \in DOMAIN u.out : u.out[k].type \in Followed
    BY <1>4, <1>5, <1>7 DEF Moving
  <1>9. StateCatchesUp(c, ss, u, q, s, v)
    BY <1>8 DEF StateCatchesUp, StateUnderway, Pending
  <1>10. RunsCatchUp(c, ss, u, q, s, v)
    BY <1>4, <1>5, <1>7 DEF RunsCatchUp, RunsUnderway
  <1>11. MessagesCatchUp(c, ss, u, q, s, v)
    <2> SUFFICES ASSUME NEW m \in Messages(ss)
                 PROVE  \/ m \in v.messages
                        \/ \E i \in DOMAIN s : BringsMessage(s[i], c, m)
                        \/ m.role = "assistant" /\ PendingOf(m.run, u, q, {"run.completed"})
      BY DEF MessagesCatchUp
    <2>1. CASE m \in Messages(rs)
      BY <1>6, <2>1 DEF CatchesUp, MessagesCatchUp
    <2>2. CASE m \notin Messages(rs)
      <3>1. m = AssistantMessage(n) /\ r.status = "completed"
        BY <1>7, <2>2 DEF Messages
      <3>2. m.role = "assistant" /\ m.run = n
        BY <3>1 DEF AssistantMessage
      <3> QED
        BY <1>4, <1>5, <3>1, <3>2
    <2> QED
      BY <2>1, <2>2
  <1>12. ActivitiesCatchUp(c, ss, u, q, s, v)
    <2> SUFFICES ASSUME NEW m \in DOMAIN ActivityList(ss)
                 PROVE  \/ ActivityAwaited(c, ss, s, v, m)
                        \/ PendingOf(m, u, q, ToolEvents(ss[m].activity))
      BY DEF ActivitiesCatchUp
    <2>1. m \in DOMAIN rs /\ ss[m].activity # "none"
      BY DEF ActivityList
    <2>2. CASE ss[m].activity # rs[m].activity
      BY <1>4, <1>5, <1>7, <2>1, <2>2
    <2>3. CASE ss[m].activity = rs[m].activity
      <3>1. m \in DOMAIN ActivityList(rs)
        BY <2>1, <2>3 DEF ActivityList
      <3>2. \/ ActivityAwaited(c, rs, s, v, m)
            \/ PendingOf(m, t, q, ToolEvents(rs[m].activity))
        BY <3>1 DEF CatchesUp, ActivitiesCatchUp
      <3>3. rs[m].status = "interrupted" => ss[m].status = "interrupted"
        BY <1>4, <2>1 DEF IsActive, ActiveStatuses
      <3> QED
        BY <1>6, <2>3, <3>2, <3>3 DEF ActivityAwaited, ShowsActivity
    <2> QED
      BY <2>2, <2>3
  <1>13. StartsAreFollowed(ss, u, q)
    <2> SUFFICES ASSUME NEW k \in DOMAIN q, q[k].type = "run.started"
                 PROVE  StartFollowed(ss, u, q, k)
      BY DEF StartsAreFollowed
    <2>1. q[k].run \in DOMAIN rs
      BY DEF EventsTrue, EventTrue
    <2>2. q[k].run < Len(ss) \/ q[k].run = n
      BY <2>1
    <2>3. CASE q[k].run < Len(ss)
      BY <2>3 DEF StartFollowed
    <2>4. CASE q[k].run = n
      BY <1>4, <1>7, <1>8, <2>4 DEF StartFollowed
    <2> QED
      BY <2>2, <2>3, <2>4
  <1> QED
    BY <1>9, <1>10, <1>11, <1>12, <1>13 DEF CatchesUp, rs, ss, t, u, q, n

\* A task publishes, and the queue takes it all (events.py publish).
LEMMA PublishOnward ==
    ASSUME NEW rs, NEW t, NEW u, NEW q, NEW p, EventsTrue(rs, q), EventsTrue(rs, t.out),
           u.run = t.run, u.out = <<>>, p = q \o t.out,
           \A k \in DOMAIN t.out : t.out[k].run = t.run, StartTrue(rs, t),
           NEW c, NEW s, NEW v, CatchesUp(c, rs, t, q, s, v)
    PROVE  CatchesUp(c, rs, u, p, s, v)
  <1>0. q \in Seq(Event) /\ t.out \in Seq(Event)
    BY DEF EventsTrue
  <1>1. /\ \A k \in DOMAIN q : k \in DOMAIN p /\ p[k] = q[k]
        /\ \A k \in DOMAIN t.out : /\ Len(q) + k \in DOMAIN p
                                   /\ p[Len(q) + k] = t.out[k]
                                   /\ \A l \in DOMAIN q : Len(q) + k > l
        /\ \A k \in DOMAIN p : k \in DOMAIN q \/ \E l \in DOMAIN t.out : k = Len(q) + l
    <2>1. /\ Len(p) = Len(q) + Len(t.out) /\ DOMAIN p = 1..Len(p)
          /\ DOMAIN q = 1..Len(q) /\ DOMAIN t.out = 1..Len(t.out)
          /\ Len(q) \in Nat /\ Len(t.out) \in Nat
          /\ \A k \in 1..Len(p) : p[k] = IF k <= Len(q) THEN q[k] ELSE t.out[k - Len(q)]
      BY <1>0
    <2>2. \A k \in DOMAIN q : k \in DOMAIN p /\ p[k] = q[k]
      BY <2>1
    <2>3. ASSUME NEW k \in DOMAIN t.out
          PROVE  /\ Len(q) + k \in DOMAIN p
                 /\ p[Len(q) + k] = t.out[k]
                 /\ \A l \in DOMAIN q : Len(q) + k > l
      <3>1. k \in 1..Len(t.out) /\ (Len(q) + k) - Len(q) = k /\ ~(Len(q) + k <= Len(q))
        BY <2>1
      <3> QED
        BY <2>1, <3>1
    <2>4. ASSUME NEW k \in DOMAIN p, k \notin DOMAIN q
          PROVE  \E l \in DOMAIN t.out : k = Len(q) + l
      <3>1. k - Len(q) \in DOMAIN t.out /\ k = Len(q) + (k - Len(q))
        BY <2>1, <2>4
      <3> QED
        BY <3>1
    <2> QED
      BY <2>2, <2>3, <2>4
  <1>2. \A T : Pending(t, q, T) => Pending(u, p, T)
    BY <1>1 DEF Pending
  <1>3. ASSUME NEW T, NEW m, PendingOf(m, t, q, T)
        PROVE  PendingOf(m, u, p, T)
    <2>0. \/ \E k \in DOMAIN t.out : t.out[k].type \in T /\ t.out[k].run = m
          \/ \E k \in DOMAIN q : q[k].type \in T /\ q[k].run = m
      BY <1>3 DEF PendingOf
    <2>1. CASE \E k \in DOMAIN t.out : t.out[k].type \in T /\ t.out[k].run = m
      <3>1. PICK k \in DOMAIN t.out : t.out[k].type \in T /\ t.out[k].run = m
        BY <2>1
      <3>2. Len(q) + k \in DOMAIN p /\ p[Len(q) + k] = t.out[k]
        BY <1>1
      <3> QED
        BY <3>1, <3>2 DEF PendingOf
    <2>2. CASE \E k \in DOMAIN q : q[k].type \in T /\ q[k].run = m
      BY <1>1, <2>2 DEF PendingOf
    <2> QED
      BY <2>0, <2>1, <2>2
  <1>4. Moving(rs, t) => Moving(rs, u)
    BY DEF Moving
  <1>5. StateCatchesUp(c, rs, u, p, s, v)
    BY <1>2, <1>4 DEF CatchesUp, StateCatchesUp, StateUnderway
  <1>6. RunsCatchUp(c, rs, u, p, s, v)
    BY <1>2 DEF CatchesUp, RunsCatchUp, RunsUnderway
  <1>7. MessagesCatchUp(c, rs, u, p, s, v)
    BY <1>3 DEF CatchesUp, MessagesCatchUp
  <1>8. ActivitiesCatchUp(c, rs, u, p, s, v)
    BY <1>3 DEF CatchesUp, ActivitiesCatchUp
  <1>9. StartsAreFollowed(rs, u, p)
    <2> SUFFICES ASSUME NEW k \in DOMAIN p, p[k].type = "run.started"
                 PROVE  StartFollowed(rs, u, p, k)
      BY DEF StartsAreFollowed
    <2>1. CASE k \in DOMAIN q
      <3>1. StartFollowed(rs, t, q, k) /\ p[k] = q[k]
        BY <1>1, <2>1 DEF CatchesUp, StartsAreFollowed
      <3>2. CASE \E l \in DOMAIN t.out : t.out[l].type \in Followed
        <4>1. PICK l \in DOMAIN t.out : t.out[l].type \in Followed
          BY <3>2
        <4>2. /\ Len(q) + l \in DOMAIN p /\ Len(q) + l > k
              /\ p[Len(q) + l].type \in Followed
          BY <1>1, <2>1, <4>1
        <4> QED
          BY <4>2 DEF StartFollowed
      <3>3. CASE \E l \in DOMAIN q : l > k /\ q[l].type \in Followed
        <4>1. \E l \in DOMAIN p : l > k /\ p[l].type \in Followed
          BY <1>1, <3>3
        <4> QED
          BY <4>1 DEF StartFollowed
      <3> QED
        BY <1>4, <3>1, <3>2, <3>3 DEF StartFollowed
    <2>2. CASE k \notin DOMAIN q
      <3>1. PICK l \in DOMAIN t.out : k = Len(q) + l
        BY <1>1, <2>2
      <3>2. p[k] = t.out[l]
        BY <1>1, <3>1
      <3>3. p[k].run = t.run /\ rs[t.run].status = "running"
        BY <3>2 DEF StartTrue
      <3> QED
        BY <3>3 DEF StartFollowed
    <2> QED
      BY <2>1, <2>2
  <1> QED
    BY <1>5, <1>6, <1>7, <1>8, <1>9 DEF CatchesUp

\* The task of a run that has ended is over, and a new one has something to do.
LEMMA TaskOnward ==
    ASSUME NEW rs, NEW t, NEW u, t.out = <<>>, u.out = <<>>,
           t.run # 0 => ~IsActive(rs[t.run]),
           NEW c, NEW q, NEW s, NEW v, CatchesUp(c, rs, t, q, s, v)
    PROVE  CatchesUp(c, rs, u, q, s, v)
  <1>1. ~Moving(rs, t)
    BY DEF Moving, IsActive, ActiveStatuses
  <1>2. \A T : Pending(t, q, T) => Pending(u, q, T)
    BY DEF Pending
  <1>3. \A T, m : PendingOf(m, t, q, T) => PendingOf(m, u, q, T)
    BY DEF PendingOf
  <1>5. StateCatchesUp(c, rs, u, q, s, v)
    BY <1>1, <1>2 DEF CatchesUp, StateCatchesUp, StateUnderway
  <1>6. RunsCatchUp(c, rs, u, q, s, v)
    BY <1>2 DEF CatchesUp, RunsCatchUp, RunsUnderway
  <1>7. MessagesCatchUp(c, rs, u, q, s, v)
    BY <1>3 DEF CatchesUp, MessagesCatchUp
  <1>8. ActivitiesCatchUp(c, rs, u, q, s, v)
    BY <1>3 DEF CatchesUp, ActivitiesCatchUp
  <1>9. StartsAreFollowed(rs, u, q)
    BY <1>1 DEF CatchesUp, StartsAreFollowed, StartFollowed
  <1> QED
    BY <1>5, <1>6, <1>7, <1>8, <1>9 DEF CatchesUp

\* Messages and calls of runs that stay as they are.
LEMMA MessagesOnward ==
    ASSUME NEW rs, NEW ss, NEW t, NEW u, NEW q, NEW p, NEW c, NEW s, NEW v,
           MessagesCatchUp(c, rs, t, q, s, v), Messages(ss) \subseteq Messages(rs),
           \A n : PendingOf(n, t, q, {"run.completed"}) =>
             PendingOf(n, u, p, {"run.completed"}) \/ AssistantMessage(n) \notin Messages(ss)
    PROVE  MessagesCatchUp(c, ss, u, p, s, v)
  <1> SUFFICES ASSUME NEW m \in Messages(ss)
               PROVE  \/ m \in v.messages
                      \/ \E i \in DOMAIN s : BringsMessage(s[i], c, m)
                      \/ m.role = "assistant" /\ PendingOf(m.run, u, p, {"run.completed"})
    BY DEF MessagesCatchUp
  <1>1. \/ m \in v.messages
        \/ \E i \in DOMAIN s : BringsMessage(s[i], c, m)
        \/ m.role = "assistant" /\ PendingOf(m.run, t, q, {"run.completed"})
    BY DEF MessagesCatchUp
  <1>2. m.role = "assistant" => m = AssistantMessage(m.run)
    BY DEF Messages, AssistantMessage, UserMessage
  <1> QED
    BY <1>1, <1>2

\* A decision is taken, and the task goes on (approvals.py resolve).
LEMMA DecideOnward ==
    ASSUME NEW rs \in Seq(Run), NEW ss, NEW t, NEW n \in DOMAIN rs, t.run = n, n = Len(rs),
           rs[n].status = "waiting_approval",
           DOMAIN ss = DOMAIN rs, Len(ss) = Len(rs),
           \A m \in DOMAIN rs : /\ ss[m].status = rs[m].status
                                /\ ss[m].activity = rs[m].activity,
           ss[n].approval = "decided",
           NEW c, NEW q, NEW s, NEW v, EventsTrue(rs, q), CatchesUp(c, rs, t, q, s, v)
    PROVE  CatchesUp(c, ss, t, q, s, v)
  <1>1. Moving(ss, t) /\ ss[n].status # "queued" /\ IsActive(ss[n])
    BY DEF Moving, IsActive, ActiveStatuses
  <1>2. StateCatchesUp(c, ss, t, q, s, v)
    BY <1>1 DEF StateCatchesUp, StateUnderway
  <1>3. RunsCatchUp(c, ss, t, q, s, v)
    BY <1>1 DEF RunsCatchUp, RunsUnderway
  <1>4. MessagesCatchUp(c, ss, t, q, s, v)
    <2>1. Messages(ss) = Messages(rs)
      BY DEF Messages
    <2> QED
      BY <2>1 DEF CatchesUp, MessagesCatchUp
  <1>5. ActivitiesCatchUp(c, ss, t, q, s, v)
    <2> SUFFICES ASSUME NEW m \in DOMAIN ActivityList(ss)
                 PROVE  \/ ActivityAwaited(c, ss, s, v, m)
                        \/ PendingOf(m, t, q, ToolEvents(ss[m].activity))
      BY DEF ActivitiesCatchUp
    <2>1. m \in DOMAIN rs /\ m \in DOMAIN ActivityList(rs)
      BY DEF ActivityList
    <2> QED
      BY <2>1, SameActivity DEF CatchesUp, ActivitiesCatchUp
  <1>6. StartsAreFollowed(ss, t, q)
    <2> SUFFICES ASSUME NEW k \in DOMAIN q, q[k].type = "run.started"
                 PROVE  StartFollowed(ss, t, q, k)
      BY DEF StartsAreFollowed
    <2>1. q[k].run \in DOMAIN rs
      BY DEF EventsTrue, EventTrue
    <2>2. q[k].run < Len(ss) \/ q[k].run = n
      BY <2>1
    <2> QED
      BY <1>1, <2>2 DEF StartFollowed
  <1> QED
    BY <1>2, <1>3, <1>4, <1>5, <1>6 DEF CatchesUp

\* A run is begun, and its POST will start it (post_message).
LEMMA BeginOnward ==
    ASSUME NEW rs \in Seq(Run), NEW ss, NEW t,
           Len(ss) = Len(rs) + 1, DOMAIN ss = DOMAIN rs \union {Len(ss)},
           \A m \in DOMAIN rs : ss[m] = rs[m], ss[Len(ss)] = NewRun,
           t.run # 0 => t.run \in DOMAIN rs,
           NEW c, NEW q, NEW s, NEW v, EventsTrue(rs, q), CatchesUp(c, rs, t, q, s, v),
           NEW i \in DOMAIN s, IsBegun(s[i]), s[i].conv = c, s[i].session = Len(ss)
    PROVE  CatchesUp(c, ss, t, q, s, v)
  <1>1. IsActive(ss[s[i].session]) /\ Begins(s[i], c)
    BY DEF IsActive, ActiveStatuses, NewRun, IsBegun, Begins
  <1>2. StateCatchesUp(c, ss, t, q, s, v)
    BY <1>1 DEF StateCatchesUp, StateUnderway
  <1>3. RunsCatchUp(c, ss, t, q, s, v)
    BY <1>1 DEF RunsCatchUp, RunsUnderway
  <1>4. MessagesCatchUp(c, ss, t, q, s, v)
    <2> SUFFICES ASSUME NEW m \in Messages(ss)
                 PROVE  \/ m \in v.messages
                        \/ \E j \in DOMAIN s : BringsMessage(s[j], c, m)
                        \/ m.role = "assistant" /\ PendingOf(m.run, t, q, {"run.completed"})
      BY DEF MessagesCatchUp
    <2>1. m \in Messages(rs) \/ m = UserMessage(Len(ss))
      BY DEF Messages, NewRun
    <2>2. CASE m = UserMessage(Len(ss))
      BY <1>1, <2>2 DEF BringsMessage, UserMessage
    <2> QED
      BY <2>1, <2>2 DEF CatchesUp, MessagesCatchUp
  <1>5. ActivitiesCatchUp(c, ss, t, q, s, v)
    <2> SUFFICES ASSUME NEW m \in DOMAIN ActivityList(ss)
                 PROVE  \/ ActivityAwaited(c, ss, s, v, m)
                        \/ PendingOf(m, t, q, ToolEvents(ss[m].activity))
      BY DEF ActivitiesCatchUp
    <2>1. m \in DOMAIN rs /\ m \in DOMAIN ActivityList(rs)
      BY DEF ActivityList, NewRun
    <2> QED
      BY <2>1, SameActivity DEF CatchesUp, ActivitiesCatchUp
  <1>6. StartsAreFollowed(ss, t, q)
    <2> SUFFICES ASSUME NEW k \in DOMAIN q, q[k].type = "run.started"
                 PROVE  StartFollowed(ss, t, q, k)
      BY DEF StartsAreFollowed
    <2>1. q[k].run \in DOMAIN rs
      BY DEF EventsTrue, EventTrue
    <2>2. q[k].run < Len(ss)
      BY <2>1
    <2> QED
      BY <2>2 DEF StartFollowed
  <1> QED
    BY <1>2, <1>3, <1>4, <1>5, <1>6 DEF CatchesUp

\* The status and the approval of every run are as they were, and so are the tool
\* calls the page looks at.
LEMMA TouchedOnward ==
    ASSUME NEW rs, NEW ss, NEW t, NEW q, NEW c, NEW s, NEW v, rs \in Seq(Run),
           DOMAIN ss = DOMAIN rs, Len(ss) = Len(rs),
           \A m \in DOMAIN rs : ss[m].status = rs[m].status /\ ss[m].approval = rs[m].approval,
           \A m \in DOMAIN ActivityList(ss) :
             \/ ss[m].status = "interrupted"
             \/ m \in DOMAIN ActivityList(rs) /\ ss[m] = rs[m],
           EventsTrue(rs, q), t.run # 0 => t.run \in DOMAIN rs,
           \A i \in DOMAIN s :
             IsBegun(s[i]) /\ s[i].conv = c => s[i].session \in DOMAIN rs,
           CatchesUp(c, rs, t, q, s, v)
    PROVE  CatchesUp(c, ss, t, q, s, v)
  <1>1. Moving(rs, t) => Moving(ss, t)
    BY DEF Moving
  <1>2. Messages(ss) = Messages(rs) /\ RunList(ss) = RunList(rs)
    BY DEF Messages, RunList
  <1>3. ConversationState(ss) = ConversationState(rs)
    <2>1. Len(rs) # 0 => Len(rs) \in DOMAIN rs
      OBVIOUS
    <2> QED
      BY <2>1 DEF ConversationState
  <1>4. StateCatchesUp(c, ss, t, q, s, v)
    <2>1. StateUnderway(c, rs, t, q, s) => StateUnderway(c, ss, t, q, s)
      BY <1>1 DEF StateUnderway, IsActive
    <2> QED
      BY <1>3, <2>1 DEF CatchesUp, StateCatchesUp
  <1>5. RunsCatchUp(c, ss, t, q, s, v)
    BY <1>2 DEF CatchesUp, RunsCatchUp, RunsUnderway, IsActive
  <1>6. MessagesCatchUp(c, ss, t, q, s, v)
    BY <1>2 DEF CatchesUp, MessagesCatchUp
  <1>7. ActivitiesCatchUp(c, ss, t, q, s, v)
    BY DEF CatchesUp, ActivitiesCatchUp, ActivityAwaited, ShowsActivity
  <1>8. StartsAreFollowed(ss, t, q)
    <2> SUFFICES ASSUME NEW k \in DOMAIN q, q[k].type = "run.started"
                 PROVE  StartFollowed(ss, t, q, k)
      BY DEF StartsAreFollowed
    <2>1. q[k].run \in DOMAIN rs /\ StartFollowed(rs, t, q, k)
      BY DEF EventsTrue, EventTrue, CatchesUp, StartsAreFollowed
    <2> QED
      BY <1>1, <2>1 DEF StartFollowed
  <1> QED
    BY <1>4, <1>5, <1>6, <1>7, <1>8 DEF CatchesUp

(* A Stop ends the run it is about, tells of the decision the waiter has,  *)
(* and drops what the task has not told.                                   *)
StopMoves(rs, ss, t, u, q, p, n) ==
  /\ rs \in Seq(Run)
  /\ DOMAIN ss = DOMAIN rs /\ Len(ss) = Len(rs)
  /\ \A m \in DOMAIN rs : m # n => ss[m] = rs[m]
  /\ n \in DOMAIN rs =>
       /\ ss[n].activity = rs[n].activity
       /\ ss[n].status = IF IsActive(rs[n]) THEN "interrupted" ELSE rs[n].status
       /\ IsActive(rs[n]) => n = Len(rs)
       /\ ~IsActive(rs[n]) => t.out = <<>>
  /\ u.out = <<>>
  /\ t.run # 0 => t.run = n /\ n \in DOMAIN rs
  /\ t.run = 0 => t.out = <<>>
  /\ \A k \in DOMAIN t.out : t.out[k].run = t.run
  /\ \A k \in DOMAIN q : k \in DOMAIN p /\ p[k] = q[k]
  /\ \A k \in DOMAIN p : k \in DOMAIN q \/ p[k].type = "approval.resolved"
  /\ EventsTrue(rs, q)

\* It will reload what it leaves (interrupt_run, handleStop).
LEMMA StopOnward ==
    ASSUME NEW rs, NEW ss, NEW t, NEW u, NEW q, NEW p, NEW n, StopMoves(rs, ss, t, u, q, p, n),
           NEW c, NEW s, NEW v, CatchesUp(c, rs, t, q, s, v),
           NEW i \in DOMAIN s, StopIsServed(s[i], c)
    PROVE  CatchesUp(c, ss, u, p, s, v)
  <1> USE DEF StopMoves
  <1>1. \A m, T : PendingOf(m, t, q, T) => PendingOf(m, u, p, T) \/ (m = n /\ t.out # <<>>)
    BY DEF PendingOf
  <1>2. StateCatchesUp(c, ss, u, p, s, v) /\ RunsCatchUp(c, ss, u, p, s, v)
    BY DEF StateCatchesUp, StateUnderway, RunsCatchUp, RunsUnderway
  <1>3. MessagesCatchUp(c, ss, u, p, s, v)
    <2>1. \A m \in DOMAIN rs : ss[m].status = "completed" <=> rs[m].status = "completed"
      BY DEF IsActive, ActiveStatuses
    <2>2. Messages(ss) = Messages(rs)
      BY <2>1 DEF Messages
    <2>3. t.out # <<>> => AssistantMessage(n) \notin Messages(ss)
      <3>1. t.out # <<>> => rs[n].status # "completed"
        BY DEF IsActive, ActiveStatuses
      <3>2. AssistantMessage(n) \in Messages(rs) => rs[n].status = "completed"
        BY DEF Messages, AssistantMessage, UserMessage
      <3> QED
        BY <2>2, <3>1, <3>2
    <2>4. \A m : PendingOf(m, t, q, {"run.completed"}) =>
             PendingOf(m, u, p, {"run.completed"}) \/ AssistantMessage(m) \notin Messages(ss)
      BY <1>1, <2>3
    <2>5. MessagesCatchUp(c, rs, t, q, s, v)
      BY DEF CatchesUp
    <2> QED
      BY <2>2, <2>4, <2>5, MessagesOnward
  <1>4. ActivitiesCatchUp(c, ss, u, p, s, v)
    <2> SUFFICES ASSUME NEW m \in DOMAIN ActivityList(ss)
                 PROVE  \/ ActivityAwaited(c, ss, s, v, m)
                        \/ PendingOf(m, u, p, ToolEvents(ss[m].activity))
      BY DEF ActivitiesCatchUp
    <2>1. m \in DOMAIN rs /\ m \in DOMAIN ActivityList(rs) /\ ss[m].activity = rs[m].activity
      BY DEF ActivityList
    <2>2. \/ ActivityAwaited(c, rs, s, v, m)
          \/ PendingOf(m, t, q, ToolEvents(ss[m].activity))
      BY <2>1 DEF CatchesUp, ActivitiesCatchUp
    <2>3. ss[m].status = rs[m].status \/ ss[m].status = "interrupted"
      BY <2>1
    <2>4. CASE m = n /\ t.out # <<>>
      <3>1. ss[m].status = "interrupted"
        BY <2>1, <2>4
      <3> QED
        BY <3>1 DEF ActivityAwaited, ShowsActivity
    <2> QED
      BY <1>1, <2>1, <2>2, <2>3, <2>4, SameActivity
  <1>5. StartsAreFollowed(ss, u, p)
    <2> SUFFICES ASSUME NEW k \in DOMAIN p, p[k].type = "run.started"
                 PROVE  StartFollowed(ss, u, p, k)
      BY DEF StartsAreFollowed
    <2>1. k \in DOMAIN q /\ p[k] = q[k]
      OBVIOUS
    <2>2. q[k].run \in DOMAIN rs
      BY <2>1 DEF EventsTrue, EventTrue
    <2>3. q[k].run < Len(ss) \/ q[k].run = Len(ss)
      BY <2>2
    <2>4. StartFollowed(rs, t, q, k)
      BY <2>1 DEF CatchesUp, StartsAreFollowed
    <2>5. CASE \E l \in DOMAIN q : l > k /\ q[l].type \in Followed
      <3>1. \E l \in DOMAIN p : l > k /\ p[l].type \in Followed
        BY <2>5
      <3> QED
        BY <3>1 DEF StartFollowed
    <2>6. CASE q[k].run = Len(ss) /\ (Moving(rs, t) \/ t.out # <<>>)
      <3>1. t.run # 0 /\ IsActive(rs[n])
        BY <2>6 DEF Moving, IsActive, ActiveStatuses
      <3>2. ss[q[k].run].status = "interrupted"
        BY <2>6, <3>1
      <3> QED
        BY <2>1, <3>2 DEF StartFollowed
    <2>7. CASE rs[q[k].run].status \in {"running", "interrupted"}
      <3>1. ss[q[k].run].status \in {"running", "interrupted"}
        BY <2>2, <2>7
      <3> QED
        BY <2>1, <3>1 DEF StartFollowed
    <2>8. CASE q[k].run < Len(ss)
      BY <2>1, <2>8 DEF StartFollowed
    <2>9. (\E l \in DOMAIN t.out : t.out[l].type \in Followed) => t.out # <<>>
      OBVIOUS
    <2> QED
      BY <2>3, <2>4, <2>5, <2>6, <2>7, <2>8, <2>9 DEF StartFollowed
  <1> QED
    BY <1>2, <1>3, <1>4, <1>5 DEF CatchesUp

-----------------------------------------------------------------------------
(* The two halves of the invariant, for a step that leaves the selection   *)
(* as it is.                                                               *)

Caught == CatchesUp(active, runs[active], task[active], stream[active].queue, requests, view[active])

CaughtOn == Clean /\ Clean' /\ Caught => Caught'

ToldOn ==
  ~excused' /\ stream[active].phase = "open" =>
    \A n \in DOMAIN ActivityList(runs'[active]) : n <= told =>
      \/ runs'[active][n].status = "interrupted"
      \/ /\ n \in DOMAIN ActivityList(runs[active])
         /\ ActivityAwaited(active, runs[active], requests, view[active], n) =>
              ActivityAwaited(active, runs'[active], requests', view'[active], n)

CatchesOn == CaughtOn /\ ToldOn

\* They are all there is to show, but for what brings a new restoration or an
\* end to the page.
LEMMA CatchesOnIs ==
    ASSUME ServerInv, ClientInv, ViewInv, ConnectionInv, CatchUpInv, [Next]_vars, CatchesOn,
           ~\E c \in Conversations : Select(c) \/ StreamError(c) \/ Deliver(c)
    PROVE  CatchUpInv'
  <1>1. active' = active /\ PhaseMoves /\ active \in Conversations
    BY PhasesMove DEF ClientInv
  <1>2. Clean' => Clean /\ Caught
    <2>1. Clean' => Clean
      BY <1>1, CleanMoves
    <2> QED
      BY <2>1 DEF CatchUpInv, Caught
  <1>3. Clean' => Caught'
    BY <1>2 DEF CatchesOn, CaughtOn
  <1>4. (excused => excused') /\ told' = told
    BY FlagsMove
  <1>5. ASSUME ~excused', stream'[active].phase = "open"
        PROVE  ToldCatchesUp(active, runs'[active], requests', view'[active], told)
    <2>1. CASE stream[active].phase = "open"
      <3>1. ToldCatchesUp(active, runs[active], requests, view[active], told)
        BY <1>4, <1>5, <2>1 DEF CatchUpInv
      <3>2. \A n : runs'[active][n].status = "interrupted" =>
              ActivityAwaited(active, runs'[active], requests', view'[active], n)
        BY DEF ActivityAwaited, ShowsActivity
      <3> QED
        BY <1>5, <2>1, <3>1, <3>2 DEF CatchesOn, ToldOn, ToldCatchesUp
    <2>2. CASE stream[active].phase # "open"
      <3>1. stream[active].phase = "connecting"
        BY <1>1, <1>5, <2>2 DEF PhaseMoves
      <3>2. told = 0
        BY <3>1 DEF ConnectionInv
      <3>3. runs'[active] \in Seq(Run)
        BY <1>1, ServerStep DEF ServerInv, RunsOK
      <3>4. \A n \in DOMAIN ActivityList(runs'[active]) : ~(n <= told)
        BY <3>2, <3>3 DEF ActivityList
      <3> QED
        BY <3>4 DEF ToldCatchesUp
    <2> QED
      BY <2>1, <2>2
  <1> QED
    BY <1>1, <1>3, <1>4, <1>5 DEF CatchUpInv, Caught

\* Nothing changes but the requests, and they go on.
LEMMA RequestsOnward ==
    ASSUME active' = active, runs'[active] = runs[active], task'[active] = task[active],
           stream'[active].queue = stream[active].queue, view'[active] = view[active],
           \A t, q : CatchesUp(active, runs[active], t, q, requests, view[active]) =>
                       CatchesUp(active, runs[active], t, q, requests', view[active]),
           \A n \in DOMAIN ActivityList(runs[active]) :
             ActivityAwaited(active, runs[active], requests, view[active], n) =>
               ActivityAwaited(active, runs[active], requests', view[active], n)
    PROVE  CatchesOn
  BY DEF CatchesOn, CaughtOn, ToldOn, Caught

\* Nothing at all.
LEMMA NothingOnward ==
    ASSUME active' = active, runs'[active] = runs[active], task'[active] = task[active],
           stream'[active].queue = stream[active].queue, view'[active] = view[active],
           requests' = requests
    PROVE  CatchesOn
  BY DEF CatchesOn, CaughtOn, ToldOn, Caught

\* What is published reaches a queue that has room for it.
LEMMA PublishedIs ==
    ASSUME ClientInv, ViewInv, NEW c \in Conversations, NEW events \in Seq(Event),
           stream' = Published(c, events)
    PROVE  /\ \A d \in Conversations \ {c} : stream'[d] = stream[d]
           /\ stream[c].phase = "open" /\ ~Overflows(c, Len(events)) =>
                stream'[c].queue = stream[c].queue \o events
  <1>1. CASE stream[c].phase = "open"
    <2> DEFINE q == stream[c].queue \o events
               p == Newest(q)
    <2>1. stream' = [stream EXCEPT ![c] = [stream[c] EXCEPT !.queue = p]]
      BY <1>1 DEF Published
    <2>2. ~Overflows(c, Len(events)) => p = q
      <3>1. stream[c].queue \in Seq(Event)
        BY DEF ViewInv, ConnectionTrue, EventsTrue
      <3>2. Len(q) = Len(stream[c].queue) + Len(events) /\ Len(q) \in Nat
        BY <3>1
      <3> QED
        BY <1>1, <3>2, ServerAssumption DEF Overflows, Newest
    <2> HIDE DEF p, q
    <2>3. /\ stream'[c] = [phase |-> stream[c].phase, queue |-> p]
          /\ \A d \in Conversations \ {c} : stream'[d] = stream[d]
      BY <2>1, QueueSet
    <2> QED
      BY <2>2, <2>3 DEF q
  <1>2. CASE stream[c].phase # "open"
    BY <1>2 DEF Published
  <1> QED
    BY <1>1, <1>2

\* A task takes a step.
LEMMA TaskCatchesOn ==
    ASSUME ServerInv, ClientInv, ViewInv, PostsInv, ConnectionInv,
           NEW c \in Conversations, RunTask(c)
    PROVE  CatchesOn
  <1>0. /\ active' = active /\ requests' = requests /\ view' = view
        /\ TaskStep(c) /\ missed' = (missed \/ Misses(c))
        /\ active \in Conversations /\ DOMAIN task = Conversations
        /\ \A d \in Conversations : task[d] = [run |-> task[d].run, out |-> task[d].out]
    BY DEF RunTask, ClientInv, ServerInv, TasksOK
  <1>1. ASSUME NEW r, NEW types, Wrote(c, r, types)
        PROVE  CatchesOn
    <2>1. CASE c # active
      BY <1>0, <1>1, <2>1, NothingOnward DEF Wrote
    <2>2. CASE c = active
      <3> DEFINE rs == runs[active]
                 ss == runs'[active]
                 n == task[active].run
      <3>1. CaughtOn
        BY <1>0, <1>1, <2>2, WriteOnward DEF CaughtOn, Caught
      <3>2. /\ rs \in Seq(Run) /\ n \in DOMAIN rs /\ DOMAIN ss = DOMAIN rs /\ IsActive(rs[n])
            /\ \A m \in DOMAIN rs : ss[m] = IF m = n THEN r ELSE rs[m]
        BY <1>0, <1>1, <2>2 DEF Wrote, Works, ServerInv, RunsOK
      <3>3. n = Len(rs)
        BY <1>0, <3>2 DEF ServerInv, OneActiveRun, ActiveRuns, IsActive
      <3>4. told = 0 \/ (told \in DOMAIN rs /\ ~IsActive(rs[told]))
        BY DEF ConnectionInv, IsActive, ActiveStatuses, TerminalStatuses
      <3> HIDE DEF rs, ss, n
      <3>5. ASSUME NEW m \in DOMAIN ActivityList(ss), m <= told
            PROVE  m \in DOMAIN ActivityList(rs) /\ ss[m] = rs[m]
        <4>1. m \in DOMAIN rs /\ ss[m].activity # "none"
          BY <3>2 DEF ActivityList
        <4>2. m # n
          BY <3>2, <3>3, <3>4, <3>5, <4>1
        <4> QED
          BY <3>2, <4>1, <4>2 DEF ActivityList
      <3>6. ToldOn
        BY <1>0, <3>5 DEF ToldOn, ActivityAwaited, ShowsActivity, rs, ss
      <3> QED
        BY <3>1, <3>6 DEF CatchesOn
    <2> QED
      BY <2>1, <2>2
  <1>2. ASSUME Publish(c)
        PROVE  CatchesOn
    <2>1. /\ stream' = Published(c, task[c].out) /\ runs' = runs /\ task[c].out # <<>>
          /\ task' = [task EXCEPT ![c] = [task[c] EXCEPT !.out = <<>>]]
          /\ TaskTrue(runs[c], task[c]) /\ StartTrue(runs[c], task[c])
      BY <1>2 DEF Publish, ViewInv, PostsInv
    <2>2. /\ task'[c].run = task[c].run /\ task'[c].out = <<>>
          /\ \A d \in Conversations \ {c} : task'[d] = task[d]
      BY <1>0, <2>1
    <2>3. task[c].out \in Seq(Event)
      BY <2>1 DEF TaskTrue, EventsTrue
    <2>4. CASE c # active
      <3>1. stream'[active] = stream[active]
        BY <1>0, <2>1, <2>3, <2>4, PublishedIs
      <3> QED
        BY <1>0, <2>1, <2>2, <2>4, <3>1, NothingOnward
    <2>5. CASE c = active
      <3> DEFINE rs == runs[active]
                 t == task[active]
                 u == task'[active]
                 q == stream[active].queue
                 p == stream'[active].queue
      <3>1. EventsTrue(rs, q)
        BY <1>0 DEF ViewInv, ConnectionTrue
      <3>2. Clean' => p = q \o t.out
        <4>1. Clean' => ~Misses(active)
          BY <1>0, <2>5 DEF Clean
        <4> QED
          BY <1>0, <2>1, <2>3, <2>5, <4>1, PublishedIs DEF Misses
      <3>3. /\ EventsTrue(rs, t.out) /\ \A k \in DOMAIN t.out : t.out[k].run = t.run
            /\ StartTrue(rs, t) /\ u.run = t.run /\ u.out = <<>>
        BY <2>1, <2>2, <2>5 DEF TaskTrue
      <3> HIDE DEF rs, t, u, q, p
      <3>4. p = q \o t.out => (CatchesUp(active, rs, t, q, requests, view[active]) =>
              CatchesUp(active, rs, u, p, requests, view[active]))
        BY <3>1, <3>3, PublishOnward
      <3>5. CaughtOn
        BY <1>0, <2>1, <3>2, <3>4 DEF CaughtOn, Caught, rs, t, u, q, p
      <3>6. ToldOn
        BY <1>0, <2>1 DEF ToldOn
      <3> QED
        BY <3>5, <3>6 DEF CatchesOn
    <2> QED
      BY <2>4, <2>5
  <1>3. ASSUME EndTask(c)
        PROVE  CatchesOn
    <2>1. /\ runs' = runs /\ stream' = stream /\ task[c].out = <<>>
          /\ task' = [task EXCEPT ![c] = NoTask]
          /\ ~IsActive(runs[c][task[c].run])
      BY <1>3 DEF EndTask, Working, Owned, IsActive, ActiveStatuses, TerminalStatuses
    <2>2. /\ task'[c].out = <<>>
          /\ \A d \in Conversations \ {c} : task'[d] = task[d]
      BY <1>0, <2>1 DEF NoTask
    <2>3. CASE c # active
      BY <1>0, <2>1, <2>2, <2>3, NothingOnward
    <2>4. CASE c = active
      <3>1. CaughtOn
        BY <1>0, <2>1, <2>2, <2>4, TaskOnward DEF CaughtOn, Caught
      <3>2. ToldOn
        BY <1>0, <2>1 DEF ToldOn
      <3> QED
        BY <3>1, <3>2 DEF CatchesOn
    <2> QED
      BY <2>3, <2>4
  <1> QED
    BY <1>0, <1>1, <1>2, <1>3, TaskWrites

\* A request that moves on carries on with what it brings.
LEMMA CarriedOn ==
    ASSUME active' = active, runs'[active] = runs[active], task'[active] = task[active],
           stream'[active].queue = stream[active].queue, view'[active] = view[active],
           NEW i, NEW q, Changed(requests, requests', i, q),
           Carries(requests[i], q, active, runs[active], task[active])
    PROVE  CatchesOn
  <1>1. /\ \A qu, v : CatchesUp(active, runs[active], task[active], qu, requests, v) =>
                      CatchesUp(active, runs[active], task[active], qu, requests', v)
        /\ \A v : \A n \in DOMAIN ActivityList(runs[active]) :
             ActivityAwaited(active, runs[active], requests, v, n) =>
               ActivityAwaited(active, runs[active], requests', v, n)
    BY ChangedOnward
  <1> QED
    BY <1>1 DEF CatchesOn, CaughtOn, ToldOn, Caught

\* A part is fetched, or will not be.
LEMMA FetchCarries ==
    ASSUME NEW r, IsRequest(r), r.kind \in Kinds, NEW c, NEW rs, NEW t, NEW part, NEW value,
           part = "noActivities" \/ (r.conv = c => value = Answer(rs, part)),
           ~Begins(r, c), ~StopIsServed(r, c)
    PROVE  Carries(r, Fetched(r, part, value), c, rs, t)
  <1> DEFINE q == Fetched(r, part, value)
  <1>1. /\ q.kind = r.kind /\ q.conv = r.conv /\ q.session = r.session /\ q.fresh = r.fresh
        /\ q.ok = r.ok /\ q.answer = r.answer
        /\ DOMAIN q.got = DOMAIN r.got \union {part}
        /\ \A p \in DOMAIN r.got \union {part} :
             q.got[p] = IF p = part THEN value ELSE r.got[p]
    BY FetchedIs
  <1>2. "noActivities" \notin Parts[r.kind]
    BY DEF Parts, Kinds
  <1> HIDE DEF q
  <1>3. (Effective(q, c) <=> Effective(r, c)) /\ (Effective(r, c) => r.conv = c)
    BY <1>1 DEF Effective, HasEffect
  <1>4. ASSUME NEW p \in DOMAIN q.got \intersect Parts[r.kind], Effective(r, c)
        PROVE  \/ p \in DOMAIN r.got /\ q.got[p] = r.got[p]
               \/ q.got[p] = Answer(rs, p)
    BY <1>1, <1>2, <1>3, <1>4
  <1>5. (Fails(q) => Fails(r)) /\ ~(IsBegun(r) /\ r.conv = c)
    BY <1>1 DEF IsBegun, Begins, Fails
  <1>6. Carries(r, q, c, rs, t)
    BY <1>1, <1>3, <1>4, <1>5 DEF Carries
  <1> QED
    BY <1>6 DEF q

\* The GETs are answered, or their answers are lost.
LEMMA FetchesOn ==
    ASSUME ClientInv, ViewInv, NEW i \in DOMAIN requests,
           LoseActivities(i) \/ \E part \in Parts[requests[i].kind] : Serve(i, part)
    PROVE  CatchesOn
  <1> DEFINE r == requests[i]
  <1>1. /\ IsRequest(r) /\ r.conv \in Conversations /\ r.kind \in Kinds
        /\ Sized(requests)
    BY SomeRequest, PlaceByPlace DEF ViewInv, RequestTrue, ClientInv
  <1>2. r.kind \in {"post", "stop"} => Parts[r.kind] = {}
    BY DEF Parts
  <1>3. ASSUME NEW part, NEW value, requests' = [requests EXCEPT ![i] = Fetched(r, part, value)],
               part = "noActivities" \/ value = Answer(runs[r.conv], part),
               r.kind \notin {"post", "stop"},
               UNCHANGED <<serverVars, view, active>>
        PROVE  CatchesOn
    <2> DEFINE q == Fetched(r, part, value)
    <2>1. Carries(r, q, active, runs[active], task[active])
      BY <1>1, <1>3, FetchCarries DEF Begins, StopIsServed
    <2> HIDE DEF q
    <2>2. Changed(requests, requests', i, q)
      BY <1>3, PlaceByPlace DEF ClientInv, q
    <2>3. UNCHANGED <<runs, task, stream, view, active>>
      BY <1>3 DEF serverVars
    <2> QED
      BY <2>1, <2>2, <2>3, CarriedOn
  <1>4. CASE LoseActivities(i)
    <2>1. r.kind \notin {"post", "stop"}
      BY <1>4 DEF LoseActivities
    <2> QED
      BY <1>3, <1>4, <2>1 DEF LoseActivities
  <1>5. ASSUME NEW part \in Parts[r.kind], Serve(i, part)
        PROVE  CatchesOn
    <2>1. r.kind \notin {"post", "stop"}
      BY <1>2
    <2> HIDE DEF r
    <2> QED
      BY <1>3, <1>5, <2>1 DEF Serve, r
  <1> QED
    BY <1>4, <1>5

\* A POST that has not begun a run, and a Stop, are answered.
LEMMA AnswerCarries ==
    ASSUME ClientInv, ViewInv, NEW i \in DOMAIN requests, NEW q,
           q.kind = requests[i].kind, q.conv = requests[i].conv, q.ok = requests[i].ok,
           q.fresh = requests[i].fresh,
           requests[i].kind \in {"post", "stop"},
           requests[i].answer \in IF requests[i].kind = "post" THEN {"none"} ELSE {"none", "begun"}
    PROVE  \A c, rs, t : Carries(requests[i], q, c, rs, t)
  <1> TAKE c, rs, t
  <1> DEFINE r == requests[i]
  <1>1. Effective(q, c) <=> Effective(r, c)
    BY DEF Effective, HasEffect
  <1>2. ~Begins(r, c) /\ ~StopIsServed(r, c) /\ ~(IsBegun(r) /\ r.conv = c) /\ ~Fails(q)
    BY DEF Begins, StopIsServed, IsBegun, Fails
  <1>3. Parts[r.kind] = {}
    BY DEF Parts
  <1> QED
    BY <1>1, <1>2, <1>3 DEF Carries

\* A Stop is read (interrupt_run).
LEMMA StopReadOn ==
    ASSUME ClientInv, ViewInv, NEW i \in DOMAIN requests, StopRead(i)
    PROVE  CatchesOn
  <1> DEFINE r == requests[i]
             c == r.conv
  <1>1. /\ r.kind = "stop" /\ r.answer = "none"
        /\ UNCHANGED <<runs, task, stream, view, active>>
    BY DEF StopRead, InterruptAccepted, InterruptRefused, serverVars
  <1>2. ASSUME NEW q, Changed(requests, requests', i, q), q.kind = r.kind, q.conv = r.conv,
               q.ok = r.ok, q.fresh = r.fresh
        PROVE  CatchesOn
    <2>1. Carries(r, q, active, runs[active], task[active])
      BY <1>1, <1>2, AnswerCarries
    <2> QED
      BY <1>1, <1>2, <2>1, CarriedOn
  <1>3. CASE Answered(i, "refused")
    <2>1. /\ requests'[i].kind = r.kind /\ requests'[i].conv = r.conv
          /\ requests'[i].ok = r.ok /\ requests'[i].fresh = r.fresh
          /\ Changed(requests, requests', i, requests'[i])
      BY <1>3, AnsweredIs
    <2> QED
      BY <1>2, <2>1
  <1>4. CASE requests' = [requests EXCEPT
                 ![i].answer = "begun",
                 ![i].got = [approval |-> ConversationState(runs[c]).pending]]
    <2> DEFINE g == [approval |-> ConversationState(runs[c]).pending]
               q == [r EXCEPT !.answer = "begun", !.got = g]
    <2>1. requests' = [requests EXCEPT ![i] = q]
      BY <1>4
    <2> HIDE DEF g
    <2>2. q = [kind |-> r.kind, conv |-> r.conv, session |-> r.session, fresh |-> r.fresh,
               ok |-> r.ok, answer |-> "begun", got |-> g]
      BY SomeRequest, AnswerSet
    <2> HIDE DEF q
    <2>3. Changed(requests, requests', i, q)
      BY <2>1, PlaceByPlace DEF ClientInv
    <2>4. q.kind = r.kind /\ q.conv = r.conv /\ q.ok = r.ok /\ q.fresh = r.fresh
      BY <2>2
    <2> QED
      BY <1>2, <2>3, <2>4
  <1> QED
    BY <1>3, <1>4 DEF StopRead

\* A POST begins its run, or is refused (post_message).
LEMMA PostBeginsOn ==
    ASSUME ServerInv, ClientInv, ViewInv, NEW i \in DOMAIN requests, PostBegins(i)
    PROVE  CatchesOn
  <1> DEFINE r == requests[i]
             c == r.conv
  <1>1. r.kind = "post" /\ r.answer = "none" /\ r.ok /\ active \in Conversations
    BY DEF PostBegins, ClientInv
  <1>2. CASE BeginRefused(c) /\ Answered(i, "refused")
    <2>1. /\ requests'[i].kind = r.kind /\ requests'[i].conv = r.conv
          /\ requests'[i].ok = r.ok /\ requests'[i].fresh = r.fresh
          /\ Changed(requests, requests', i, requests'[i])
      BY <1>2, AnsweredIs
    <2>2. UNCHANGED <<runs, task, stream, view, active>>
      BY <1>2 DEF BeginRefused, PostBegins, serverVars
    <2>3. Carries(r, requests'[i], active, runs[active], task[active])
      BY <1>1, <2>1, AnswerCarries
    <2> QED
      BY <2>1, <2>2, <2>3, CarriedOn
  <1>3. CASE BeginRun(c)
    <2> DEFINE q == requests'[i]
               n == Len(runs[c]) + 1
    <2>1. /\ c \in Conversations /\ i \in DOMAIN requests'
          /\ q.answer = "begun" /\ q.session = n
          /\ q.kind = "post" /\ q.conv = c /\ q.ok /\ q.fresh = r.fresh
          /\ Changed(requests, requests', i, q)
          /\ Len(runs'[c]) = n
          /\ DOMAIN runs[c] = 1..Len(runs[c]) /\ DOMAIN runs'[c] = 1..n
          /\ \A m \in DOMAIN runs[c] : runs'[c][m] = runs[c][m]
          /\ runs'[c][n] = NewRun
          /\ \A d \in Conversations \ {c} : runs'[d] = runs[d]
          /\ UNCHANGED <<task, up, stream, view, active, missed, excused, told>>
      BY <1>3, BeginsIs
    <2>2. Carries(r, q, active, runs[active], task[active])
      BY <1>1, <2>1, AnswerCarries
    <2>3. CASE c # active
      BY <1>1, <2>1, <2>2, <2>3, CarriedOn
    <2>4. CASE c = active
      <3> DEFINE rs == runs[active]
                 ss == runs'[active]
                 t == task[active]
                 p == stream[active].queue
                 v == view[active]
      <3>1. /\ CatchesUp(active, rs, t, p, requests, v) => CatchesUp(active, rs, t, p, requests', v)
            /\ \A m \in DOMAIN ActivityList(rs) :
                 ActivityAwaited(active, rs, requests, v, m) =>
                   ActivityAwaited(active, rs, requests', v, m)
        BY <2>1, <2>2, ChangedOnward
      <3>2. /\ rs \in Seq(Run) /\ EventsTrue(rs, p) /\ (t.run # 0 => t.run \in DOMAIN rs)
        BY <1>1 DEF ServerInv, RunsOK, ViewInv, ConnectionTrue, TaskTrue
      <3>3. /\ Len(ss) = Len(rs) + 1 /\ DOMAIN ss = DOMAIN rs \union {Len(ss)}
            /\ \A m \in DOMAIN rs : ss[m] = rs[m]
            /\ ss[Len(ss)] = NewRun
        <4>1. Len(rs) \in Nat
          BY <3>2
        <4> QED
          BY <2>1, <2>4, <4>1
      <3>4. IsBegun(q) /\ q.conv = active /\ q.session = Len(ss)
        BY <2>1, <2>4 DEF IsBegun
      <3>5. CatchesUp(active, rs, t, p, requests', v) => CatchesUp(active, ss, t, p, requests', v)
        <4> HIDE DEF rs, ss, t, p, v, q
        <4> QED
          BY <2>1, <3>2, <3>3, <3>4, BeginOnward DEF q
      <3>6. DOMAIN ActivityList(ss) = DOMAIN ActivityList(rs)
        BY <3>3 DEF ActivityList, NewRun
      <3>7. \A m \in DOMAIN ActivityList(rs) : ss[m] = rs[m]
        BY <3>3 DEF ActivityList
      <3>8. CaughtOn
        BY <2>1, <3>1, <3>5 DEF CaughtOn, Caught
      <3>9. ToldOn
        BY <2>1, <3>1, <3>6, <3>7 DEF ToldOn, ActivityAwaited, ShowsActivity
      <3> QED
        BY <3>8, <3>9 DEF CatchesOn
    <2> QED
      BY <2>3, <2>4
  <1> QED
    BY <1>2, <1>3 DEF PostBegins

\* A POST starts the task of the run it has begun; a refusal overwrites what is shown
\* (supervisor.start).
LEMMA PostStartsOn ==
    ASSUME ServerInv, ClientInv, ViewInv, PostsInv, NEW i \in DOMAIN requests, PostStarts(i)
    PROVE  CatchesOn
  <1> DEFINE r == requests[i]
             c == r.conv
             n == r.session
             q == requests'[i]
  <1>1. /\ r.kind = "post" /\ r.answer = "begun" /\ r.ok /\ c \in Conversations
        /\ active \in Conversations
        /\ UNCHANGED <<view, active>>
    BY SomeRequest DEF PostStarts, ClientInv
  <1>2. CASE excused'
    BY <1>2 DEF CatchesOn, CaughtOn, ToldOn, Clean
  <1>3. CASE StartTask(c, n) /\ Answered(i, "accepted")
    <2>1. /\ Changed(requests, requests', i, q) /\ q.answer = "accepted"
          /\ q.kind = r.kind /\ q.conv = r.conv /\ q.session = r.session
          /\ q.ok = r.ok /\ q.fresh = r.fresh /\ q.got = r.got
      BY <1>3, AnsweredIs
    <2>2. /\ UNCHANGED <<runs, stream>>
          /\ task[c].run = 0 /\ task[c].out = <<>>
          /\ task' = [task EXCEPT ![c] = [task[c] EXCEPT !.run = n]]
          /\ task[c] = [run |-> task[c].run, out |-> task[c].out]
          /\ DOMAIN task = Conversations
      BY <1>1, <1>3 DEF StartTask, ServerInv, TasksOK, ViewInv, TaskTrue
    <2>3. /\ task'[c].run = n /\ task'[c].out = <<>>
          /\ \A d \in Conversations \ {c} : task'[d] = task[d]
      BY <1>1, <2>2
    <2>4. n # 0 /\ runs[c][n].status \in {"queued"} \union TerminalStatuses
      <3>1. n \in DOMAIN runs[c]
        BY <1>1 DEF ViewInv, RequestTrue
      <3>2. runs[c] \in Seq(Run)
        BY <1>1 DEF ServerInv, RunsOK
      <3>3. PostTrue(runs[c], task[c], r) /\ IsBegun(r)
        BY <1>1 DEF PostsInv, IsBegun
      <3> QED
        BY <3>1, <3>2, <3>3 DEF PostTrue
    <2>5. IsActive(runs[c][n]) => Moving(runs[c], task'[c])
      BY <2>3, <2>4 DEF IsActive, ActiveStatuses, TerminalStatuses, Moving
    <2>6. Carries(r, q, active, runs[active], task'[active])
      <3>1. Effective(q, active) <=> Effective(r, active)
        BY <2>1 DEF Effective, HasEffect
      <3>2. Parts[r.kind] = {}
        BY <1>1 DEF Parts
      <3>3. Begins(r, active) => Begins(q, active)
        BY <1>1, <2>1 DEF Begins
      <3>4. ~StopIsServed(r, active) /\ ~Fails(q)
        BY <1>1, <2>1 DEF StopIsServed, Fails
      <3> QED
        BY <2>1, <2>5, <3>1, <3>2, <3>3, <3>4 DEF Carries
    <2>7. CatchesUp(active, runs[active], task[active], stream[active].queue, requests, view[active]) =>
            CatchesUp(active, runs[active], task'[active], stream[active].queue, requests, view[active])
      <3>1. CASE c = active
        BY <2>2, <2>3, <3>1, TaskOnward
      <3>2. CASE c # active
        BY <1>1, <2>3, <3>2
      <3> QED
        BY <3>1, <3>2
    <2> HIDE DEF r, c, n, q
    <2>8. /\ \A qu, v : CatchesUp(active, runs[active], task'[active], qu, requests, v) =>
                      CatchesUp(active, runs[active], task'[active], qu, requests', v)
          /\ \A v : \A m \in DOMAIN ActivityList(runs[active]) :
               ActivityAwaited(active, runs[active], requests, v, m) =>
                 ActivityAwaited(active, runs[active], requests', v, m)
      BY <2>1, <2>6, ChangedOnward DEF r
    <2>9. CaughtOn
      BY <1>1, <2>2, <2>7, <2>8 DEF CaughtOn, Caught
    <2>10. ToldOn
      BY <1>1, <2>2, <2>8 DEF ToldOn
    <2> QED
      BY <2>9, <2>10 DEF CatchesOn
  <1> QED
    BY <1>2, <1>3 DEF PostStarts

\* An idle request leaves, and nothing else happens.
LEMMA IdleLeaves ==
    ASSUME ClientInv, NEW i \in DOMAIN requests, Idle(requests[i], active),
           requests' = RemoveAt(requests, i),
           UNCHANGED <<runs, task, stream, view, active>>
    PROVE  CatchesOn
  <1>1. Removed(requests, requests', i)
    BY PlaceByPlace DEF ClientInv
  <1>2. /\ \A rs, t, qu, v :
             CatchesUp(active, rs, t, qu, requests, v) => CatchesUp(active, rs, t, qu, requests', v)
        /\ \A rs, v, n :
             ActivityAwaited(active, rs, requests, v, n) => ActivityAwaited(active, rs, requests', v, n)
    BY <1>1, RemovedOnward
  <1> QED
    BY <1>2, RequestsOnward

\* A decision is served (approvals.py resolve).
LEMMA DecisionServedOn ==
    ASSUME ServerInv, ClientInv, ViewInv, ConnectionInv,
           NEW i \in DOMAIN requests, DecisionServed(i)
    PROVE  CatchesOn
  <1> DEFINE r == requests[i]
             c == r.conv
             n == r.session
  <1>1. /\ r.kind = "decide" /\ r.ok /\ c \in Conversations
        /\ active \in Conversations /\ requests' = RemoveAt(requests, i)
        /\ UNCHANGED <<view, active, missed, excused, told>>
        /\ Idle(r, active)
    BY SomeRequest DEF DecisionServed, ClientInv, Without, Idle, Begins, StopIsServed, Parts
  <1>2. ASSUME UNCHANGED <<runs, task, stream>>
        PROVE  CatchesOn
    BY <1>1, <1>2, IdleLeaves
  <1>3. CASE DecideRefused(c, n)
    BY <1>2, <1>3 DEF DecideRefused, serverVars
  <1>4. CASE DecideApproval(c, n)
    <2>1. /\ UNCHANGED <<task, stream>> /\ task[c].run = n
          /\ runs[c][n].status = "waiting_approval"
          /\ runs' = [runs EXCEPT ![c] = [runs[c] EXCEPT ![n] = [runs[c][n] EXCEPT !.approval = "decided"]]]
      BY <1>4 DEF DecideApproval, IsWaiting
    <2>2. /\ runs[c] \in Seq(Run) /\ runs \in [Conversations -> Seq(Run)]
          /\ EventsTrue(runs[c], stream[c].queue)
      BY <1>1 DEF ServerInv, RunsOK, ViewInv, ConnectionTrue
    <2>3. CASE n \notin DOMAIN runs[c]
      <3>1. runs' = runs
        BY <2>1, <2>2, <2>3
      <3> QED
        BY <1>2, <2>1, <3>1
    <2>4. CASE n \in DOMAIN runs[c] /\ c # active
      <3>1. /\ runs'[active] = runs[active]
        BY <1>1, <2>1, <2>2, <2>4
      <3>2. Removed(requests, requests', i)
        BY <1>1, PlaceByPlace DEF ClientInv
      <3>3. /\ \A rs, t, qu, v :
                 CatchesUp(active, rs, t, qu, requests, v) => CatchesUp(active, rs, t, qu, requests', v)
            /\ \A rs, v, m :
                 ActivityAwaited(active, rs, requests, v, m) => ActivityAwaited(active, rs, requests', v, m)
        BY <1>1, <3>2, RemovedOnward
      <3> QED
        BY <1>1, <2>1, <3>1, <3>3, RequestsOnward
    <2>5. CASE n \in DOMAIN runs[c] /\ c = active
      <3> DEFINE rs == runs[active]
                 ss == runs'[active]
                 x == [runs[c][n] EXCEPT !.approval = "decided"]
      <3>1. n = Len(rs)
        BY <1>1, <2>1, <2>5 DEF ServerInv, OneActiveRun, ActiveRuns, ActiveStatuses
      <3>2. /\ x.status = runs[c][n].status /\ x.activity = runs[c][n].activity
            /\ x.approval = "decided" /\ x \in Run
        <4>1. runs[c][n] \in Run
          BY <2>2, <2>5
        <4> QED
          BY <4>1 DEF Run, ApprovalStatuses
      <3> HIDE DEF x
      <3>3. /\ ss = [rs EXCEPT ![n] = x]
        BY <1>1, <2>1, <2>2, <2>5 DEF x
      <3>4. /\ DOMAIN ss = DOMAIN rs /\ Len(ss) = Len(rs)
            /\ \A m \in DOMAIN rs : ss[m] = IF m = n THEN x ELSE rs[m]
        BY <2>2, <2>5, <3>2, <3>3, ExceptSeq
      <3>5. /\ \A m \in DOMAIN rs : /\ ss[m].status = rs[m].status
                                    /\ ss[m].activity = rs[m].activity
            /\ ss[n].approval = "decided"
        BY <2>5, <3>2, <3>4
      <3>6. Removed(requests, requests', i)
        BY <1>1, PlaceByPlace DEF ClientInv
      <3>7. /\ \A z, t, qu, v :
                 CatchesUp(active, z, t, qu, requests, v) => CatchesUp(active, z, t, qu, requests', v)
            /\ \A z, v, m :
                 ActivityAwaited(active, z, requests, v, m) => ActivityAwaited(active, z, requests', v, m)
        BY <1>1, <3>6, RemovedOnward
      <3>8. CatchesUp(active, rs, task[active], stream[active].queue, requests, view[active]) =>
              CatchesUp(active, ss, task[active], stream[active].queue, requests, view[active])
        <4>1. /\ task[active].run = n /\ rs \in Seq(Run) /\ n \in DOMAIN rs
              /\ rs[n].status = "waiting_approval"
              /\ EventsTrue(rs, stream[active].queue)
          BY <2>1, <2>2, <2>5
        <4> HIDE DEF rs, ss, n, c, r
        <4> QED
          BY <3>1, <3>4, <3>5, <4>1, DecideOnward
      <3>9. CaughtOn
        BY <1>1, <2>1, <3>7, <3>8 DEF CaughtOn, Caught
      <3>10. DOMAIN ActivityList(ss) = DOMAIN ActivityList(rs)
        BY <3>4, <3>5 DEF ActivityList
      <3>11. ASSUME NEW m \in DOMAIN ActivityList(ss),
                    ActivityAwaited(active, rs, requests, view[active], m)
             PROVE  ActivityAwaited(active, ss, requests', view[active], m)
        <4>1. m \in DOMAIN rs
          BY <3>4 DEF ActivityList
        <4> QED
          BY <3>5, <3>7, <3>11, <4>1, SameActivity
      <3>12. ToldOn
        BY <1>1, <3>10, <3>11 DEF ToldOn
      <3> QED
        BY <3>9, <3>12 DEF CatchesOn
    <2> QED
      BY <2>3, <2>4, <2>5
  <1> QED
    BY <1>3, <1>4 DEF DecisionServed

\* What a Stop that takes nobody by surprise does to the run it is about.
LEMMA SettledIs ==
    ASSUME ServerInv, NEW c \in Conversations, NEW n, NEW a,
           \E r \in Cancelled(c, n, a) : runs' = [runs EXCEPT ![c][n] = r],
           runs'[c][n] \in Stopped(c, n, a)
    PROVE  /\ \A d \in Conversations \ {c} : runs'[d] = runs[d]
           /\ DOMAIN runs'[c] = DOMAIN runs[c] /\ Len(runs'[c]) = Len(runs[c])
           /\ \A m \in DOMAIN runs[c] : m # n => runs'[c][m] = runs[c][m]
           /\ n \in DOMAIN runs[c] =>
                /\ runs'[c][n].activity = runs[c][n].activity
                /\ runs'[c][n].status =
                     IF IsActive(runs[c][n]) THEN "interrupted" ELSE runs[c][n].status
                /\ IsActive(runs[c][n]) => n = Len(runs[c])
                /\ ~IsActive(runs[c][n]) => runs[c][n].status \in TerminalStatuses
  <1>1. PICK r \in Cancelled(c, n, a) : runs' = [runs EXCEPT ![c] = [runs[c] EXCEPT ![n] = r]]
    OBVIOUS
  <1>2. RunsOK /\ runs[c] \in Seq(Run) /\ runs \in [Conversations -> Seq(Run)]
    BY DEF ServerInv, RunsOK
  <1>3. /\ \A d \in Conversations \ {c} : runs'[d] = runs[d]
        /\ runs'[c] = [runs[c] EXCEPT ![n] = r]
    BY <1>1, <1>2
  <1>4. CASE n \notin DOMAIN runs[c]
    <2>1. runs'[c] = runs[c]
      BY <1>2, <1>3, <1>4
    <2> QED
      BY <1>3, <1>4, <2>1
  <1>5. CASE n \in DOMAIN runs[c]
    <2> DEFINE x == runs[c][n]
    <2>1. x \in Run /\ r \in Run
      BY <1>2, <1>5, CancelledEnds
    <2>2. /\ DOMAIN runs'[c] = DOMAIN runs[c] /\ Len(runs'[c]) = Len(runs[c])
          /\ \A m \in DOMAIN runs[c] : runs'[c][m] = IF m = n THEN r ELSE runs[c][m]
      BY <1>2, <1>3, <1>5, <2>1, ExceptSeq
    <2>3. /\ runs'[c][n].activity = Settled(x, a).activity
          /\ runs'[c][n].status = Settled(x, a).status
      <3>1. Settled(x, a) \in Run
        BY <2>1, InterruptedEnds
      <3>2. \/ runs'[c][n] = Settled(x, a)
            \/ \E late : runs'[c][n] = [Settled(x, a) EXCEPT !.late = late]
        BY DEF Stopped, If
      <3> QED
        BY <3>1, <3>2 DEF Run
    <2>4. /\ Settled(x, a).activity = x.activity
          /\ Settled(x, a).status = IF IsActive(x) THEN "interrupted" ELSE x.status
          /\ ~IsActive(x) => x.status \in TerminalStatuses
      <3> DEFINE y == IF a # 0 /\ x.approval = "pending"
                      THEN [x EXCEPT !.approval = "invalidated"] ELSE x
      <3>1. y \in Run /\ y.status = x.status /\ y.activity = x.activity
        BY <2>1 DEF Run, ApprovalStatuses
      <3> HIDE DEF y
      <3>2. /\ Interrupted(y).activity = y.activity
            /\ Interrupted(y).status = IF IsActive(y) THEN "interrupted" ELSE y.status
            /\ ~IsActive(y) => y.status \in TerminalStatuses
        <4> DEFINE z == [y EXCEPT !.status = "interrupted", !.late = "none"]
        <4>1. z.activity = y.activity
          BY <3>1 DEF Run
        <4>2. z.status = "interrupted"
          BY <3>1 DEF Run
        <4>3. y.status \in TerminalStatuses <=> ~IsActive(y)
          BY <3>1 DEF Run, RunStatuses, IsActive, ActiveStatuses, TerminalStatuses
        <4> QED
          BY <4>1, <4>2, <4>3 DEF Interrupted
      <3> QED
        BY <3>1, <3>2 DEF Settled, y, IsActive
    <2>5. IsActive(x) => n = Len(runs[c])
      BY <1>5 DEF ServerInv, OneActiveRun, ActiveRuns, IsActive
    <2> HIDE DEF x
    <2> QED
      BY <1>3, <1>5, <2>2, <2>3, <2>4, <2>5 DEF x
  <1> QED
    BY <1>4, <1>5

\* What a Stop does to the task and to the queue: the waiter tells of the decision it has.
LEMMA CancelIs ==
    ASSUME ServerInv, ClientInv, ViewInv, NEW c \in Conversations, CancelTask(c)
    PROVE  /\ task'[c].out = <<>>
           /\ \A d \in Conversations \ {c} : task'[d] = task[d] /\ stream'[d] = stream[d]
           /\ stream' = stream \/ ~Overflows(c, 1) =>
                LET q == stream[c].queue
                    p == stream'[c].queue
                IN /\ \A k \in DOMAIN q : k \in DOMAIN p /\ p[k] = q[k]
                   /\ \A k \in DOMAIN p : k \in DOMAIN q \/ p[k].type = "approval.resolved"
  <1> DEFINE n == task[c].run
             e == [type |-> "approval.resolved", run |-> n]
  <1>1. /\ task' = [task EXCEPT ![c] = NoTask]
        /\ stream' = stream \/ (n # 0 /\ stream' = Published(c, <<e>>))
        /\ DOMAIN task = Conversations
    BY DEF CancelTask, ServerInv, TasksOK
  <1>2. task'[c].out = <<>> /\ \A d \in Conversations \ {c} : task'[d] = task[d]
    BY <1>1 DEF NoTask
  <1>3. CASE stream' = stream
    BY <1>2, <1>3
  <1>4. CASE n # 0 /\ stream' = Published(c, <<e>>) /\ stream[c].phase # "open"
    BY <1>2, <1>3, <1>4 DEF Published
  <1>5. CASE n # 0 /\ stream' = Published(c, <<e>>) /\ stream[c].phase = "open" /\ stream' # stream
    <2>1. e \in Event
      <3>1. n \in DOMAIN runs[c] /\ runs[c] \in Seq(Run)
        BY <1>5 DEF ServerInv, RunsOK, ViewInv, TaskTrue
      <3>2. n \in Session
        BY <3>1 DEF Session
      <3> QED
        BY <3>2 DEF Event, EventTypes
    <2> DEFINE q == stream[c].queue
               p == stream'[c].queue
    <2>2. q \in Seq(Event)
      BY DEF ViewInv, ConnectionTrue, EventsTrue
    <2>3. /\ \A d \in Conversations \ {c} : stream'[d] = stream[d]
          /\ ~Overflows(c, 1) => p = q \o <<e>>
      <3>1. <<e>> \in Seq(Event) /\ Len(<<e>>) = 1
        BY <2>1
      <3> HIDE DEF e
      <3> QED
        BY <1>5, <3>1, PublishedIs
    <2>4. e.type = "approval.resolved"
      OBVIOUS
    <2> HIDE DEF e, p
    <2>5. /\ \A k \in DOMAIN q : k \in DOMAIN (q \o <<e>>) /\ (q \o <<e>>)[k] = q[k]
          /\ \A k \in DOMAIN (q \o <<e>>) :
               k \in DOMAIN q \/ (q \o <<e>>)[k].type = "approval.resolved"
      <3>1. q \o <<e>> = Append(q, e)
        BY <2>1, <2>2
      <3> HIDE DEF q
      <3>2. /\ DOMAIN Append(q, e) = 1..(Len(q) + 1) /\ DOMAIN q = 1..Len(q) /\ Len(q) \in Nat
            /\ \A k \in 1..Len(q) : Append(q, e)[k] = q[k]
            /\ Append(q, e)[Len(q) + 1] = e
        BY <2>1, <2>2
      <3> QED
        BY <2>4, <3>1, <3>2
    <2> QED
      BY <1>2, <1>5, <2>3, <2>5 DEF p
  <1> QED
    BY <1>1, <1>3, <1>4, <1>5

\* A Stop is served (interrupt_run).
LEMMA StopServedOn ==
    ASSUME ServerInv, ClientInv, ViewInv, ConnectionInv, NEW i \in DOMAIN requests, StopServed(i)
    PROVE  CatchesOn
  <1> DEFINE r == requests[i]
             c == r.conv
             n == r.session
             a == r.got.approval
             q == requests'[i]
  <1>1. CASE excused'
    BY <1>1 DEF CatchesOn, CaughtOn, ToldOn, Clean
  <1>2. CASE ~excused'
    <2>1. Answered(i, "accepted")
      BY <1>2 DEF StopServed
    <2>2. /\ r.kind = "stop" /\ r.answer = "begun" /\ r.ok /\ c \in Conversations
          /\ active \in Conversations
          /\ UNCHANGED <<view, active, told>>
          /\ Changed(requests, requests', i, q) /\ q.answer = "accepted"
          /\ q.kind = r.kind /\ q.conv = r.conv /\ q.ok = r.ok /\ q.fresh = r.fresh
          /\ i \in DOMAIN requests'
      BY <2>1, SomeRequest, AnsweredIs DEF StopServed, ClientInv
    <2>3. /\ InterruptRun(c, n, a) /\ ~EndUntold(c, n)
          /\ runs'[c][n] \in Stopped(c, n, a)
          /\ missed' = (missed \/ (c = active /\ stream' # stream /\ Overflows(c, 1)))
      BY <1>2 DEF StopServed
    <2>4. /\ CancelTask(c) /\ task[c].run \in {0, n}
          /\ \E x \in Cancelled(c, n, a) : runs' = [runs EXCEPT ![c][n] = x]
      BY <2>3 DEF InterruptRun
    <2> HIDE DEF r, c, n, a, q
    <2>5. /\ \A d \in Conversations \ {c} : runs'[d] = runs[d]
          /\ DOMAIN runs'[c] = DOMAIN runs[c] /\ Len(runs'[c]) = Len(runs[c])
          /\ \A m \in DOMAIN runs[c] : m # n => runs'[c][m] = runs[c][m]
          /\ n \in DOMAIN runs[c] =>
                /\ runs'[c][n].activity = runs[c][n].activity
                /\ runs'[c][n].status =
                     IF IsActive(runs[c][n]) THEN "interrupted" ELSE runs[c][n].status
                /\ IsActive(runs[c][n]) => n = Len(runs[c])
                /\ ~IsActive(runs[c][n]) => runs[c][n].status \in TerminalStatuses
      BY <2>2, <2>3, <2>4, SettledIs
    <2>6. /\ task'[c].out = <<>>
          /\ \A d \in Conversations \ {c} : task'[d] = task[d] /\ stream'[d] = stream[d]
          /\ stream' = stream \/ ~Overflows(c, 1) =>
               /\ \A k \in DOMAIN stream[c].queue : /\ k \in DOMAIN stream'[c].queue
                                                    /\ stream'[c].queue[k] = stream[c].queue[k]
               /\ \A k \in DOMAIN stream'[c].queue :
                    k \in DOMAIN stream[c].queue \/ stream'[c].queue[k].type = "approval.resolved"
      BY <2>2, <2>4, CancelIs
    <2>7. \A b, rs, t : Carries(requests[i], q, b, rs, t)
      BY <2>2, AnswerCarries DEF r
    <2>8. CASE c # active
      BY <2>2, <2>5, <2>6, <2>7, <2>8, CarriedOn
    <2>9. CASE c = active
      <3> DEFINE rs == runs[active]
                 ss == runs'[active]
                 t == task[active]
                 u == task'[active]
                 qu == stream[active].queue
                 p == stream'[active].queue
                 v == view[active]
      <3>1. /\ CatchesUp(active, rs, t, qu, requests, v) => CatchesUp(active, rs, t, qu, requests', v)
            /\ \A m \in DOMAIN ActivityList(rs) :
                 ActivityAwaited(active, rs, requests, v, m) =>
                   ActivityAwaited(active, rs, requests', v, m)
        BY <2>2, <2>7, ChangedOnward
      <3>2. /\ rs \in Seq(Run) /\ EventsTrue(rs, qu)
            /\ t.run # 0 => t.run = n /\ n \in DOMAIN rs
            /\ t.run = 0 => t.out = <<>>
            /\ \A k \in DOMAIN t.out : t.out[k].run = t.run
        BY <2>2, <2>4, <2>9 DEF ServerInv, RunsOK, ViewInv, ConnectionTrue, TaskTrue
      <3>3. n \in DOMAIN rs /\ ~IsActive(rs[n]) => t.out = <<>>
        BY <2>3, <2>5, <2>9 DEF EndUntold
      <3>4. StopIsServed(requests'[i], active)
        BY <2>2, <2>9 DEF StopIsServed, q, c, r
      <3>5. Clean' => stream' = stream \/ ~Overflows(c, 1)
        BY <2>3, <2>9 DEF Clean
      <3>6. ASSUME stream' = stream \/ ~Overflows(c, 1), CatchesUp(active, rs, t, qu, requests', v)
            PROVE  CatchesUp(active, ss, u, p, requests', v)
        <4>1. /\ DOMAIN ss = DOMAIN rs /\ Len(ss) = Len(rs)
              /\ \A m \in DOMAIN rs : m # n => ss[m] = rs[m]
              /\ n \in DOMAIN rs =>
                   /\ ss[n].activity = rs[n].activity
                   /\ ss[n].status = IF IsActive(rs[n]) THEN "interrupted" ELSE rs[n].status
                   /\ IsActive(rs[n]) => n = Len(rs)
                   /\ ~IsActive(rs[n]) => t.out = <<>>
              /\ u.out = <<>>
          BY <2>5, <2>6, <2>9, <3>3
        <4>2. /\ \A k \in DOMAIN qu : k \in DOMAIN p /\ p[k] = qu[k]
              /\ \A k \in DOMAIN p : k \in DOMAIN qu \/ p[k].type = "approval.resolved"
          BY <2>6, <2>9, <3>6
        <4> DEFINE s == requests'
        <4>3. i \in DOMAIN s /\ StopIsServed(s[i], active) /\ CatchesUp(active, rs, t, qu, s, v)
          BY <2>2, <3>4, <3>6
        <4>4. /\ rs \in Seq(Run) /\ EventsTrue(rs, qu)
              /\ t.run # 0 => t.run = n /\ n \in DOMAIN rs
              /\ t.run = 0 => t.out = <<>>
              /\ \A k \in DOMAIN t.out : t.out[k].run = t.run
          BY <3>2
        <4> HIDE DEF rs, ss, t, u, qu, p, v, s
        <4>5. StopMoves(rs, ss, t, u, qu, p, n)
          BY <4>1, <4>2, <4>4 DEF StopMoves
        <4>6. CatchesUp(active, ss, u, p, s, v)
          BY <4>3, <4>5, StopOnward
        <4> QED
          BY <4>6 DEF s
      <3>7. CaughtOn
        BY <2>2, <3>1, <3>5, <3>6 DEF CaughtOn, Caught
      <3>8. ASSUME NEW m \in DOMAIN ActivityList(ss)
            PROVE  /\ m \in DOMAIN ActivityList(rs)
                   /\ ActivityAwaited(active, rs, requests, v, m) =>
                        ActivityAwaited(active, ss, requests', v, m)
        <4>1. m \in DOMAIN rs /\ ss[m].activity # "none"
          BY <2>5, <2>9 DEF ActivityList
        <4>2. /\ ss[m].activity = rs[m].activity
              /\ ss[m].status = rs[m].status \/ ss[m].status = "interrupted"
          BY <2>5, <2>9, <4>1
        <4>3. m \in DOMAIN ActivityList(rs)
          BY <4>1, <4>2 DEF ActivityList
        <4> QED
          BY <3>1, <4>2, <4>3, SameActivity
      <3>9. ToldOn
        BY <2>2, <3>8 DEF ToldOn
      <3> QED
        BY <3>7, <3>9 DEF CatchesOn
    <2> QED
      BY <2>8, <2>9
  <1> QED
    BY <1>1, <1>2

\* A late write that leaves the status of its run is that of the tool call of an
\* interrupted run, which the page does not look at (upsert_tool_activity).
LEMMA LateOnward ==
    ASSUME ServerInv, ViewInv, NEW c \in Conversations, LateWrite(c), ~excused'
    PROVE  \E n \in DOMAIN runs[c] :
             /\ DOMAIN runs'[c] = DOMAIN runs[c] /\ Len(runs'[c]) = Len(runs[c])
             /\ \A m \in DOMAIN runs[c] \ {n} : runs'[c][m] = runs[c][m]
             /\ runs[c][n].status = "interrupted" /\ runs'[c][n].status = "interrupted"
             /\ runs'[c][n].approval = runs[c][n].approval
             /\ \A d \in Conversations \ {c} : runs'[d] = runs[d]
  <1>1. PICK n \in DOMAIN runs[c] :
          /\ \E r \in LateLanded(runs[c][n]) : runs' = [runs EXCEPT ![c][n] = r]
          /\ runs'[c][n].status = runs[c][n].status
    BY DEF LateWrite, LandLate
  <1>2. PICK r \in LateLanded(runs[c][n]) :
          runs' = [runs EXCEPT ![c] = [runs[c] EXCEPT ![n] = r]]
    BY <1>1
  <1> DEFINE x == runs[c][n]
  <1>3. runs[c] \in Seq(Run) /\ x \in Run /\ LateTrue(x) /\ r \in Run
    BY LateSteps DEF ServerInv, RunsOK, ViewInv
  <1>4. /\ \A d \in Conversations \ {c} : runs'[d] = runs[d]
        /\ runs'[c] = [runs[c] EXCEPT ![n] = r]
    BY <1>2 DEF ServerInv, RunsOK
  <1>5. /\ DOMAIN runs'[c] = DOMAIN runs[c] /\ Len(runs'[c]) = Len(runs[c])
        /\ \A m \in DOMAIN runs[c] : runs'[c][m] = IF m = n THEN r ELSE runs[c][m]
    BY <1>3, <1>4, ExceptSeq
  <1>6. r.status = x.status
    BY <1>1, <1>5
  <1> HIDE DEF x
  <1>7. x.status = "interrupted" /\ r.approval = x.approval
    <2> DEFINE landed == [x EXCEPT !.late = "none"]
    <2>1. landed \in Run /\ landed.status = x.status /\ landed.approval = x.approval
      BY <1>3 DEF Run
    <2> HIDE DEF landed
    <2>2. r \notin Started(landed) /\ r \notin Failed(landed)
      BY <1>6, <2>1 DEF Started, Failed, If, WithStatus, Run
    <2>3. x.late \in ActivityStatuses /\ r = [landed EXCEPT !.activity = x.late]
      <3>1. r \in LateLanded(x)
        BY DEF x
      <3> QED
        BY <2>2, <3>1 DEF LateLanded, If, landed
    <2> QED
      BY <1>3, <2>1, <2>3 DEF LateTrue, Run
  <1> QED
    BY <1>4, <1>5, <1>6, <1>7 DEF x

\* It leaves nothing behind that will not be told (LateWrite).
LEMMA LateWriteOn ==
    ASSUME ServerInv, ClientInv, ViewInv, NEW c \in Conversations, LateWrite(c)
    PROVE  CatchesOn
  <1>1. /\ UNCHANGED <<task, stream, view, active, requests, told>>
        /\ active \in Conversations
    BY LateLeaves DEF ClientInv
  <1>2. CASE excused'
    BY <1>2 DEF CatchesOn, CaughtOn, ToldOn, Clean
  <1>3. CASE ~excused'
    <2>1. CASE c # active
      <3>1. runs'[active] = runs[active]
        BY <1>1, <1>3, <2>1, LateOnward
      <3> QED
        BY <1>1, <3>1, NothingOnward
    <2>2. CASE c = active
      <3> DEFINE rs == runs[active]
                 ss == runs'[active]
                 t == task[active]
                 q == stream[active].queue
                 v == view[active]
      <3>1. PICK n \in DOMAIN rs :
              /\ DOMAIN ss = DOMAIN rs /\ Len(ss) = Len(rs)
              /\ \A m \in DOMAIN rs \ {n} : ss[m] = rs[m]
              /\ rs[n].status = "interrupted" /\ ss[n].status = "interrupted"
              /\ ss[n].approval = rs[n].approval
        BY <1>3, <2>2, LateOnward
      <3>2. /\ rs \in Seq(Run) /\ EventsTrue(rs, q)
            /\ t.run # 0 => t.run \in DOMAIN rs
            /\ \A i \in DOMAIN requests :
                 IsBegun(requests[i]) /\ requests[i].conv = active =>
                   requests[i].session \in DOMAIN rs
        BY <1>1 DEF ServerInv, RunsOK, ViewInv, ConnectionTrue, TaskTrue, RequestTrue, IsBegun
      <3> HIDE DEF rs, ss, t, q, v
      <3>3. \A m \in DOMAIN rs : ss[m].status = rs[m].status /\ ss[m].approval = rs[m].approval
        BY <3>1
      <3>4. \A m \in DOMAIN ActivityList(ss) :
              \/ ss[m].status = "interrupted"
              \/ m \in DOMAIN ActivityList(rs) /\ ss[m] = rs[m]
        BY <3>1 DEF ActivityList
      <3>5. CatchesUp(active, rs, t, q, requests, v) => CatchesUp(active, ss, t, q, requests, v)
        BY <3>1, <3>2, <3>3, <3>4, TouchedOnward
      <3>6. CaughtOn
        BY <1>1, <3>5 DEF CaughtOn, Caught, rs, ss, t, q, v
      <3>7. ToldOn
        BY <1>1, <3>4 DEF ToldOn, ActivityAwaited, ShowsActivity, rs, ss
      <3> QED
        BY <3>6, <3>7 DEF CatchesOn
    <2> QED
      BY <2>1, <2>2
  <1> QED
    BY <1>2, <1>3

\* Nothing is promised when the server goes down and before it is up again, nor once the
\* connection is lost.
LEMMA FaultsCatchUp ==
    ASSUME ServerInv, ClientInv, ViewInv, ConnectionInv, [Next]_vars,
           ServerCrash \/ ServerRestart \/ \E c \in Conversations : LoseConnection(c)
    PROVE  CatchUpInv'
  <1>1. CASE ServerCrash
    <2>1. ~up' /\ ConnectionInv'
      BY <1>1, ConnectionInvStep DEF ServerCrash, Crash
    <2>2. active' \in Conversations
      BY <1>1 DEF ServerCrash, ClientInv
    <2> QED
      BY <2>1, <2>2 DEF CatchUpInv, ConnectionInv
  <1>2. CASE ServerRestart
    <2>1. ~up /\ UNCHANGED <<stream, requests, active, missed, excused>>
      BY <1>2 DEF ServerRestart, Restart
    <2>2. ~Clean /\ stream[active].phase # "open"
      BY <2>1 DEF ConnectionInv, ClientInv
    <2>3. ~Clean'
      BY <2>1, <2>2 DEF Clean, Watching
    <2> QED
      BY <2>1, <2>2, <2>3 DEF CatchUpInv
  <1>3. ASSUME NEW c \in Conversations, LoseConnection(c)
        PROVE  CatchUpInv'
    <2>1. /\ stream[c].phase \in {"connecting", "open"} /\ stream' = [stream EXCEPT ![c] = Broken]
          /\ UNCHANGED <<requests, active>>
      BY <1>3 DEF LoseConnection
    <2>2. c = active
      BY <2>1, SpeakingIsActive
    <2>3. stream'[active].phase = "broken"
      BY <2>1, <2>2 DEF ClientInv, Broken
    <2>4. ~\E i \in DOMAIN requests : Restores(requests[i], active)
      BY <2>1, <2>2, RestoresIs DEF ConnectionInv
    <2>5. ~Clean'
      BY <2>1, <2>3, <2>4 DEF Clean, Watching
    <2> QED
      BY <2>1, <2>3, <2>5 DEF CatchUpInv
  <1> QED
    BY <1>1, <1>2, <1>3

\* A request is lost.
LEMMA LoseRequestOn ==
    ASSUME ClientInv, ViewInv, ConnectionInv, NEW i \in DOMAIN requests, LoseRequest(i)
    PROVE  CatchesOn
  <1> DEFINE r == requests[i]
             q == requests'[i]
  <1>1. PICK no \in BOOLEAN : no = FALSE
    OBVIOUS
  <1>2. /\ UNCHANGED <<runs, task, stream, view, active, told>>
        /\ requests' = [requests EXCEPT ![i] = [r EXCEPT !.ok = no]]
        /\ excused' \/ r.kind \in Restoration
    BY <1>1 DEF LoseRequest, serverVars, Restoration
  <1>3. /\ Changed(requests, requests', i, q)
        /\ q.kind = r.kind /\ q.fresh = r.fresh /\ ~q.ok
    <2>1. IsRequest(r)
      BY SomeRequest
    <2> DEFINE t == [r EXCEPT !.ok = no]
    <2>2. t = [kind |-> r.kind, conv |-> r.conv, session |-> r.session, fresh |-> r.fresh,
               ok |-> no, answer |-> r.answer, got |-> r.got]
      BY <2>1, OkSet
    <2> HIDE DEF t
    <2>3. Changed(requests, requests', i, t) /\ q = t
      BY <1>2, PlaceByPlace DEF t, ClientInv
    <2> QED
      BY <1>1, <2>2, <2>3
  <1>4. CASE excused'
    BY <1>4 DEF CatchesOn, CaughtOn, ToldOn, Clean
  <1>5. CASE r.kind \in Restoration /\ r.fresh
    <2>1. IsWanted(r) /\ stream[active].phase = "closed"
      BY <1>5 DEF IsWanted, ConnectionInv
    <2>2. ~Clean'
      <3>1. ASSUME NEW j \in DOMAIN requests', Restores(requests'[j], active)
            PROVE  FALSE
        <4>1. IsWanted(requests'[j]) /\ requests'[j].ok
          BY <3>1, RestoresIs
        <4>2. j # i /\ j \in DOMAIN requests /\ requests'[j] = requests[j]
          BY <1>3, <4>1 DEF Changed, Sized
        <4> QED
          BY <2>1, <4>1, <4>2 DEF ConnectionInv, OneWanted
      <3> QED
        BY <1>2, <2>1, <3>1 DEF Clean, Watching
    <2> QED
      BY <2>1, <2>2 DEF CatchesOn, CaughtOn, ToldOn
  <1>6. CASE r.kind \in Restoration /\ ~r.fresh
    <2>1. /\ ~Effective(r, active) /\ ~Effective(q, active)
          /\ ~Begins(r, active) /\ ~StopIsServed(r, active) /\ ~IsBegun(r) /\ ~Fails(q)
      BY <1>3, <1>6 DEF Effective, HasEffect, Unguarded, Restoration, Begins, StopIsServed,
           IsBegun, Fails
    <2>2. Carries(r, q, active, runs[active], task[active])
      BY <1>3, <2>1 DEF Carries
    <2> QED
      BY <1>2, <1>3, <2>2, CarriedOn
  <1> QED
    BY <1>2, <1>4, <1>5, <1>6

\* The page subscribes, and the user turns a card over.
LEMMA NothingMoves ==
    ASSUME ClientInv, ViewInv, ToggleGroup \/ \E c \in Conversations : Subscribe(c)
    PROVE  CatchesOn
  <1>1. CASE ToggleGroup
    BY <1>1, NothingOnward DEF ToggleGroup, serverVars
  <1>2. ASSUME NEW c \in Conversations, Subscribe(c)
        PROVE  CatchesOn
    <2>1. /\ stream[c].phase = "connecting" /\ stream' = [stream EXCEPT ![c] = Subscribed]
          /\ UNCHANGED <<runs, task, view, active, requests>>
      BY <1>2 DEF Subscribe
    <2>2. c = active /\ DOMAIN stream = Conversations
      BY <2>1, SpeakingIsActive DEF ClientInv
    <2>3. stream[active].queue = <<>>
      BY <2>1, <2>2 DEF ViewInv, ConnectionTrue
    <2>4. stream'[active].queue = <<>>
      BY <2>1, <2>2 DEF Subscribed
    <2> QED
      BY <2>1, <2>3, <2>4, NothingOnward
  <1> QED
    BY <1>1, <1>2

\* A request is issued.
LEMMA IssueOn ==
    ASSUME ClientInv, ViewInv, ConnectionInv, NEW kind, NEW n, Issue(kind, n)
    PROVE  CatchesOn
  <1> DEFINE q == Request(kind, active, n)
  <1>1. /\ requests' = Append(requests, q)
        /\ UNCHANGED <<runs, task, stream, up, view, active>>
    BY DEF Issue, serverVars
  <1>2. q.got = <<>> /\ (Fails(q) => ~up)
    BY DEF Request, Fails
  <1> HIDE DEF q
  <1>3. Added(requests, requests', q)
    BY <1>1, PlaceByPlace DEF ClientInv
  <1>4. CASE up
    <2>1. /\ \A c, rs, t, qu, v :
               CatchesUp(c, rs, t, qu, requests, v) => CatchesUp(c, rs, t, qu, requests', v)
          /\ \A c, rs, v, m :
               ActivityAwaited(c, rs, requests, v, m) => ActivityAwaited(c, rs, requests', v, m)
      BY <1>2, <1>3, <1>4, AddedOnward
    <2> QED
      BY <1>1, <2>1, RequestsOnward
  <1>5. CASE ~up
    <2>1. ~Clean /\ stream[active].phase # "open"
      BY <1>5 DEF ConnectionInv, ClientInv
    <2> QED
      BY <2>1 DEF CatchesOn, CaughtOn, ToldOn
  <1> QED
    BY <1>4, <1>5

\* A restoration just sent will bring everything.
LEMMA RestoringCatchesUp ==
    ASSUME NEW s, NEW k \in DOMAIN s, \A j \in DOMAIN s : ~(j > k),
           NEW c, Restores(s[k], c), s[k].got = <<>>
    PROVE  \A rs, t, v : CatchesUp(c, rs, t, <<>>, s, v)
  <1> TAKE rs, t, v
  <1>1. Effective(s[k], c) /\ s[k].kind \in {"restore", "reconnect"}
    BY DEF Restores, Restoration
  <1>2. \A part \in AnswerParts : Brings(s[k], c, part)
    BY <1>1 DEF Brings, AnswerParts, Parts, Rank
  <1>3. \A part : part \notin DOMAIN s[k].got
    OBVIOUS
  <1>4. \A part \in AnswerParts : \A value : LastBrings(s, c, part, value)
    BY <1>2, <1>3 DEF LastBrings
  <1>5. {"state", "runs", "messages"} \subseteq AnswerParts
    BY DEF AnswerParts, Rank
  <1>6. StateCatchesUp(c, rs, t, <<>>, s, v) /\ RunsCatchUp(c, rs, t, <<>>, s, v)
    BY <1>4, <1>5 DEF StateCatchesUp, RunsCatchUp, Awaited
  <1>7. MessagesCatchUp(c, rs, t, <<>>, s, v)
    BY <1>2, <1>3, <1>5 DEF MessagesCatchUp, BringsMessage
  <1>8. ActivitiesCatchUp(c, rs, t, <<>>, s, v)
    BY <1>1 DEF ActivitiesCatchUp, ActivityAwaited, BringsActivity, Restoration
  <1>9. ErrorsPass(c, s, v) /\ StartsAreFollowed(rs, t, <<>>)
    BY DEF ErrorsPass, StartsAreFollowed
  <1> QED
    BY <1>6, <1>7, <1>8, <1>9 DEF CatchesUp

\* A restoration is sent, or a connection without one (handleSelect, connectStream).
LEMMA RestoringCatchUp ==
    ASSUME ServerInv, ClientInv, ViewInv, ConnectionInv, [Next]_vars,
           \E c \in Conversations : Select(c) \/ StreamError(c)
    PROVE  CatchUpInv'
  <1>1. ConnectionInv'
    BY ConnectionInvStep
  <1>2. ASSUME NEW c \in Conversations, NEW kind \in Restoration, active' = c, CloseStream, up' = up,
               NEW k \in DOMAIN requests', \A j \in DOMAIN requests' : ~(j > k),
               requests'[k] = Request(kind, c, 0)
        PROVE  CatchUpInv'
    <2>1. stream'[c].phase = "closed" /\ stream'[c].queue = <<>>
      BY <1>2 DEF CloseStream, Closed
    <2>2. /\ requests'[k].kind = kind /\ requests'[k].conv = c /\ requests'[k].fresh
          /\ requests'[k].ok = up /\ requests'[k].got = <<>>
      BY <1>2 DEF Request
    <2>3. up => Restores(requests'[k], c)
      BY <2>2 DEF Restores, Effective, HasEffect
    <2>4. up => \A rs, t, v : CatchesUp(c, rs, t, <<>>, requests', v)
      BY <1>2, <2>2, <2>3, RestoringCatchesUp
    <2>5. Clean' => up
      BY <1>1, <1>2 DEF ConnectionInv
    <2> QED
      BY <1>2, <2>1, <2>4, <2>5 DEF CatchUpInv
  <1>3. ASSUME NEW c \in Conversations, Select(c)
        PROVE  CatchUpInv'
    <2> DEFINE k == Len(requests')
    <2>1. /\ Sized(requests') /\ Sized(requests) /\ k = Len(requests) + 1
          /\ requests'[k] = Request("restore", c, 0)
      BY <1>3, SelectedRequests
    <2>2. k \in DOMAIN requests' /\ \A j \in DOMAIN requests' : ~(j > k)
      BY <2>1 DEF Sized
    <2>3. active' = c /\ CloseStream /\ up' = up
      BY <1>3 DEF Select
    <2> HIDE DEF k
    <2> QED
      BY <1>2, <2>1, <2>2, <2>3 DEF Restoration
  <1>4. ASSUME NEW c \in Conversations, StreamError(c), ~Reconnecting
        PROVE  CatchUpInv'
    <2> DEFINE k == Len(requests')
    <2>1. /\ requests' = Append(requests, Request("reconnect", c, 0))
          /\ CloseStream /\ UNCHANGED <<up, active>> /\ stream[c].phase # "closed"
      BY <1>4 DEF StreamError
    <2>2. /\ Sized(requests') /\ Sized(requests) /\ k = Len(requests) + 1
          /\ requests'[k] = Request("reconnect", c, 0)
      BY <2>1, PlaceByPlace DEF Added, ClientInv
    <2>3. k \in DOMAIN requests' /\ \A j \in DOMAIN requests' : ~(j > k)
      BY <2>2 DEF Sized
    <2>4. c = active
      BY <2>1, SpeakingIsActive
    <2> HIDE DEF k
    <2> QED
      BY <1>2, <2>1, <2>2, <2>3, <2>4 DEF Restoration
  <1>5. ASSUME NEW c \in Conversations, StreamError(c), Reconnecting
        PROVE  CatchUpInv'
    <2>1. /\ stream' = [stream EXCEPT ![c] = Connecting] /\ missed' = TRUE
          /\ stream[c].phase # "closed" /\ UNCHANGED active
      BY <1>5 DEF StreamError
    <2>2. c = active /\ DOMAIN stream = Conversations
      BY <2>1, SpeakingIsActive DEF ClientInv
    <2>3. stream'[active].phase = "connecting"
      BY <2>1, <2>2 DEF Connecting
    <2> QED
      BY <2>1, <2>3 DEF CatchUpInv, Clean
  <1> QED
    BY <1>3, <1>4, <1>5

-----------------------------------------------------------------------------
(* What an answer does to the view. *)

StateAlike(v, w) ==
  /\ w.status = v.status /\ w.latest = v.latest
  /\ w.approval = v.approval /\ w.active = v.active

\* The loads, part by part (messages.loaded, runs.loaded, activities.loaded, ...).
LEMMA LoadsAre ==
    ASSUME NEW v, IsShown(v)
    PROVE  /\ \A ms : LET w == MessagesLoaded(v, ms) IN
                /\ IsShown(w) /\ StateAlike(v, w)
                /\ w.messages = v.messages \union ms /\ w.runs = v.runs
                /\ w.activities = v.activities
                /\ ~w.error /\ (w.activitiesError <=> v.activitiesError)
           /\ \A list : LET w == RunsLoaded(v, list) IN
                /\ IsShown(w) /\ StateAlike(v, w)
                /\ w.messages = v.messages /\ w.runs = list
                /\ w.activities = v.activities
                /\ (w.error <=> v.error) /\ (w.activitiesError <=> v.activitiesError)
           /\ \A f : LET w == ActivitiesLoaded(v, f) IN
                /\ IsShown(w) /\ StateAlike(v, w)
                /\ w.messages = v.messages /\ w.runs = v.runs
                /\ w.activities = MergeActivities(v.activities, f)
                /\ (w.error <=> v.error) /\ ~w.activitiesError
           /\ LET w == ActivitiesError(v) IN
                /\ IsShown(w) /\ StateAlike(v, w)
                /\ w.messages = v.messages /\ w.runs = v.runs
                /\ w.activities = v.activities
                /\ (w.error <=> v.error)
           /\ \A s : LET w == StateLoaded(v, s) IN
                /\ IsShown(w) /\ ShowsState(w, s)
                /\ w.messages = v.messages /\ w.runs = v.runs
                /\ w.activities = v.activities
                /\ (w.error <=> v.error) /\ (w.activitiesError <=> v.activitiesError)
  <1>0. PICK no \in BOOLEAN : no = FALSE
    OBVIOUS
  <1>1. ASSUME NEW ms
        PROVE  LET w == MessagesLoaded(v, ms) IN
                /\ IsShown(w) /\ StateAlike(v, w)
                /\ w.messages = v.messages \union ms /\ w.runs = v.runs
                /\ w.activities = v.activities
                /\ ~w.error /\ (w.activitiesError <=> v.activitiesError)
    <2> DEFINE x == v.messages \union ms
               w == MessagesLoaded(v, ms)
    <2>1. w = [v EXCEPT !.messages = x, !.error = no]
      BY <1>0 DEF MessagesLoaded, MergeMessages
    <2> HIDE DEF x, w
    <2>2. w = Page(x, v.runs, v.activities, v.status, v.active, v.latest, v.approval,
                   no, v.activitiesError)
      BY <2>1, MessagesSet
    <2>3. /\ IsShown(w) /\ StateAlike(v, w)
          /\ w.messages = x /\ w.runs = v.runs /\ w.activities = v.activities
          /\ w.error = no /\ w.activitiesError = v.activitiesError
      BY <2>2 DEF Page, IsShown, StateAlike
    <2> QED
      BY <1>0, <2>3 DEF x, w
  <1>2. ASSUME NEW f
        PROVE  LET w == ActivitiesLoaded(v, f) IN
                /\ IsShown(w) /\ StateAlike(v, w)
                /\ w.messages = v.messages /\ w.runs = v.runs
                /\ w.activities = MergeActivities(v.activities, f)
                /\ (w.error <=> v.error) /\ ~w.activitiesError
    <2> DEFINE x == MergeActivities(v.activities, f)
               w == ActivitiesLoaded(v, f)
    <2>1. w = [v EXCEPT !.activities = x, !.activitiesError = no]
      BY <1>0 DEF ActivitiesLoaded
    <2> HIDE DEF x, w
    <2>2. w = Page(v.messages, v.runs, x, v.status, v.active, v.latest, v.approval, v.error, no)
      BY <2>1, ActivitiesSet
    <2>3. /\ IsShown(w) /\ StateAlike(v, w)
          /\ w.messages = v.messages /\ w.runs = v.runs /\ w.activities = x
          /\ w.error = v.error /\ w.activitiesError = no
      BY <2>2 DEF Page, IsShown, StateAlike
    <2> QED
      BY <1>0, <2>3 DEF x, w
  <1>3. ASSUME NEW list
        PROVE  LET w == RunsLoaded(v, list) IN
                /\ IsShown(w) /\ StateAlike(v, w)
                /\ w.messages = v.messages /\ w.runs = list
                /\ w.activities = v.activities
                /\ (w.error <=> v.error) /\ (w.activitiesError <=> v.activitiesError)
    <2> DEFINE w == RunsLoaded(v, list)
    <2>1. w = Page(v.messages, list, v.activities, v.status, v.active, v.latest,
                   v.approval, v.error, v.activitiesError)
      BY DEF RunsLoaded, IsShown, Page
    <2> HIDE DEF w
    <2>2. /\ IsShown(w) /\ StateAlike(v, w)
          /\ w.messages = v.messages /\ w.runs = list /\ w.activities = v.activities
          /\ w.error = v.error /\ w.activitiesError = v.activitiesError
      BY <2>1 DEF Page, IsShown, StateAlike
    <2> QED
      BY <2>2 DEF w
  <1>4. LET w == ActivitiesError(v) IN
                /\ IsShown(w) /\ StateAlike(v, w)
                /\ w.messages = v.messages /\ w.runs = v.runs
                /\ w.activities = v.activities
                /\ (w.error <=> v.error)
    <2> DEFINE w == ActivitiesError(v)
    <2>1. PICK yes \in BOOLEAN : yes = TRUE
      OBVIOUS
    <2>2. w = [v EXCEPT !.activitiesError = yes]
      BY <2>1 DEF ActivitiesError
    <2> HIDE DEF w
    <2>3. w = Page(v.messages, v.runs, v.activities, v.status, v.active, v.latest,
                   v.approval, v.error, yes)
      BY <2>2, ErrorSet
    <2>4. /\ IsShown(w) /\ StateAlike(v, w)
          /\ w.messages = v.messages /\ w.runs = v.runs /\ w.activities = v.activities
          /\ w.error = v.error
      BY <2>3 DEF Page, IsShown, StateAlike
    <2> QED
      BY <2>4 DEF w
  <1>5. ASSUME NEW s
        PROVE  LET w == StateLoaded(v, s) IN
                /\ IsShown(w) /\ ShowsState(w, s)
                /\ w.messages = v.messages /\ w.runs = v.runs
                /\ w.activities = v.activities
                /\ (w.error <=> v.error) /\ (w.activitiesError <=> v.activitiesError)
    <2> DEFINE w == StateLoaded(v, s)
               n == IF s.status \in ActiveStatuses THEN s.run ELSE 0
    <2>1. w = Page(v.messages, v.runs, v.activities, s.status, n, s.run, s.pending,
                   v.error, v.activitiesError)
      BY StateSet
    <2> HIDE DEF w, n
    <2>2. /\ IsShown(w)
          /\ w.status = s.status /\ w.latest = s.run /\ w.approval = s.pending /\ w.active = n
          /\ w.messages = v.messages /\ w.runs = v.runs /\ w.activities = v.activities
          /\ w.error = v.error /\ w.activitiesError = v.activitiesError
      BY <2>1 DEF Page, IsShown
    <2> QED
      BY <2>2 DEF w, n, ShowsState
  <1> QED
    BY <1>1, <1>2, <1>3, <1>4, <1>5

\* An answer in all its parts (restoreConversationHttp and the other continuations).
LEMMA LoadedIs ==
    ASSUME NEW v, IsShown(v), NEW got
    PROVE  LET w == Loaded(v, got) IN
           /\ w.messages = IF "messages" \in DOMAIN got THEN v.messages \union got["messages"]
                           ELSE v.messages
           /\ w.runs = IF "runs" \in DOMAIN got THEN got["runs"] ELSE v.runs
           /\ w.activities = IF "activities" \in DOMAIN got
                             THEN MergeActivities(v.activities, got["activities"])
                             ELSE v.activities
           /\ IF "state" \in DOMAIN got THEN ShowsState(w, got["state"]) ELSE StateAlike(v, w)
           /\ w.error => v.error /\ "messages" \notin DOMAIN got
           /\ w.activitiesError =>
                /\ "activities" \notin DOMAIN got
                /\ v.activitiesError \/ "noActivities" \in DOMAIN got
  <1> DEFINE v1 == IF "messages" \in DOMAIN got
                   THEN MessagesLoaded(v, got["messages"]) ELSE v
             v2 == IF "runs" \in DOMAIN got THEN RunsLoaded(v1, got["runs"]) ELSE v1
             v3 == IF "activities" \in DOMAIN got
                   THEN ActivitiesLoaded(v2, got["activities"])
                   ELSE IF "noActivities" \in DOMAIN got THEN ActivitiesError(v2) ELSE v2
             v4 == IF "state" \in DOMAIN got THEN StateLoaded(v3, got["state"]) ELSE v3
  <1>1. /\ IsShown(v1) /\ StateAlike(v, v1)
        /\ v1.messages = IF "messages" \in DOMAIN got THEN v.messages \union got["messages"]
                         ELSE v.messages
        /\ v1.runs = v.runs /\ v1.activities = v.activities
        /\ v1.error => v.error /\ "messages" \notin DOMAIN got
        /\ v1.activitiesError <=> v.activitiesError
    <2>1. CASE "messages" \in DOMAIN got
      <3>1. v1 = MessagesLoaded(v, got["messages"])
        BY <2>1
      <3> HIDE DEF v1
      <3> QED
        BY <2>1, <3>1, LoadsAre
    <2>2. CASE "messages" \notin DOMAIN got
      <3>1. v1 = v
        BY <2>2
      <3> HIDE DEF v1
      <3> QED
        BY <2>2, <3>1 DEF StateAlike
    <2> QED
      BY <2>1, <2>2
  <1> HIDE DEF v1
  <1>2. /\ IsShown(v2) /\ StateAlike(v1, v2)
        /\ v2.messages = v1.messages /\ v2.activities = v1.activities
        /\ v2.runs = IF "runs" \in DOMAIN got THEN got["runs"] ELSE v1.runs
        /\ (v2.error <=> v1.error) /\ (v2.activitiesError <=> v1.activitiesError)
    BY <1>1, LoadsAre DEF StateAlike
  <1> HIDE DEF v2
  <1>3. /\ IsShown(v3) /\ StateAlike(v2, v3)
        /\ v3.messages = v2.messages /\ v3.runs = v2.runs
        /\ v3.activities = IF "activities" \in DOMAIN got
                           THEN MergeActivities(v2.activities, got["activities"])
                           ELSE v2.activities
        /\ v3.error <=> v2.error
        /\ v3.activitiesError => /\ "activities" \notin DOMAIN got
                                 /\ v2.activitiesError \/ "noActivities" \in DOMAIN got
    BY <1>2, LoadsAre DEF StateAlike
  <1> HIDE DEF v3
  <1>4. /\ IF "state" \in DOMAIN got THEN ShowsState(v4, got["state"]) ELSE StateAlike(v3, v4)
        /\ v4.messages = v3.messages /\ v4.runs = v3.runs /\ v4.activities = v3.activities
        /\ (v4.error <=> v3.error) /\ (v4.activitiesError <=> v3.activitiesError)
    BY <1>3, LoadsAre DEF StateAlike
  <1>5. Loaded(v, got) = v4
    BY DEF Loaded, v1, v2, v3
  <1> HIDE DEF v4
  <1> QED
    BY <1>1, <1>2, <1>3, <1>4, <1>5 DEF StateAlike

\* Merging shows what is merged, and what was shown (mergeActivities).
LEMMA MergeShows ==
    ASSUME NEW rs, NEW f, NEW g, ActivitiesTrue(rs, f), ActivitiesTrue(rs, g), NEW n,
           \/ n \in DOMAIN f /\ f[n] = rs[n].activity
           \/ n \in DOMAIN g /\ g[n] = rs[n].activity
    PROVE  /\ n \in DOMAIN MergeActivities(f, g)
           /\ MergeActivities(f, g)[n] = rs[n].activity
  <1> DEFINE h == MergeActivities(f, g)
  <1>1. /\ n \in DOMAIN h
        /\ h[n] = IF /\ n \in DOMAIN f
                     /\ n \in DOMAIN g => f[n] \in TerminalActivityStatuses
                  THEN f[n] ELSE g[n]
    BY DEF MergeActivities
  <1> HIDE DEF h
  <1>2. n \in DOMAIN f => /\ f[n] \in {"running"} \union TerminalActivityStatuses
                          /\ f[n] \in TerminalActivityStatuses => rs[n].activity = f[n]
    BY DEF ActivitiesTrue, IsActivities, ActivityTrue, ActivityStatuses
  <1>3. n \in DOMAIN g => /\ g[n] \in {"running"} \union TerminalActivityStatuses
                          /\ g[n] \in TerminalActivityStatuses => rs[n].activity = g[n]
    BY DEF ActivitiesTrue, IsActivities, ActivityTrue, ActivityStatuses
  <1>4. h[n] = rs[n].activity
    BY <1>1, <1>2, <1>3
  <1> QED
    BY <1>1, <1>4 DEF h

-----------------------------------------------------------------------------
(* A continuation runs: its request leaves, what it has brought is shown,  *)
(* and another request may follow.                                         *)

(* z is u, or u with a request after it that has got nothing yet.          *)
Extends(u, z) == z = u \/ \E q : Added(u, z, q) /\ q.got = <<>> /\ ~Fails(q)

\* What is awaited still is.
LEMMA ExtendsAwaited ==
    ASSUME NEW u, NEW z, Extends(u, z)
    PROVE  /\ \A j \in DOMAIN u : \E k \in DOMAIN z : z[k] = u[j]
           /\ \A c, part, value, shown :
                Awaited(u, c, part, value, shown) => Awaited(z, c, part, value, shown)
           /\ \A c : \A l \in DOMAIN u : Restores(u[l], c) /\ (\A j \in DOMAIN u : j > l => ~Fails(u[j])) =>
                \E k \in DOMAIN z : Restores(z[k], c) /\ \A j \in DOMAIN z : j > k => ~Fails(z[j])
           /\ (\A j \in DOMAIN u : ~Fails(u[j])) => \A j \in DOMAIN z : ~Fails(z[j])
  <1>1. CASE z = u
    BY <1>1
  <1>2. ASSUME NEW q, Added(u, z, q), q.got = <<>>, ~Fails(q)
        PROVE  /\ \A j \in DOMAIN u : \E k \in DOMAIN z : z[k] = u[j]
               /\ \A c, part, value, shown :
                    Awaited(u, c, part, value, shown) => Awaited(z, c, part, value, shown)
               /\ \A c : \A l \in DOMAIN u :
                    Restores(u[l], c) /\ (\A j \in DOMAIN u : j > l => ~Fails(u[j])) =>
                    \E k \in DOMAIN z : Restores(z[k], c) /\ \A j \in DOMAIN z : j > k => ~Fails(z[j])
               /\ (\A j \in DOMAIN u : ~Fails(u[j])) => \A j \in DOMAIN z : ~Fails(z[j])
    <2>1. /\ \A i \in DOMAIN u : i \in DOMAIN z /\ z[i] = u[i] /\ i < Len(z)
          /\ Len(z) \in DOMAIN z /\ z[Len(z)] = q /\ DOMAIN z \subseteq Nat
          /\ \A i \in DOMAIN z : i = Len(z) \/ i \in DOMAIN u
          /\ \A i \in DOMAIN z : ~(i > Len(z))
      BY <1>2 DEF Added, Sized
    <2>2. \A part : part \notin DOMAIN q.got
      BY <1>2
    <2>3. ASSUME NEW c, NEW part, NEW value, NEW shown, Awaited(u, c, part, value, shown)
          PROVE  Awaited(z, c, part, value, shown)
      <3>1. CASE Brings(q, c, part)
        <4>1. LastBrings(z, c, part, value)
          BY <2>1, <2>2, <3>1 DEF LastBrings
        <4> QED
          BY <4>1, AwaitedIs
      <3>2. CASE ~Brings(q, c, part)
        <4>1. /\ LastBrings(u, c, part, value) => LastBrings(z, c, part, value)
              /\ NoneBrings(u, c, part) => NoneBrings(z, c, part)
          BY <2>1, <2>2, <3>2 DEF LastBrings, NoneBrings
        <4> QED
          BY <2>3, <4>1, AwaitedIs
      <3> QED
        BY <3>1, <3>2
    <2>4. ASSUME NEW c, NEW l \in DOMAIN u, Restores(u[l], c), \A j \in DOMAIN u : j > l => ~Fails(u[j])
          PROVE  \E k \in DOMAIN z : Restores(z[k], c) /\ \A j \in DOMAIN z : j > k => ~Fails(z[j])
      BY <1>2, <2>1, <2>4
    <2> QED
      BY <1>2, <2>1, <2>3, <2>4
  <1> QED
    BY <1>1, <1>2 DEF Extends

\* A value the page has been given is shown, and one it awaits of another request still is.
LEMMA AwaitedApplied ==
    ASSUME NEW s, NEW u, NEW i, Removed(s, u, i), NEW c, Effective(s[i], c),
           \A j \in DOMAIN s : j < i => ~Effective(s[j], c),
           NEW part, NEW value, NEW shown, NEW shown1,
           Awaited(s, c, part, value, shown),
           part \in Parts[s[i].kind] =>
             part \in DOMAIN s[i].got /\ (s[i].got[part] = value => shown1),
           part \notin Parts[s[i].kind] /\ shown => shown1
    PROVE  Awaited(u, c, part, value, shown1)
  <1>1. /\ \A j \in DOMAIN u : \E k \in DOMAIN s \ {i} : u[j] = s[k]
        /\ i \in DOMAIN s /\ Sized(s)
    <2>1. \A j \in DOMAIN u : \E k \in DOMAIN s \ {i} : u[j] = s[k]
      BY RemovedBrings
    <2> QED
      BY <2>1 DEF Removed
  <1>2. CASE LastBrings(s, c, part, value)
    <2>1. PICK k \in DOMAIN s : /\ Brings(s[k], c, part)
                                /\ \A j \in DOMAIN s : j > k => ~Brings(s[j], c, part)
                                /\ part \in DOMAIN s[k].got => s[k].got[part] = value
      BY <1>2 DEF LastBrings
    <2>2. CASE k = i
      <3>1. shown1
        BY <2>1, <2>2 DEF Brings
      <3>2. \A j \in DOMAIN s \ {i} : ~Brings(s[j], c, part)
        BY <1>1, <2>1, <2>2 DEF Brings, Sized
      <3>3. NoneBrings(u, c, part)
        BY <1>1, <3>2 DEF NoneBrings
      <3> QED
        BY <3>1, <3>3, AwaitedIs
    <2>3. CASE k # i
      <3>1. LastBrings(u, c, part, value)
        <4>1. k \in DOMAIN s \ {i} /\ \A j \in DOMAIN s \ {i} : j > k => ~Brings(s[j], c, part)
          BY <2>1, <2>3
        <4> QED
          BY <2>1, <4>1, RemovedBrings
      <3> QED
        BY <3>1, AwaitedIs
    <2> QED
      BY <2>2, <2>3
  <1>3. CASE shown /\ NoneBrings(s, c, part)
    <2>1. shown1
      BY <1>1, <1>3 DEF NoneBrings, Brings
    <2>2. NoneBrings(u, c, part)
      BY <1>1, <1>3 DEF NoneBrings
    <2> QED
      BY <2>1, <2>2, AwaitedIs
  <1> QED
    BY <1>2, <1>3, AwaitedIs

(* The answer of s[i] is shown in conversation c, nothing older is on its  *)
(* way, and the activities follow a restoration and a reload after an end. *)
Applies(s, u, z, i, c) ==
  /\ Removed(s, u, i) /\ Extends(u, z)
  /\ Effective(s[i], c)
  /\ ~Begins(s[i], c) /\ ~StopIsServed(s[i], c)
  /\ \A j \in DOMAIN s : j < i => ~Effective(s[j], c) /\ ~Fails(s[j])
  /\ Parts[s[i].kind] \ {"activities"} \subseteq DOMAIN s[i].got
  /\ s[i].kind = "activities" => "activities" \in DOMAIN s[i].got
  /\ AnswerParts \intersect DOMAIN s[i].got \subseteq Parts[s[i].kind]
  /\ "noActivities" \in DOMAIN s[i].got => s[i].kind \in Restoration
  /\ s[i].kind \in Restoration \union {"terminal"} =>
       \E k \in DOMAIN z : z[k].kind = "activities" /\ Effective(z[k], c) /\ z[k].got = <<>>

\* What is shown no longer has to be brought (restoreConversationHttp, loadState, ...).
LEMMA AppliedOnward ==
    ASSUME NEW s, NEW u, NEW z, NEW i, NEW c, Applies(s, u, z, i, c),
           NEW rs, NEW v, ViewTrue(rs, v), GotTrue(rs, s[i].got)
    PROVE  LET w == Loaded(v, s[i].got) IN
           /\ \A t, q : CatchesUp(c, rs, t, q, s, v) => CatchesUp(c, rs, t, q, z, w)
           /\ \A n \in DOMAIN ActivityList(rs) :
                ActivityAwaited(c, rs, s, v, n) => ActivityAwaited(c, rs, z, w, n)
  <1> DEFINE w == Loaded(v, s[i].got)
             got == s[i].got
  <1>0. /\ Removed(s, u, i) /\ Extends(u, z) /\ Effective(s[i], c)
        /\ ~Begins(s[i], c) /\ ~StopIsServed(s[i], c)
        /\ \A j \in DOMAIN s : j < i => ~Effective(s[j], c) /\ ~Fails(s[j])
        /\ AnswerParts \intersect DOMAIN got \subseteq Parts[s[i].kind]
        /\ AnswerParts = {"messages", "runs", "activities", "state"}
        /\ \A part \in Parts[s[i].kind] : part # "activities" => part \in DOMAIN got
    BY DEF Applies, AnswerParts, Rank
  <1>1. /\ \A k \in DOMAIN s \ {i} : \E j \in DOMAIN z : z[j] = s[k]
        /\ i \in DOMAIN s /\ Sized(s)
    <2>1. \A k \in DOMAIN s \ {i} : \E j \in DOMAIN u : u[j] = s[k]
      BY <1>0, RemovedBrings
    <2>2. \A j \in DOMAIN u : \E k \in DOMAIN z : z[k] = u[j]
      BY <1>0, ExtendsAwaited
    <2> QED
      BY <1>0, <2>1, <2>2 DEF Removed
  <1>2. /\ w.messages = IF "messages" \in DOMAIN got THEN v.messages \union got["messages"]
                        ELSE v.messages
        /\ w.runs = IF "runs" \in DOMAIN got THEN got["runs"] ELSE v.runs
        /\ w.activities = IF "activities" \in DOMAIN got
                          THEN MergeActivities(v.activities, got["activities"])
                          ELSE v.activities
        /\ IF "state" \in DOMAIN got THEN ShowsState(w, got["state"]) ELSE StateAlike(v, w)
        /\ w.error => v.error /\ "messages" \notin DOMAIN got
        /\ w.activitiesError =>
             /\ "activities" \notin DOMAIN got
             /\ v.activitiesError \/ "noActivities" \in DOMAIN got
    BY LoadedIs, ViewIs
  <1> HIDE DEF w
  <1>3. s[i].kind \in Restoration \union {"terminal"} =>
          \E k \in DOMAIN z : z[k].kind = "activities" /\ Effective(z[k], c) /\ z[k].got = <<>>
    BY DEF Applies
  <1>4. ASSUME NEW part \in {"state", "runs"}, NEW value, NEW shown, NEW shown1,
               Awaited(s, c, part, value, shown),
               part \in DOMAIN got => (got[part] = value => shown1),
               part \notin DOMAIN got /\ shown => shown1
        PROVE  Awaited(z, c, part, value, shown1)
    <2>1. part \in Parts[s[i].kind] <=> part \in DOMAIN got
      BY <1>0
    <2>2. Awaited(u, c, part, value, shown1)
      <3>1. \A j \in DOMAIN s : j < i => ~Effective(s[j], c)
        BY <1>0
      <3>2. /\ part \in Parts[s[i].kind] =>
                 part \in DOMAIN s[i].got /\ (s[i].got[part] = value => shown1)
            /\ part \notin Parts[s[i].kind] /\ shown => shown1
        BY <1>4, <2>1
      <3> QED
        BY <1>0, <1>4, <3>1, <3>2, AwaitedApplied
    <2> QED
      BY <1>0, <2>2, ExtendsAwaited
  <1>5. ASSUME NEW n \in DOMAIN ActivityList(rs), ActivityAwaited(c, rs, s, v, n)
        PROVE  ActivityAwaited(c, rs, z, w, n)
    <2>1. /\ ActivitiesTrue(rs, v.activities)
          /\ "activities" \in DOMAIN got => ActivitiesTrue(rs, got["activities"])
      BY ViewIs DEF GotTrue
    <2>2. CASE ShowsActivity(rs, v, n)
      <3>1. ShowsActivity(rs, w, n)
        BY <1>2, <2>1, <2>2, MergeShows DEF ShowsActivity
      <3> QED
        BY <3>1 DEF ActivityAwaited
    <2>3. ASSUME NEW k \in DOMAIN s, BringsActivity(s[k], c, n, rs[n].activity)
          PROVE  ActivityAwaited(c, rs, z, w, n)
      <3>1. CASE k # i
        BY <1>1, <2>3, <3>1 DEF ActivityAwaited
      <3>2. CASE k = i /\ s[i].kind \in Restoration \union {"terminal"}
        <4>1. PICK l \in DOMAIN z :
                z[l].kind = "activities" /\ Effective(z[l], c) /\ z[l].got = <<>>
          BY <1>3, <3>2
        <4>2. BringsActivity(z[l], c, n, rs[n].activity)
          BY <4>1 DEF BringsActivity
        <4> QED
          BY <4>2 DEF ActivityAwaited
      <3>3. CASE k = i /\ s[i].kind \notin Restoration \union {"terminal"}
        <4>1. /\ s[i].kind = "activities"
              /\ "activities" \in DOMAIN got =>
                   n \in DOMAIN got["activities"] /\ got["activities"][n] = rs[n].activity
          BY <2>3, <3>3 DEF BringsActivity
        <4>2. "activities" \in DOMAIN got
          BY <4>1 DEF Applies
        <4>3. ShowsActivity(rs, w, n)
          BY <1>2, <2>1, <4>1, <4>2, MergeShows DEF ShowsActivity
        <4> QED
          BY <4>3 DEF ActivityAwaited
      <3> QED
        BY <3>1, <3>2, <3>3
    <2> QED
      BY <1>5, <2>2, <2>3 DEF ActivityAwaited
  <1>6. ASSUME NEW t, NEW q, CatchesUp(c, rs, t, q, s, v)
        PROVE  CatchesUp(c, rs, t, q, z, w)
    <2>1. StateCatchesUp(c, rs, t, q, z, w)
      <3>1. StateUnderway(c, rs, t, q, s) => StateUnderway(c, rs, t, q, z)
        <4>1. ~(IsBegun(s[i]) /\ s[i].conv = c)
          BY <1>0 DEF IsBegun, Begins
        <4> QED
          BY <1>0, <1>1, <4>1 DEF StateUnderway
      <3>2. Awaited(s, c, "state", ConversationState(rs), ShowsState(v, ConversationState(rs))) =>
              Awaited(z, c, "state", ConversationState(rs), ShowsState(w, ConversationState(rs)))
        <4>1. ShowsState(v, ConversationState(rs)) /\ StateAlike(v, w) =>
                ShowsState(w, ConversationState(rs))
          BY DEF ShowsState, StateAlike
        <4> QED
          BY <1>2, <1>4, <4>1
      <3> QED
        BY <1>6, <3>1, <3>2 DEF CatchesUp, StateCatchesUp
    <2>2. RunsCatchUp(c, rs, t, q, z, w)
      <3>1. RunsUnderway(c, rs, t, q, s) => RunsUnderway(c, rs, t, q, z)
        BY <1>0, <1>1 DEF RunsUnderway
      <3>2. Awaited(s, c, "runs", RunList(rs), v.runs = RunList(rs)) =>
              Awaited(z, c, "runs", RunList(rs), w.runs = RunList(rs))
        BY <1>2, <1>4
      <3> QED
        BY <1>6, <3>1, <3>2 DEF CatchesUp, RunsCatchUp
    <2>3. MessagesCatchUp(c, rs, t, q, z, w)
      <3> SUFFICES ASSUME NEW m \in Messages(rs)
                   PROVE  \/ m \in w.messages
                          \/ \E k \in DOMAIN z : BringsMessage(z[k], c, m)
                          \/ m.role = "assistant" /\ PendingOf(m.run, t, q, {"run.completed"})
        BY DEF MessagesCatchUp
      <3>1. \/ m \in v.messages
            \/ \E k \in DOMAIN s : BringsMessage(s[k], c, m)
            \/ m.role = "assistant" /\ PendingOf(m.run, t, q, {"run.completed"})
        BY <1>6 DEF CatchesUp, MessagesCatchUp
      <3>2. BringsMessage(s[i], c, m) => m \in w.messages
        <4>1. BringsMessage(s[i], c, m) =>
                /\ "messages" \in Parts[s[i].kind]
                /\ "messages" \in DOMAIN got => m \in got["messages"]
          BY <1>0 DEF BringsMessage, Brings
        <4> QED
          BY <1>0, <1>2, <4>1
      <3> QED
        BY <1>1, <1>2, <3>1, <3>2
    <2>4. ActivitiesCatchUp(c, rs, t, q, z, w)
      BY <1>5, <1>6 DEF CatchesUp, ActivitiesCatchUp
    <2>5. ErrorsPass(c, z, w)
      <3>1. ASSUME \A k \in DOMAIN s : ~Fails(s[k]), ~w.error,
                   w.activitiesError =>
                     \E k \in DOMAIN z : Effective(z[k], c) /\ z[k].kind = "activities"
            PROVE  ErrorsPass(c, z, w)
        <4>1. \A j \in DOMAIN u : ~Fails(u[j])
          BY <1>0, <3>1, RemovedBrings
        <4>2. \A j \in DOMAIN z : ~Fails(z[j])
          BY <1>0, <4>1, ExtendsAwaited
        <4> QED
          BY <3>1, <4>2 DEF ErrorsPass
      <3>2. ASSUME NEW k \in DOMAIN s, Restores(s[k], c), \A j \in DOMAIN s : j > k => ~Fails(s[j])
            PROVE  ErrorsPass(c, z, w)
        <4>1. CASE k # i
          <5>1. \E l \in DOMAIN u : Restores(u[l], c) /\ \A j \in DOMAIN u : j > l => ~Fails(u[j])
            BY <1>0, <3>2, <4>1, RemovedBrings
          <5>2. \E l \in DOMAIN z : Restores(z[l], c) /\ \A j \in DOMAIN z : j > l => ~Fails(z[j])
            BY <1>0, <5>1, ExtendsAwaited
          <5> QED
            BY <5>2 DEF ErrorsPass
        <4>2. CASE k = i
          <5>1. s[i].kind \in Restoration /\ ~Fails(s[i])
            BY <3>2, <4>2 DEF Restores, Restoration, Fails
          <5>2. \A j \in DOMAIN s : ~Fails(s[j])
            BY <1>0, <1>1, <3>2, <4>2, <5>1 DEF Sized
          <5>3. "messages" \in DOMAIN got
            BY <1>0, <5>1 DEF Parts, Restoration
          <5> QED
            BY <1>2, <1>3, <3>1, <5>1, <5>2, <5>3
        <4> QED
          BY <4>1, <4>2
      <3>3. ASSUME ~v.error, \A k \in DOMAIN s : ~Fails(s[k]),
                   v.activitiesError =>
                     \E k \in DOMAIN s : Effective(s[k], c) /\ s[k].kind = "activities"
            PROVE  ErrorsPass(c, z, w)
        <4>1. ASSUME w.activitiesError
              PROVE  \E k \in DOMAIN z : Effective(z[k], c) /\ z[k].kind = "activities"
          <5>1. CASE "noActivities" \in DOMAIN got
            <6>1. s[i].kind \in Restoration
              BY <5>1 DEF Applies
            <6> QED
              BY <1>3, <6>1
          <5>2. CASE v.activitiesError
            <6>1. PICK k \in DOMAIN s : Effective(s[k], c) /\ s[k].kind = "activities"
              BY <3>3, <5>2
            <6>2. s[i].kind = "activities" => "activities" \in DOMAIN got
              BY DEF Applies
            <6> QED
              BY <1>1, <1>2, <4>1, <6>1, <6>2
          <5> QED
            BY <1>2, <4>1, <5>1, <5>2
        <4> QED
          BY <1>2, <3>1, <3>3, <4>1
      <3> QED
        BY <1>6, <3>2, <3>3 DEF CatchesUp, ErrorsPass
    <2> QED
      BY <1>6, <2>1, <2>2, <2>3, <2>4, <2>5 DEF CatchesUp
  <1> QED
    BY <1>5, <1>6 DEF w

\* A request that has got nothing yet, after the others.
LEMMA ExtendsOnward ==
    ASSUME NEW u, NEW z, Extends(u, z)
    PROVE  /\ \A c, rs, t, qu, v : CatchesUp(c, rs, t, qu, u, v) => CatchesUp(c, rs, t, qu, z, v)
           /\ \A c, rs, v, n : ActivityAwaited(c, rs, u, v, n) => ActivityAwaited(c, rs, z, v, n)
  BY AddedOnward DEF Extends

\* The next request of a continuation.
LEMMA Next1Is ==
    ASSUME ClientInv, NEW i \in DOMAIN requests, NEW kind
    PROVE  LET q == Next1(i, kind) IN
           /\ q.kind = kind /\ q.conv = requests[i].conv /\ q.session = requests[i].session
           /\ (q.fresh <=> requests[i].fresh) /\ (q.ok <=> up)
           /\ q.answer = "none" /\ q.got = <<>>
  <1> DEFINE r == requests[i]
             p == Request(kind, r.conv, r.session)
             q == Next1(i, kind)
             f == r.fresh
  <1>1. IsRequest(p) /\ q = [p EXCEPT !.fresh = f]
    BY SomeRequest, NewRequest DEF Next1
  <1>2. /\ p.kind = kind /\ p.conv = r.conv /\ p.session = r.session
        /\ p.ok = up /\ p.answer = "none" /\ p.got = <<>>
    BY DEF Request
  <1> HIDE DEF p, q, f
  <1>3. q = [kind |-> p.kind, conv |-> p.conv, session |-> p.session, fresh |-> f,
             ok |-> p.ok, answer |-> p.answer, got |-> p.got]
    BY <1>1, FreshSet
  <1>4. /\ q.kind = p.kind /\ q.conv = p.conv /\ q.session = p.session /\ q.fresh = f
        /\ q.ok = p.ok /\ q.answer = p.answer /\ q.got = p.got
    BY <1>3
  <1> QED
    BY <1>2, <1>4 DEF q, f

\* An idle request leaves, and another may follow.
LEMMA IdleFollowed ==
    ASSUME ClientInv, NEW i \in DOMAIN requests, Idle(requests[i], active),
           \/ requests' = RemoveAt(requests, i)
           \/ \E q : requests' = Append(RemoveAt(requests, i), q) /\ q.got = <<>> /\ ~Fails(q)
                     /\ AreRequests(requests', active),
           runs'[active] = runs[active], task'[active] = task[active],
           stream'[active].queue = stream[active].queue, view'[active] = view[active],
           active' = active
    PROVE  CatchesOn
  <1> DEFINE u == RemoveAt(requests, i)
  <1>1. Removed(requests, u, i) /\ AreRequests(u, active)
    BY PlaceByPlace, RemoveRequest DEF ClientInv
  <1>2. Extends(u, requests')
    <2>1. \A q : Added(u, Append(u, q), q)
      BY <1>1, PlaceByPlace
    <2> QED
      BY <2>1 DEF Extends
  <1> HIDE DEF u
  <1>3. /\ \A rs, t, qu, v :
             CatchesUp(active, rs, t, qu, requests, v) => CatchesUp(active, rs, t, qu, u, v)
        /\ \A rs, v, n :
             ActivityAwaited(active, rs, requests, v, n) => ActivityAwaited(active, rs, u, v, n)
    BY <1>1, RemovedOnward
  <1>4. /\ \A rs, t, qu, v :
             CatchesUp(active, rs, t, qu, requests, v) => CatchesUp(active, rs, t, qu, requests', v)
        /\ \A rs, v, n :
             ActivityAwaited(active, rs, requests, v, n) => ActivityAwaited(active, rs, requests', v, n)
    BY <1>2, <1>3, ExtendsOnward
  <1> QED
    BY <1>4, RequestsOnward

\* What a request has brought is shown.
LEMMA ApplyOn ==
    ASSUME ServerInv, ClientInv, ViewInv, ConnectionInv, NEW i \in DOMAIN requests,
           IsDone(requests[i]), HasEffect(requests[i]), Apply(i),
           requests[i].kind \notin {"post", "stop", "decide"},
           \/ requests' = Without(i) /\ requests[i].kind \notin Restoration \union {"terminal"}
           \/ /\ requests' = Append(Without(i), Next1(i, "activities"))
              /\ requests[i].kind \in Restoration \union {"terminal"},
           UNCHANGED <<runs, task, active>>,
           stream'[active].queue = stream[active].queue
    PROVE  CatchesOn
  <1> DEFINE r == requests[i]
             q == Next1(i, "activities")
             u == RemoveAt(requests, i)
             z == requests'
             v == view[active]
             w == Loaded(v, r.got)
             rs == runs[active]
  <1>1. /\ view' = [view EXCEPT ![r.conv] = Loaded(view[r.conv], r.got)]
        /\ excused' = (excused \/ Overtakes(i))
        /\ active \in Conversations /\ DOMAIN view = Conversations
        /\ r.conv \in Conversations /\ r.ok
        /\ AreRequests(requests, active)
    BY SomeRequest DEF Apply, Dispatch, ClientInv, ViewInv, IsDone
  <1>2. Removed(requests, u, i) /\ AreRequests(u, active)
    BY <1>1, PlaceByPlace, RemoveRequest
  <1>3. /\ q.kind = "activities" /\ q.conv = r.conv /\ (q.fresh <=> r.fresh) /\ (q.ok <=> up)
        /\ q.got = <<>> /\ IsRequest(q) /\ (q.fresh => q.conv = active)
    BY Next1Is, SomeRequest
  <1> HIDE DEF q, u
  <1>4. (z = u) \/ (z = Append(u, q) /\ Added(u, z, q))
    <2>1. Added(u, Append(u, q), q)
      BY <1>2, PlaceByPlace
    <2>2. z = u \/ z = Append(u, q)
      BY DEF Without, u, q
    <2>3. CASE z = u
      BY <2>3
    <2>4. CASE z = Append(u, q)
      <3> HIDE DEF z
      <3> QED
        BY <2>1, <2>4
    <2> QED
      BY <2>2, <2>3, <2>4
  <1>5. ~Begins(r, active) /\ ~StopIsServed(r, active)
    BY DEF Begins, StopIsServed
  <1>6. CASE r.conv # active
    <2>1. view'[active] = view[active]
      BY <1>1, <1>6
    <2>2. Idle(r, active)
      BY <1>5, <1>6 DEF Idle, Effective
    <2>3. ~Fails(q) /\ AreRequests(Append(u, q), active)
      BY <1>2, <1>3, <1>6, AppendRequest DEF Fails
    <2> QED
      BY <1>3, <1>4, <2>1, <2>2, <2>3, IdleFollowed DEF u
  <1>7. CASE ~up
    <2>1. ~Clean /\ stream[active].phase # "open"
      BY <1>1, <1>7 DEF ConnectionInv
    <2> QED
      BY <2>1 DEF CatchesOn, CaughtOn, ToldOn
  <1>8. CASE excused'
    BY <1>8 DEF CatchesOn, CaughtOn, ToldOn, Clean
  <1>9. CASE r.conv = active /\ up /\ ~excused'
    <2>1. Effective(r, active)
      BY <1>1, <1>9 DEF Effective
    <2>2. \A j \in DOMAIN requests : j < i => ~Effective(requests[j], active) /\ ~Fails(requests[j])
      <3> SUFFICES ASSUME NEW j \in DOMAIN requests, j < i
                   PROVE  ~Effective(requests[j], active) /\ ~Fails(requests[j])
        OBVIOUS
      <3>1. j \in 1..(i - 1)
        BY <1>2 DEF Removed, Sized
      <3>2. ~(requests[j].conv = active /\ HasEffect(requests[j]))
        BY <1>1, <1>9, <3>1 DEF Overtakes
      <3>3. requests[j].fresh => requests[j].conv = active
        BY SomeRequest
      <3> QED
        BY <3>2, <3>3 DEF Effective, Fails, HasEffect
    <2>3. /\ RequestTrue(rs, r) /\ ViewTrue(rs, v)
          /\ r.kind \in Kinds
      BY <1>1, <1>9 DEF ViewInv, RequestTrue
    <2>4. \A p \in Parts[r.kind] \ DOMAIN r.got : p = "activities" /\ "noActivities" \in DOMAIN r.got
      BY DEF IsDone, Unanswered
    <2>5. r.kind \in Restoration \union {"terminal"} => Effective(q, active)
      <3>1. r.kind \in Restoration \union {"terminal"} => r.fresh
        BY DEF HasEffect, Unguarded, Restoration
      <3> QED
        BY <1>3, <1>9, <3>1 DEF Effective, HasEffect
    <2>6. ~Fails(q)
      BY <1>3, <1>9 DEF Fails
    <2>7. Extends(u, z)
      BY <1>3, <1>4, <2>6 DEF Extends
    <2>8. r.kind \in Restoration \union {"terminal"} =>
            \E k \in DOMAIN z : z[k].kind = "activities" /\ Effective(z[k], active) /\ z[k].got = <<>>
      <3> SUFFICES ASSUME r.kind \in Restoration \union {"terminal"}
                   PROVE  \E k \in DOMAIN z :
                            z[k].kind = "activities" /\ Effective(z[k], active) /\ z[k].got = <<>>
        OBVIOUS
      <3>1. z = Append(u, q)
        BY DEF Without, u, q
      <3>2. Added(u, z, q)
        BY <1>2, <3>1, PlaceByPlace
      <3>3. Len(z) \in DOMAIN z /\ z[Len(z)] = q
        BY <3>2 DEF Added, Sized
      <3> QED
        BY <1>3, <2>5, <3>3
    <2>9. "noActivities" \in DOMAIN r.got => r.kind \in Restoration
      BY <2>3 DEF RequestTrue
    <2>10. AnswerParts \intersect DOMAIN r.got \subseteq Parts[r.kind]
      BY <2>3 DEF RequestTrue
    <2>11. r.kind = "activities" => "activities" \in DOMAIN r.got
      BY <2>4, <2>9 DEF Restoration, Parts
    <2>12. Applies(requests, u, z, i, active)
      BY <1>2, <1>5, <2>1, <2>2, <2>4, <2>7, <2>8, <2>9, <2>10, <2>11 DEF Applies
    <2>13. GotTrue(rs, r.got)
      BY <2>3 DEF RequestTrue
    <2>14. view'[active] = w
      BY <1>1, <1>9
    <2> HIDE DEF z, v, w, rs
    <2>15. /\ \A t, qu : CatchesUp(active, rs, t, qu, requests, v) => CatchesUp(active, rs, t, qu, z, w)
           /\ \A n \in DOMAIN ActivityList(rs) :
                ActivityAwaited(active, rs, requests, v, n) => ActivityAwaited(active, rs, z, w, n)
      BY <2>3, <2>12, <2>13, AppliedOnward DEF w
    <2>16. CaughtOn
      BY <2>14, <2>15 DEF CaughtOn, Caught, rs, v, z
    <2>17. ToldOn
      BY <2>14, <2>15 DEF ToldOn, rs, v, z
    <2> QED
      BY <2>16, <2>17 DEF CatchesOn
  <1> QED
    BY <1>6, <1>7, <1>8, <1>9

\* A POST and a Stop that have been accepted are followed by a reload of what they have
\* changed (handleSubmitMessage, handleStop).
LEMMA FollowedOnward ==
    ASSUME NEW s, NEW u, NEW z, NEW i, NEW q, Removed(s, u, i), Added(u, z, q), NEW c,
           Parts[s[i].kind] = {}, q.got = <<>>, ~Fails(q), Effective(q, c),
           ~(IsBegun(s[i]) /\ s[i].conv = c),
           NEW rs, NEW v, NEW w,
           w.messages = v.messages, w.activities = v.activities, w.runs = v.runs,
           w.error => v.error, w.activitiesError => v.activitiesError,
           \/ /\ q.kind = "submitted" /\ ~ShowsState(v, ConversationState(rs))
              /\ ~StopIsServed(s[i], c)
           \/ q.kind = "stopped" /\ ~Begins(s[i], c)
    PROVE  /\ \A t, qu : CatchesUp(c, rs, t, qu, s, v) => CatchesUp(c, rs, t, qu, z, w)
           /\ \A n : ActivityAwaited(c, rs, s, v, n) => ActivityAwaited(c, rs, z, w, n)
  <1>1. /\ \A k \in DOMAIN s \ {i} : \E j \in DOMAIN u : u[j] = s[k]
        /\ \A j \in DOMAIN u : \E k \in DOMAIN s \ {i} : u[j] = s[k]
    BY RemovedBrings
  <1>2. Extends(u, z)
    BY DEF Extends
  <1>3. \A j \in DOMAIN u : \E k \in DOMAIN z : z[k] = u[j]
    BY <1>2, ExtendsAwaited
  <1>4. \A k \in DOMAIN s \ {i} : \E j \in DOMAIN z : z[j] = s[k]
    BY <1>1, <1>3
  <1>5. /\ i \in DOMAIN s
        /\ Len(z) \in DOMAIN z /\ z[Len(z)] = q /\ \A j \in DOMAIN z : ~(j > Len(z))
    BY DEF Removed, Added, Sized
  <1>6. \A part : ~Brings(s[i], c, part)
    BY DEF Brings
  <1>7. ~Restores(s[i], c) /\ ~(Effective(s[i], c) /\ s[i].kind \in Restoration \union {"activities", "terminal"})
    BY DEF Restores, Parts, Restoration
  <1>8. ASSUME NEW part \in Parts[q.kind], NEW value, NEW shown
        PROVE  Awaited(z, c, part, value, shown)
    <2>1. Brings(q, c, part) /\ part \notin DOMAIN q.got
      BY <1>8 DEF Brings
    <2>2. LastBrings(z, c, part, value)
      BY <1>5, <2>1 DEF LastBrings
    <2> QED
      BY <2>2, AwaitedIs
  <1>9. ASSUME NEW part, NEW value, LastBrings(s, c, part, value), NEW shown
        PROVE  Awaited(z, c, part, value, shown)
    <2>1. PICK k \in DOMAIN s : /\ Brings(s[k], c, part)
                                /\ \A j \in DOMAIN s : j > k => ~Brings(s[j], c, part)
                                /\ part \in DOMAIN s[k].got => s[k].got[part] = value
      BY <1>9 DEF LastBrings
    <2>2. LastBrings(u, c, part, value)
      <3>1. k \in DOMAIN s \ {i} /\ \A j \in DOMAIN s \ {i} : j > k => ~Brings(s[j], c, part)
        BY <1>6, <2>1
      <3> QED
        BY <2>1, <3>1, RemovedBrings
    <2> QED
      BY <1>2, <2>2, AwaitedIs, ExtendsAwaited
  <1>10. ASSUME NEW n, ActivityAwaited(c, rs, s, v, n)
         PROVE  ActivityAwaited(c, rs, z, w, n)
    <2>1. ~BringsActivity(s[i], c, n, rs[n].activity)
      BY <1>7 DEF BringsActivity
    <2> QED
      BY <1>4, <1>10, <2>1 DEF ActivityAwaited, ShowsActivity
  <1>11. ASSUME NEW t, NEW qu, CatchesUp(c, rs, t, qu, s, v)
         PROVE  CatchesUp(c, rs, t, qu, z, w)
    <2>1. StateCatchesUp(c, rs, t, qu, z, w)
      <3>1. CASE q.kind = "submitted" /\ ~ShowsState(v, ConversationState(rs)) /\ ~StopIsServed(s[i], c)
        <4>1. StateUnderway(c, rs, t, qu, s) => StateUnderway(c, rs, t, qu, z)
          BY <1>4, <3>1 DEF StateUnderway
        <4>2. StateUnderway(c, rs, t, qu, s) \/ LastBrings(s, c, "state", ConversationState(rs))
          BY <1>11, <3>1 DEF CatchesUp, StateCatchesUp, Awaited
        <4> QED
          BY <1>9, <4>1, <4>2 DEF StateCatchesUp
      <3>2. CASE q.kind = "stopped"
        <4>1. "state" \in Parts[q.kind]
          BY <3>2 DEF Parts
        <4> QED
          BY <1>8, <4>1 DEF StateCatchesUp
      <3> QED
        BY <3>1, <3>2
    <2>2. RunsCatchUp(c, rs, t, qu, z, w)
      <3>1. "runs" \in Parts[q.kind]
        BY DEF Parts
      <3> QED
        BY <1>8, <3>1 DEF RunsCatchUp
    <2>3. MessagesCatchUp(c, rs, t, qu, z, w)
      <3> SUFFICES ASSUME NEW m \in Messages(rs)
                   PROVE  \/ m \in w.messages
                          \/ \E k \in DOMAIN z : BringsMessage(z[k], c, m)
                          \/ m.role = "assistant" /\ PendingOf(m.run, t, qu, {"run.completed"})
        BY DEF MessagesCatchUp
      <3>1. \/ m \in v.messages
            \/ \E k \in DOMAIN s : BringsMessage(s[k], c, m)
            \/ m.role = "assistant" /\ PendingOf(m.run, t, qu, {"run.completed"})
        BY <1>11 DEF CatchesUp, MessagesCatchUp
      <3>2. CASE q.kind = "submitted"
        <4>1. BringsMessage(q, c, m)
          BY <3>2 DEF BringsMessage, Brings, Parts
        <4> QED
          BY <1>5, <4>1
      <3>3. CASE ~Begins(s[i], c)
        <4>1. ~BringsMessage(s[i], c, m)
          BY <1>6, <3>3 DEF BringsMessage
        <4> QED
          BY <1>4, <3>1, <4>1
      <3> QED
        BY <3>2, <3>3
    <2>4. ActivitiesCatchUp(c, rs, t, qu, z, w)
      BY <1>10, <1>11 DEF CatchesUp, ActivitiesCatchUp
    <2>5. ErrorsPass(c, z, w)
      <3>1. CASE \E k \in DOMAIN s : Restores(s[k], c) /\ \A j \in DOMAIN s : j > k => ~Fails(s[j])
        <4>1. PICK k \in DOMAIN s \ {i} :
                Restores(s[k], c) /\ \A j \in DOMAIN s : j > k => ~Fails(s[j])
          BY <1>7, <3>1
        <4>2. \E l \in DOMAIN u : Restores(u[l], c) /\ \A j \in DOMAIN u : j > l => ~Fails(u[j])
          BY <4>1, RemovedBrings
        <4>3. \E l \in DOMAIN z : Restores(z[l], c) /\ \A j \in DOMAIN z : j > l => ~Fails(z[j])
          BY <1>2, <4>2, ExtendsAwaited
        <4> QED
          BY <4>3 DEF ErrorsPass
      <3>2. CASE /\ ~v.error
                 /\ \A k \in DOMAIN s : ~Fails(s[k])
                 /\ v.activitiesError =>
                      \E k \in DOMAIN s : Effective(s[k], c) /\ s[k].kind = "activities"
        <4>1. \A j \in DOMAIN u : ~Fails(u[j])
          BY <1>1, <3>2
        <4>2. \A j \in DOMAIN z : ~Fails(z[j])
          BY <1>2, <4>1, ExtendsAwaited
        <4>3. v.activitiesError =>
                \E k \in DOMAIN z : Effective(z[k], c) /\ z[k].kind = "activities"
          BY <1>4, <1>7, <3>2
        <4> QED
          BY <3>2, <4>2, <4>3 DEF ErrorsPass
      <3> QED
        BY <1>11, <3>1, <3>2 DEF CatchesUp, ErrorsPass
    <2> QED
      BY <1>11, <2>1, <2>2, <2>3, <2>4, <2>5 DEF CatchesUp
  <1> QED
    BY <1>10, <1>11

\* A guarded continuation that fails or comes too late is idle.
LEMMA IgnoredIsIdle ==
    ASSUME ClientInv, NEW i \in DOMAIN requests, requests[i].kind \notin {"post", "stop"},
           ~requests[i].ok \/ (~requests[i].fresh /\ requests[i].kind \notin Unguarded)
    PROVE  Idle(requests[i], active)
  <1>1. ~Begins(requests[i], active) /\ ~StopIsServed(requests[i], active)
    BY DEF Begins, StopIsServed
  <1>2. ~Effective(requests[i], active)
    BY DEF Effective, HasEffect
  <1> QED
    BY <1>1, <1>2 DEF Idle

\* The reload of the state after an approval event, of the history after an end and
\* after a POST (connectStream, handleSubmitMessage, handleStop).
LEMMA ReloadsOn ==
    ASSUME ServerInv, ClientInv, ViewInv, ConnectionInv, NEW i \in DOMAIN requests,
           StateFetched(i) \/ TerminalReloaded(i) \/ ReloadedAfterPost(i) \/ DecisionFailed(i)
    PROVE  CatchesOn
  <1>0. /\ requests[i].kind \in {"state", "terminal", "submitted", "stopped", "decide"}
        /\ UNCHANGED <<runs, task, stream, active>>
    BY DEF StateFetched, TerminalReloaded, ReloadedAfterPost, DecisionFailed, serverVars
  <1>1. CASE Ignore /\ requests' = Without(i)
             /\ (~requests[i].ok \/ (~requests[i].fresh /\ requests[i].kind \notin Unguarded))
    <2>1. Idle(requests[i], active)
      BY <1>0, <1>1, IgnoredIsIdle
    <2> QED
      BY <1>0, <1>1, <2>1, IdleLeaves DEF Ignore, Without
  <1>2. CASE /\ IsDone(requests[i]) /\ HasEffect(requests[i]) /\ Apply(i)
             /\ requests[i].kind # "decide"
             /\ \/ requests' = Without(i) /\ requests[i].kind \notin {"terminal"}
                \/ /\ requests' = Append(Without(i), Next1(i, "activities"))
                   /\ requests[i].kind = "terminal"
    <2>1. requests[i].kind \notin {"post", "stop", "decide"} /\ requests[i].kind \notin Restoration
      BY <1>0, <1>2 DEF Apply, IsDone, HasEffect, Unguarded, Restoration
    <2>2. stream'[active].queue = stream[active].queue /\ UNCHANGED <<runs, task, active>>
      BY <1>0
    <2>3. \/ requests' = Without(i) /\ requests[i].kind \notin Restoration \union {"terminal"}
          \/ /\ requests' = Append(Without(i), Next1(i, "activities"))
             /\ requests[i].kind \in Restoration \union {"terminal"}
      BY <1>2, <2>1
    <2> QED
      BY <1>2, <2>1, <2>2, <2>3, ApplyOn
  <1>3. CASE StateFetched(i)
    BY <1>1, <1>2, <1>3 DEF StateFetched, HasEffect, Unguarded, IsDone
  <1>4. CASE TerminalReloaded(i)
    BY <1>1, <1>2, <1>4 DEF TerminalReloaded, HasEffect, Unguarded, IsDone
  <1>5. CASE ReloadedAfterPost(i)
    BY <1>1, <1>2, <1>5 DEF ReloadedAfterPost, HasEffect, Unguarded, IsDone
  <1>6. CASE DecisionFailed(i)
    BY <1>1, <1>6 DEF DecisionFailed
  <1> QED
    BY <1>3, <1>4, <1>5, <1>6

\* A restoration is done, or has failed (restoreConversationHttp).
LEMMA RestorationsOn ==
    ASSUME ServerInv, ClientInv, ViewInv, ConnectionInv, NEW i \in DOMAIN requests,
           RestoreDone(i) \/ (RestoreFailed(i) /\ ~requests[i].fresh)
    PROVE  CatchesOn
  <1>0. /\ requests[i].kind \in Restoration
        /\ UNCHANGED <<runs, task, active>>
    BY DEF RestoreDone, RestoreFailed, serverVars, Restoration
  <1>1. CASE Ignore /\ requests' = Without(i) /\ UNCHANGED stream /\ ~requests[i].fresh
    <2>1. Idle(requests[i], active)
      BY <1>0, <1>1, IgnoredIsIdle DEF Restoration, Unguarded
    <2> QED
      BY <1>0, <1>1, <2>1, IdleLeaves DEF Ignore, Without
  <1>2. CASE RestoreDone(i) /\ requests[i].fresh
    <2>1. /\ IsDone(requests[i]) /\ HasEffect(requests[i]) /\ Apply(i)
          /\ requests' = Append(Without(i), Next1(i, "activities"))
          /\ Connect(requests[i].conv)
      BY <1>2 DEF RestoreDone, HasEffect
    <2>2. requests[i].conv = active
      BY <1>2, SomeRequest
    <2>3. stream'[active].queue = stream[active].queue
      <3>1. CASE stream' = stream
        BY <3>1
      <3>2. CASE stream[active].phase = "closed"
        <4>1. stream[active].queue = <<>>
          BY <3>2 DEF ViewInv, ConnectionTrue, ClientInv
        <4>2. stream'[active] = Connecting
          BY <2>1, <2>2, <3>2 DEF Connect, ClientInv
        <4> QED
          BY <4>1, <4>2 DEF Connecting
      <3> QED
        BY <2>1, <2>2, <3>1, <3>2 DEF Connect
    <2> QED
      BY <1>0, <2>1, <2>3, ApplyOn DEF Restoration
  <1>3. CASE RestoreDone(i) /\ ~requests[i].fresh
    BY <1>1, <1>3 DEF RestoreDone
  <1>4. CASE RestoreFailed(i) /\ ~requests[i].fresh
    BY <1>1, <1>4 DEF RestoreFailed, serverVars
  <1> QED
    BY <1>2, <1>3, <1>4

\* A restoration that fails leaves the page without a connection (restoreConversationHttp).
LEMMA RestoreFailedOn ==
    ASSUME ClientInv, ViewInv, ConnectionInv, NEW i \in DOMAIN requests,
           RestoreFailed(i), requests[i].fresh
    PROVE  CatchesOn
  <1>1. /\ IsWanted(requests[i]) /\ ~requests[i].ok
        /\ requests' = RemoveAt(requests, i) /\ stream' = stream /\ active' = active
    BY DEF RestoreFailed, IsWanted, Restoration, serverVars, Without
  <1>2. stream[active].phase = "closed" /\ OneWanted(requests)
    BY <1>1 DEF ConnectionInv
  <1>3. Removed(requests, requests', i)
    BY <1>1, PlaceByPlace DEF ClientInv
  <1>4. ASSUME NEW j \in DOMAIN requests', Restores(requests'[j], active)
        PROVE  FALSE
    <2>1. PICK k \in DOMAIN requests \ {i} : requests'[j] = requests[k]
      BY <1>3, RemovedBrings
    <2>2. IsWanted(requests[k])
      BY <1>4, <2>1, RestoresIs
    <2> QED
      BY <1>1, <1>2, <2>1, <2>2 DEF OneWanted
  <1>5. ~Watching'
    BY <1>1, <1>2, <1>4 DEF Watching
  <1> QED
    BY <1>2, <1>5 DEF CatchesOn, CaughtOn, ToldOn, Clean

\* An error is nothing but one.
LEMMA ErrorAside ==
    ASSUME NEW v, NEW w, StateAlike(v, w),
           w.messages = v.messages, w.runs = v.runs, w.activities = v.activities
    PROVE  /\ \A c, rs, t, q, s : ErrorsPass(c, s, w) =>
                (CatchesUp(c, rs, t, q, s, v) => CatchesUp(c, rs, t, q, s, w))
           /\ \A c, rs, s, n : ActivityAwaited(c, rs, s, v, n) => ActivityAwaited(c, rs, s, w, n)
  <1>1. \A s : ShowsState(v, s) <=> ShowsState(w, s)
    BY DEF ShowsState, StateAlike
  <1>2. \A c, rs, t, q, s : StateCatchesUp(c, rs, t, q, s, v) => StateCatchesUp(c, rs, t, q, s, w)
    BY <1>1 DEF StateCatchesUp, Awaited
  <1>3. \A c, rs, t, q, s : RunsCatchUp(c, rs, t, q, s, v) => RunsCatchUp(c, rs, t, q, s, w)
    BY DEF RunsCatchUp
  <1>4. \A c, rs, t, q, s : MessagesCatchUp(c, rs, t, q, s, v) => MessagesCatchUp(c, rs, t, q, s, w)
    BY DEF MessagesCatchUp
  <1>5. \A c, rs, s, n : ActivityAwaited(c, rs, s, v, n) => ActivityAwaited(c, rs, s, w, n)
    BY DEF ActivityAwaited, ShowsActivity
  <1>6. \A c, rs, t, q, s : ActivitiesCatchUp(c, rs, t, q, s, v) => ActivitiesCatchUp(c, rs, t, q, s, w)
    BY <1>5 DEF ActivitiesCatchUp
  <1>7. ASSUME NEW c, NEW rs, NEW t, NEW q, NEW s, ErrorsPass(c, s, w), CatchesUp(c, rs, t, q, s, v)
        PROVE  CatchesUp(c, rs, t, q, s, w)
    BY <1>2, <1>3, <1>4, <1>6, <1>7 DEF CatchesUp
  <1> QED
    BY <1>5, <1>7

\* The activities cannot be loaded; a restoration that is on its way will load them again
\* (refreshActivities).
LEMMA ActivitiesFailedOn ==
    ASSUME ServerInv, ClientInv, ViewInv, NEW i \in DOMAIN requests,
           ActivitiesRefreshed(i), ~requests[i].ok, requests[i].fresh
    PROVE  CatchesOn
  <1> DEFINE v == view[active]
             w == ActivitiesError(v)
             rs == runs[active]
             u == RemoveAt(requests, i)
  <1>1. requests[i].kind = "activities" /\ requests' = u /\ requests[i].conv = active
        /\ UNCHANGED <<runs, task, stream, active>>
    BY SomeRequest DEF ActivitiesRefreshed, Without, serverVars
  <1>2. view' = [view EXCEPT ![active] = w]
    BY <1>1 DEF ActivitiesRefreshed, Dispatch, IsDone
  <1>3. view'[active] = w /\ ViewTrue(rs, v)
    BY <1>2 DEF ViewInv, ClientInv
  <1>4. Removed(requests, u, i) /\ Idle(requests[i], active) /\ Fails(requests[i])
    <2>1. Idle(requests[i], active)
      BY <1>1, IgnoredIsIdle
    <2>2. Removed(requests, u, i)
      BY PlaceByPlace DEF ClientInv
    <2> QED
      BY <1>1, <2>1, <2>2 DEF Fails
  <1>5. /\ StateAlike(v, w)
        /\ w.messages = v.messages /\ w.runs = v.runs /\ w.activities = v.activities
    <2>1. IsShown(v)
      BY <1>3, ViewIs
    <2> QED
      BY <2>1, LoadsAre
  <1> HIDE DEF v, w, rs, u
  <1>6. /\ \A t, q : CatchesUp(active, rs, t, q, requests, v) => CatchesUp(active, rs, t, q, u, v)
        /\ \A n : ActivityAwaited(active, rs, requests, v, n) => ActivityAwaited(active, rs, u, v, n)
    BY <1>4, RemovedOnward
  <1>7. ErrorsPass(active, requests, v) => ErrorsPass(active, u, w)
    <2> SUFFICES ASSUME ErrorsPass(active, requests, v)
                 PROVE  ErrorsPass(active, u, w)
      OBVIOUS
    <2>1. PICK k \in DOMAIN requests :
            Restores(requests[k], active) /\ \A j \in DOMAIN requests : j > k => ~Fails(requests[j])
      BY <1>4 DEF ErrorsPass
    <2>2. k # i
      BY <1>1, <2>1 DEF Restores, Restoration
    <2>3. \E l \in DOMAIN u : Restores(u[l], active) /\ \A j \in DOMAIN u : j > l => ~Fails(u[j])
      BY <1>4, <2>1, <2>2, RemovedBrings
    <2> QED
      BY <2>3 DEF ErrorsPass
  <1>8. /\ \A t, q : CatchesUp(active, rs, t, q, requests, v) => CatchesUp(active, rs, t, q, u, w)
        /\ \A n : ActivityAwaited(active, rs, requests, v, n) => ActivityAwaited(active, rs, u, w, n)
    <2>1. \A t, q : CatchesUp(active, rs, t, q, u, v) /\ ErrorsPass(active, u, w)
                      => CatchesUp(active, rs, t, q, u, w)
      BY <1>5, ErrorAside
    <2>2. \A n : ActivityAwaited(active, rs, u, v, n) => ActivityAwaited(active, rs, u, w, n)
      BY <1>5, ErrorAside
    <2>3. \A t, q : CatchesUp(active, rs, t, q, requests, v) => ErrorsPass(active, requests, v)
      BY DEF CatchesUp
    <2> QED
      BY <1>6, <1>7, <2>1, <2>2, <2>3
  <1>9. CaughtOn
    BY <1>1, <1>3, <1>8 DEF CaughtOn, Caught, rs, v
  <1>10. ToldOn
    BY <1>1, <1>3, <1>8 DEF ToldOn, rs, v
  <1> QED
    BY <1>9, <1>10 DEF CatchesOn

\* The activities are refreshed (refreshActivities).
LEMMA ActivitiesOn ==
    ASSUME ServerInv, ClientInv, ViewInv, ConnectionInv, NEW i \in DOMAIN requests,
           ActivitiesRefreshed(i)
    PROVE  CatchesOn
  <1>1. /\ requests[i].kind = "activities" /\ requests' = RemoveAt(requests, i)
        /\ UNCHANGED <<runs, task, stream, active>>
    BY DEF ActivitiesRefreshed, Without, serverVars
  <1>2. CASE IsDone(requests[i]) /\ requests[i].fresh /\ Apply(i)
    <2>1. requests' = Without(i) /\ requests[i].kind \notin Restoration \union {"terminal"}
      BY <1>1 DEF Without, Restoration
    <2>2. HasEffect(requests[i])
      BY <1>2 DEF HasEffect
    <2>3. requests[i].kind \notin {"post", "stop", "decide"}
      BY <1>1
    <2>4. stream'[active].queue = stream[active].queue
      BY <1>1
    <2> QED
      BY <1>1, <1>2, <2>1, <2>2, <2>3, <2>4, ApplyOn
  <1>3. CASE ~requests[i].ok /\ requests[i].fresh
    BY <1>3, ActivitiesFailedOn
  <1>4. CASE ~requests[i].fresh /\ Ignore
    <2>1. Idle(requests[i], active)
      BY <1>1, <1>4, IgnoredIsIdle DEF Unguarded
    <2> QED
      BY <1>1, <1>4, <2>1, IdleLeaves DEF Ignore
  <1> QED
    BY <1>2, <1>3, <1>4 DEF ActivitiesRefreshed

StateTypes == {"run.started", "approval.requested", "approval.resolved", "run.completed", "run.failed"}

\* The events, part by part (event.received).
LEMMA EventIs ==
    ASSUME NEW v, IsShown(v), NEW e
    PROVE  LET w == EventReceived(v, e) IN
           /\ w.runs = v.runs
           /\ w.error = v.error /\ w.activitiesError = v.activitiesError
           /\ w.messages = IF e.type = "assistant.message.completed"
                           THEN v.messages \union {AssistantMessage(e.run)} ELSE v.messages
           /\ w.activities = IF e.type \in StateTypes \union {"assistant.message.completed"}
                             THEN v.activities
                             ELSE MergeActivities(v.activities, ActivityFromEvent(e))
           /\ e.type \notin StateTypes => StateAlike(v, w)
           /\ e.type = "run.started" =>
                w.status = "running" /\ w.active = e.run /\ w.latest = e.run /\ w.approval = 0
  <1> DEFINE w == EventReceived(v, e)
             Moved(status, n, latest) ==
               [messages |-> v.messages, runs |-> v.runs, activities |-> v.activities,
                status |-> status, active |-> n, latest |-> latest, approval |-> 0,
                error |-> v.error, activitiesError |-> v.activitiesError]
  <1>1. CASE e.type = "run.started"
    <2>1. w = Moved("running", e.run, e.run)
      BY <1>1 DEF EventReceived, IsShown
    <2> HIDE DEF w
    <2>2. /\ w.runs = v.runs /\ w.error = v.error /\ w.activitiesError = v.activitiesError
          /\ w.messages = v.messages /\ w.activities = v.activities
          /\ w.status = "running" /\ w.active = e.run /\ w.latest = e.run /\ w.approval = 0
      BY <2>1
    <2> QED
      BY <1>1, <2>2 DEF StateTypes, w
  <1>2. CASE e.type \in StateTypes \ {"run.started"}
    <2>1. \E status, n, latest : w = Moved(status, n, latest)
      <3>1. CASE e.type = "approval.requested"
        <4>1. w = Moved("waiting_approval", e.run, v.latest)
          BY <3>1 DEF EventReceived, IsShown
        <4> HIDE DEF w, Moved
        <4> QED
          BY <4>1
      <3>2. CASE e.type = "approval.resolved"
        <4>1. w = Moved("running", v.active, v.latest)
          BY <3>2 DEF EventReceived, IsShown
        <4> HIDE DEF w, Moved
        <4> QED
          BY <4>1
      <3>3. CASE e.type = "run.completed"
        <4>1. w = Moved("completed", 0, e.run)
          BY <3>3 DEF EventReceived, RunEnded, IsShown
        <4> HIDE DEF w, Moved
        <4> QED
          BY <4>1
      <3>4. CASE e.type = "run.failed"
        <4>1. w = Moved("failed", 0, e.run)
          BY <3>4 DEF EventReceived, RunEnded, IsShown
        <4> HIDE DEF w, Moved
        <4> QED
          BY <4>1
      <3> QED
        BY <1>2, <3>1, <3>2, <3>3, <3>4 DEF StateTypes
    <2> HIDE DEF w
    <2>2. /\ w.runs = v.runs /\ w.error = v.error /\ w.activitiesError = v.activitiesError
          /\ w.messages = v.messages /\ w.activities = v.activities
      BY <2>1
    <2> QED
      BY <1>2, <2>2 DEF StateTypes, w
  <1>3. CASE e.type = "assistant.message.completed"
    <2> DEFINE x == v.messages \union {AssistantMessage(e.run)}
    <2>1. w = [v EXCEPT !.messages = x]
      BY <1>3 DEF EventReceived, MergeMessages
    <2> HIDE DEF x, w
    <2>2. /\ w.runs = v.runs /\ w.error = v.error /\ w.activitiesError = v.activitiesError
          /\ w.messages = x /\ w.activities = v.activities /\ StateAlike(v, w)
      BY <2>1 DEF IsShown, StateAlike
    <2> QED
      BY <1>3, <2>2 DEF StateTypes, w, x
  <1>4. CASE e.type \notin StateTypes \union {"assistant.message.completed"}
    <2> DEFINE x == MergeActivities(v.activities, ActivityFromEvent(e))
    <2>1. w = [v EXCEPT !.activities = x]
      BY <1>4 DEF EventReceived, StateTypes
    <2> HIDE DEF x, w
    <2>2. /\ w.runs = v.runs /\ w.error = v.error /\ w.activitiesError = v.activitiesError
          /\ w.messages = v.messages /\ w.activities = x /\ StateAlike(v, w)
      BY <2>1 DEF IsShown, StateAlike
    <2> QED
      BY <1>4, <2>2 DEF StateTypes, w, x
  <1> QED
    BY <1>1, <1>2, <1>3, <1>4 DEF StateTypes

\* What follows the answer to a POST or a Stop.
LEMMA AnsweredOnward ==
    ASSUME ClientInv, ConnectionInv, NEW i \in DOMAIN requests,
           NEW kind \in {"submitted", "stopped"},
           requests' = Append(Without(i), Next1(i, kind)),
           UNCHANGED <<runs, task, stream, active>>,
           requests[i].kind \in {"post", "stop"},
           requests[i].conv # active => view'[active] = view[active],
           requests[i].conv = active /\ up /\ ~excused' =>
             LET s == requests
                 u == RemoveAt(requests, i)
                 z == requests'
                 q == Next1(i, kind)
                 c == active
                 rs == runs[active]
                 v == view[active]
                 w == view'[active]
             IN Removed(s, u, i) /\ Added(u, z, q) /\ q.got = <<>> /\ ~Fails(q) /\ Effective(q, c)
                => /\ \A t, qu : CatchesUp(c, rs, t, qu, s, v) => CatchesUp(c, rs, t, qu, z, w)
                   /\ \A n : ActivityAwaited(c, rs, s, v, n) => ActivityAwaited(c, rs, z, w, n)
    PROVE  CatchesOn
  <1> DEFINE r == requests[i]
             q == Next1(i, kind)
             u == RemoveAt(requests, i)
             z == requests'
  <1>1. /\ active \in Conversations
        /\ AreRequests(requests, active)
    BY DEF ClientInv
  <1>2. Removed(requests, u, i) /\ AreRequests(u, active)
    BY <1>1, PlaceByPlace, RemoveRequest
  <1>3. /\ q.kind = kind /\ q.conv = r.conv /\ (q.fresh <=> r.fresh) /\ (q.ok <=> up)
        /\ q.got = <<>> /\ IsRequest(q) /\ (q.fresh => q.conv = active)
    BY Next1Is, SomeRequest
  <1>4. z = Append(u, q)
    BY DEF Without
  <1>5. ~Fails(q)
    BY <1>3 DEF Fails
  <1> HIDE DEF q, u
  <1>6. Added(u, z, q) /\ AreRequests(z, active)
    BY <1>2, <1>3, <1>4, PlaceByPlace, AppendRequest
  <1>7. CASE r.conv # active
    <2>1. Idle(r, active)
      BY <1>7 DEF Idle, Effective, Begins, StopIsServed
    <2> QED
      BY <1>3, <1>4, <1>5, <1>6, <1>7, <2>1, IdleFollowed DEF u
  <1>8. CASE ~up \/ excused'
    <2>1. CASE ~up
      BY <2>1 DEF ConnectionInv, CatchesOn, CaughtOn, ToldOn, ClientInv
    <2>2. CASE excused'
      BY <2>2 DEF CatchesOn, CaughtOn, ToldOn, Clean
    <2> QED
      BY <1>8, <2>1, <2>2
  <1>9. CASE r.conv = active /\ up /\ ~excused'
    <2>1. Effective(q, active)
      BY <1>3, <1>9 DEF Effective, HasEffect, Unguarded
    <2>2. /\ \A t, qu : CatchesUp(active, runs[active], t, qu, requests, view[active])
                          => CatchesUp(active, runs[active], t, qu, z, view'[active])
          /\ \A n : ActivityAwaited(active, runs[active], requests, view[active], n)
                      => ActivityAwaited(active, runs[active], z, view'[active], n)
      BY <1>2, <1>3, <1>5, <1>6, <1>9, <2>1 DEF q, u
    <2>3. CaughtOn
      BY <2>2 DEF CaughtOn, Caught
    <2>4. ToldOn
      BY <2>2 DEF ToldOn
    <2> QED
      BY <2>3, <2>4 DEF CatchesOn
  <1> QED
    BY <1>7, <1>8, <1>9

\* A POST has been answered; a Stop has (handleSubmitMessage, handleStop).
LEMMA PostAnsweredOn ==
    ASSUME ServerInv, ClientInv, ViewInv, PostsInv, ConnectionInv, NEW i \in DOMAIN requests,
           PostAnswered(i)
    PROVE  CatchesOn
  <1> DEFINE r == requests[i]
             n == r.session
             c == r.conv
             e == [type |-> "run.started", run |-> n]
  <1>0. /\ r.kind = "post" /\ UNCHANGED <<runs, task, stream, active>>
        /\ c \in Conversations /\ active \in Conversations /\ DOMAIN view = Conversations
    BY SomeRequest DEF PostAnswered, serverVars, ClientInv, ViewInv
  <1>1. CASE /\ r.ok /\ r.answer = "accepted"
             /\ Dispatch(c, EventReceived(view[c], e))
             /\ excused' = (excused \/ view[c].latest = n)
             /\ requests' = Append(Without(i), Next1(i, "submitted"))
    <2>1. view' = [view EXCEPT ![c] = EventReceived(view[c], e)]
      BY <1>1 DEF Dispatch
    <2>2. c # active => view'[active] = view[active]
      BY <1>0, <2>1
    <2>3. ASSUME c = active, ~excused', NEW s, NEW u, NEW z, NEW q, s = requests,
                 q = Next1(i, "submitted"),
                 Removed(s, u, i), Added(u, z, q), q.got = <<>>, ~Fails(q), Effective(q, c)
          PROVE  LET rs == runs[active]
                     v == view[active]
                     w == view'[active]
                 IN /\ \A t, qu : CatchesUp(c, rs, t, qu, s, v) => CatchesUp(c, rs, t, qu, z, w)
                    /\ \A m : ActivityAwaited(c, rs, s, v, m) => ActivityAwaited(c, rs, z, w, m)
      <3> DEFINE rs == runs[active]
                 v == view[active]
                 w == view'[active]
      <3>1. w = EventReceived(v, e) /\ IsShown(v)
        BY <1>0, <2>1, <2>3, ViewIs DEF ViewInv
      <3>2. e.type = "run.started"
        OBVIOUS
      <3> HIDE DEF e, w, v
      <3>3. /\ w.messages = v.messages /\ w.activities = v.activities /\ w.runs = v.runs
            /\ w.error = v.error /\ w.activitiesError = v.activitiesError
        BY <3>1, <3>2, EventIs DEF StateTypes
      <3>4. n = Len(rs) /\ n \in DOMAIN rs
        BY <1>0, <1>1, <2>3 DEF PostsInv, PostTrue, Begins, ViewInv, RequestTrue
      <3>5. v.latest # n
        BY <1>1, <2>3 DEF v
      <3>6. rs \in Seq(Run)
        BY <1>0 DEF ServerInv, RunsOK
      <3>7. ~ShowsState(v, ConversationState(rs))
        <4>1. Len(rs) # 0
          BY <3>4, <3>6
        <4>2. ConversationState(rs).run = Len(rs)
          BY <4>1 DEF ConversationState
        <4> QED
          BY <3>4, <3>5, <4>2 DEF ShowsState
      <3>8. q.kind = "submitted"
        BY <2>3, Next1Is
      <3>9. Parts[s[i].kind] = {} /\ ~IsBegun(s[i]) /\ ~StopIsServed(s[i], c)
        BY <1>0, <1>1, <2>3 DEF Parts, IsBegun, StopIsServed
      <3> HIDE DEF rs
      <3>10. /\ \A t, qu : CatchesUp(c, rs, t, qu, s, v) => CatchesUp(c, rs, t, qu, z, w)
             /\ \A m : ActivityAwaited(c, rs, s, v, m) => ActivityAwaited(c, rs, z, w, m)
        BY <2>3, <3>3, <3>7, <3>8, <3>9, FollowedOnward
      <3> QED
        BY <3>10 DEF rs, v, w
    <2> HIDE DEF e
    <2> QED
      BY <1>0, <1>1, <2>2, <2>3, AnsweredOnward
  <1>2. CASE (r.answer = "refused" \/ ~r.ok) /\ Ignore /\ requests' = Without(i)
    <2>1. Idle(r, active)
      BY <1>0, <1>2 DEF Idle, Begins, StopIsServed, Effective, Parts
    <2> QED
      BY <1>0, <1>2, <2>1, IdleLeaves DEF Ignore, Without
  <1> QED
    BY <1>1, <1>2 DEF PostAnswered

\* A Stop that has been accepted is followed by a reload (handleStop).
LEMMA StopAnsweredOn ==
    ASSUME ServerInv, ClientInv, ViewInv, ConnectionInv, NEW i \in DOMAIN requests,
           StopAnswered(i)
    PROVE  CatchesOn
  <1> DEFINE r == requests[i]
             c == r.conv
  <1>0. r.kind = "stop" /\ UNCHANGED <<runs, task, stream, active, view>>
    BY DEF StopAnswered, serverVars, Ignore
  <1>1. CASE r.ok /\ r.answer = "accepted" /\ requests' = Append(Without(i), Next1(i, "stopped"))
    <2>1. ASSUME c = active, NEW s, NEW u, NEW z, NEW q, s = requests,
                 q = Next1(i, "stopped"),
                 Removed(s, u, i), Added(u, z, q), q.got = <<>>, ~Fails(q), Effective(q, c)
          PROVE  LET rs == runs[active]
                     v == view[active]
                 IN /\ \A t, qu : CatchesUp(c, rs, t, qu, s, v) => CatchesUp(c, rs, t, qu, z, v)
                    /\ \A m : ActivityAwaited(c, rs, s, v, m) => ActivityAwaited(c, rs, z, v, m)
      <3>1. q.kind = "stopped"
        BY <2>1, Next1Is
      <3>2. Parts[s[i].kind] = {} /\ ~IsBegun(s[i]) /\ ~Begins(s[i], c)
        BY <1>0, <1>1, <2>1 DEF Parts, IsBegun, Begins
      <3> DEFINE rs == runs[active]
                 v == view[active]
      <3> HIDE DEF rs, v
      <3>3. PICK w : w = v
        OBVIOUS
      <3>4. /\ w.messages = v.messages /\ w.activities = v.activities /\ w.runs = v.runs
            /\ w.error = v.error /\ w.activitiesError = v.activitiesError
        BY <3>3
      <3>5. /\ \A t, qu : CatchesUp(c, rs, t, qu, s, v) => CatchesUp(c, rs, t, qu, z, w)
            /\ \A m : ActivityAwaited(c, rs, s, v, m) => ActivityAwaited(c, rs, z, w, m)
        <4>1. /\ Removed(s, u, i) /\ Added(u, z, q) /\ q.got = <<>> /\ ~Fails(q)
              /\ Effective(q, c)
          BY <2>1
        <4>2. ~(IsBegun(s[i]) /\ s[i].conv = c)
          BY <3>2
        <4>3. \/ /\ q.kind = "submitted" /\ ~ShowsState(v, ConversationState(rs))
                 /\ ~StopIsServed(s[i], c)
              \/ q.kind = "stopped" /\ ~Begins(s[i], c)
          BY <3>1, <3>2
        <4> HIDE DEF c, r
        <4> QED
          BY <3>2, <3>4, <4>1, <4>2, <4>3, FollowedOnward
      <3> QED
        BY <3>3, <3>5 DEF rs, v
    <2> QED
      BY <1>0, <1>1, <2>1, AnsweredOnward
  <1>2. CASE (r.answer = "refused" \/ ~r.ok) /\ requests' = Without(i)
    <2>1. Idle(r, active)
      BY <1>0, <1>2 DEF Idle, Begins, StopIsServed, Effective, Parts
    <2> QED
      BY <1>0, <1>2, <2>1, IdleLeaves DEF Without
  <1> QED
    BY <1>1, <1>2 DEF StopAnswered

-----------------------------------------------------------------------------
(* An event is delivered. *)

Delivered(rs, q, p, e, v, w) ==
  /\ q # <<>> /\ EventsTrue(rs, q)
  /\ e = Head(q) /\ p = Tail(q)
  /\ ViewTrue(rs, v)
  /\ w = EventReceived(v, e)
  /\ ~IsLate(v, e)

\* The others are still queued.
LEMMA QueueIs ==
    ASSUME NEW rs, NEW q, q # <<>>, EventsTrue(rs, q)
    PROVE  /\ Len(q) \in Nat /\ DOMAIN q = 1..Len(q)
           /\ DOMAIN Tail(q) = 1..(Len(q) - 1)
           /\ 1 \in DOMAIN q /\ Head(q) = q[1]
           /\ \A k \in DOMAIN Tail(q) : k + 1 \in DOMAIN q /\ Tail(q)[k] = q[k + 1]
           /\ \A k \in DOMAIN q : k # 1 => k - 1 \in DOMAIN Tail(q) /\ Tail(q)[k - 1] = q[k]
  <1>1. q \in Seq(Event) /\ Len(q) \in Nat /\ DOMAIN q = 1..Len(q) /\ Len(q) # 0
    BY DEF EventsTrue
  <1>2. /\ Tail(q) \in Seq(Event) /\ Len(Tail(q)) = Len(q) - 1
        /\ DOMAIN Tail(q) = 1..(Len(q) - 1)
        /\ \A k \in 1..(Len(q) - 1) : Tail(q)[k] = q[k + 1]
        /\ Head(q) = q[1]
    BY <1>1
  <1> QED
    BY <1>1, <1>2

\* What was pending still is, or is told now.
LEMMA StillPending ==
    ASSUME NEW rs, NEW q, q # <<>>, EventsTrue(rs, q), NEW t
    PROVE  /\ \A types : Pending(t, q, types) =>
                Head(q).type \in types \/ Pending(t, Tail(q), types)
           /\ \A n, types : PendingOf(n, t, q, types) =>
                (Head(q).type \in types /\ Head(q).run = n) \/ PendingOf(n, t, Tail(q), types)
  <1> DEFINE p == Tail(q)
             e == Head(q)
  <1>1. \A k \in DOMAIN q : q[k] = e \/ \E l \in DOMAIN p : p[l] = q[k]
    BY QueueIs
  <1> HIDE DEF p, e
  <1>2. \A types : Pending(t, q, types) => e.type \in types \/ Pending(t, p, types)
    BY <1>1 DEF Pending
  <1>3. \A n, types : PendingOf(n, t, q, types) =>
          (e.type \in types /\ e.run = n) \/ PendingOf(n, t, p, types)
    BY <1>1 DEF PendingOf
  <1> QED
    BY <1>2, <1>3 DEF p, e

\* What follows a start is behind it in the queue.
LEMMA StartsStayFollowed ==
    ASSUME NEW rs, NEW q, q # <<>>, EventsTrue(rs, q), NEW t, StartsAreFollowed(rs, t, q)
    PROVE  StartsAreFollowed(rs, t, Tail(q))
  <1> SUFFICES ASSUME NEW k \in DOMAIN Tail(q), Tail(q)[k].type = "run.started"
               PROVE  StartFollowed(rs, t, Tail(q), k)
    BY DEF StartsAreFollowed
  <1> DEFINE p == Tail(q)
  <1>1. k + 1 \in DOMAIN q /\ p[k] = q[k + 1] /\ k \in Nat
    BY QueueIs
  <1>2. StartFollowed(rs, t, q, k + 1)
    BY <1>1 DEF StartsAreFollowed
  <1>3. ASSUME NEW l \in DOMAIN q, l > k + 1, q[l].type \in Followed
        PROVE  \E m \in DOMAIN p : m > k /\ p[m].type \in Followed
    <2>1. l \in Nat /\ l # 1 /\ l - 1 > k
      BY <1>1, <1>3, QueueIs
    <2>2. l - 1 \in DOMAIN p /\ p[l - 1] = q[l]
      BY <2>1, QueueIs
    <2> QED
      BY <1>3, <2>1, <2>2
  <1> HIDE DEF p
  <1>4. StartFollowed(rs, t, p, k)
    BY <1>1, <1>2, <1>3 DEF StartFollowed
  <1> QED
    BY <1>4 DEF p

\* A tool event or a message: nothing of it is awaited otherwise, and it is shown.
LEMMA ToldOnward ==
    ASSUME NEW rs, NEW q, NEW p, NEW e, NEW v, NEW w, Delivered(rs, q, p, e, v, w),
           e.type \notin StateTypes,
           NEW c, NEW t, NEW s, CatchesUp(c, rs, t, q, s, v)
    PROVE  CatchesUp(c, rs, t, p, s, w)
  <1>0. /\ q # <<>> /\ EventsTrue(rs, q) /\ e = Head(q) /\ p = Tail(q)
        /\ IsShown(v) /\ ViewTrue(rs, v) /\ w = EventReceived(v, e)
        /\ EventTrue(rs, e)
    BY ViewIs, QueueParts DEF Delivered
  <1>1. /\ w.runs = v.runs /\ w.error = v.error /\ w.activitiesError = v.activitiesError
        /\ StateAlike(v, w)
        /\ w.messages = IF e.type = "assistant.message.completed"
                        THEN v.messages \union {AssistantMessage(e.run)} ELSE v.messages
        /\ w.activities = IF e.type = "assistant.message.completed"
                          THEN v.activities
                          ELSE MergeActivities(v.activities, ActivityFromEvent(e))
    BY <1>0, EventIs
  <1>2. e.type \notin Followed /\ e.type \notin Ends
    BY DEF StateTypes, Followed, Ends
  <1>3. /\ Pending(t, q, Followed) => Pending(t, p, Followed)
        /\ Pending(t, q, Ends) => Pending(t, p, Ends)
    BY <1>0, <1>2, StillPending
  <1>4. \A n, types : PendingOf(n, t, q, types) =>
          (e.type \in types /\ e.run = n) \/ PendingOf(n, t, p, types)
    BY <1>0, StillPending
  <1>5. StateCatchesUp(c, rs, t, p, s, w)
    <2>1. \A x : ShowsState(v, x) => ShowsState(w, x)
      BY <1>1 DEF ShowsState, StateAlike
    <2>2. StateUnderway(c, rs, t, q, s) => StateUnderway(c, rs, t, p, s)
      BY <1>3 DEF StateUnderway
    <2> QED
      BY <2>1, <2>2 DEF CatchesUp, StateCatchesUp, Awaited
  <1>6. RunsCatchUp(c, rs, t, p, s, w)
    <2>1. RunsUnderway(c, rs, t, q, s) => RunsUnderway(c, rs, t, p, s)
      BY <1>3 DEF RunsUnderway
    <2> QED
      BY <1>1, <2>1 DEF CatchesUp, RunsCatchUp
  <1>7. MessagesCatchUp(c, rs, t, p, s, w)
    <2>1. \A m : m \in v.messages => m \in w.messages
      BY <1>1
    <2>2. \A n : PendingOf(n, t, q, {"run.completed"}) => PendingOf(n, t, p, {"run.completed"})
      BY <1>4 DEF StateTypes
    <2> QED
      BY <2>1, <2>2 DEF CatchesUp, MessagesCatchUp
  <1>8. ActivitiesCatchUp(c, rs, t, p, s, w)
    <2> SUFFICES ASSUME NEW n \in DOMAIN ActivityList(rs)
                 PROVE  \/ ActivityAwaited(c, rs, s, w, n)
                        \/ PendingOf(n, t, p, ToolEvents(rs[n].activity))
      BY DEF ActivitiesCatchUp
    <2>1. \/ ActivityAwaited(c, rs, s, v, n)
          \/ PendingOf(n, t, q, ToolEvents(rs[n].activity))
      BY DEF CatchesUp, ActivitiesCatchUp
    <2>2. ActivitiesTrue(rs, v.activities) /\ ActivitiesTrue(rs, ActivityFromEvent(e))
      BY <1>0, ViewIs, EventActivityTrue
    <2>3. n \in DOMAIN v.activities /\ v.activities[n] = rs[n].activity
            => n \in DOMAIN w.activities /\ w.activities[n] = rs[n].activity
      BY <1>1, <2>2, MergeShows
    <2>4. ActivityAwaited(c, rs, s, v, n) => ActivityAwaited(c, rs, s, w, n)
      BY <2>3 DEF ActivityAwaited, ShowsActivity
    <2>5. ASSUME e.type \in ToolEvents(rs[n].activity), e.run = n
          PROVE  n \in DOMAIN w.activities /\ w.activities[n] = rs[n].activity
      <3>1. e.type # "assistant.message.completed"
        BY <2>5 DEF ToolEvents
      <3>2. n \in DOMAIN ActivityFromEvent(e) /\ ActivityFromEvent(e)[n] = rs[n].activity
        BY <2>5 DEF ToolEvents, ActivityFromEvent
      <3> QED
        BY <1>1, <2>2, <3>1, <3>2, MergeShows
    <2>6. e.type \in ToolEvents(rs[n].activity) /\ e.run = n => ActivityAwaited(c, rs, s, w, n)
      BY <2>5 DEF ActivityAwaited, ShowsActivity
    <2> QED
      BY <1>4, <2>1, <2>4, <2>6
  <1>9. ErrorsPass(c, s, w)
    BY <1>1 DEF CatchesUp, ErrorsPass
  <1>10. StartsAreFollowed(rs, t, p)
    BY <1>0, StartsStayFollowed DEF CatchesUp
  <1> QED
    BY <1>5, <1>6, <1>7, <1>8, <1>9, <1>10 DEF CatchesUp

\* A start: what more there is to tell is still to come.
LEMMA StartOnward ==
    ASSUME NEW rs \in Seq(Run), NEW q, NEW p, NEW e, NEW v, NEW w, Delivered(rs, q, p, e, v, w),
           e.type = "run.started",
           NEW c, NEW t, NEW s, CatchesUp(c, rs, t, q, s, v)
    PROVE  CatchesUp(c, rs, t, p, s, w)
  <1>0. /\ q # <<>> /\ EventsTrue(rs, q) /\ e = Head(q) /\ p = Tail(q)
        /\ IsShown(v) /\ ViewTrue(rs, v) /\ w = EventReceived(v, e)
        /\ EventTrue(rs, e) /\ e.run \in DOMAIN rs
    BY ViewIs, QueueParts DEF Delivered, EventTrue
  <1>1. /\ w.runs = v.runs /\ w.error = v.error /\ w.activitiesError = v.activitiesError
        /\ w.messages = v.messages /\ w.activities = v.activities
        /\ w.status = "running" /\ w.active = e.run /\ w.latest = e.run /\ w.approval = 0
    BY <1>0, EventIs DEF StateTypes
  <1>2. e.type \notin Followed /\ e.type \notin Ends
    BY DEF StateTypes, Followed, Ends
  <1>3. /\ Pending(t, q, Followed) => Pending(t, p, Followed)
        /\ Pending(t, q, Ends) => Pending(t, p, Ends)
    BY <1>0, <1>2, StillPending
  <1>4. \A n, types : "run.started" \notin types /\ PendingOf(n, t, q, types) => PendingOf(n, t, p, types)
    BY <1>0, StillPending
  <1>5. StateCatchesUp(c, rs, t, p, s, w)
    <2> DEFINE n == e.run
               x == ConversationState(rs)
    <2>1. StateUnderway(c, rs, t, q, s) => StateUnderway(c, rs, t, p, s)
      BY <1>3 DEF StateUnderway
    <2>2. LastBrings(s, c, "state", x) => StateCatchesUp(c, rs, t, p, s, w)
      BY DEF StateCatchesUp, Awaited
    <2>3. ASSUME ShowsState(v, x), \A i \in DOMAIN s : ~Brings(s[i], c, "state")
          PROVE  StateCatchesUp(c, rs, t, p, s, w)
      <3>1. Len(rs) \in Nat /\ DOMAIN rs = 1..Len(rs) /\ n \in 1..Len(rs) /\ Len(rs) # 0
        BY <1>0
      <3>2. x.run = Len(rs) /\ x.status = rs[Len(rs)].status
            /\ x.pending = IF rs[Len(rs)].status = "waiting_approval"
                              /\ rs[Len(rs)].approval = "pending" THEN Len(rs) ELSE 0
        BY <3>1 DEF ConversationState
      <3>3. v.latest = Len(rs) /\ v.status = rs[Len(rs)].status
        BY <2>3, <3>2 DEF ShowsState
      <3>4. ~(n < v.latest) /\ v.status # "interrupted"
        BY DEF Delivered, IsLate
      <3>5. n = Len(rs)
        BY <3>1, <3>3, <3>4
      <3>6. StartFollowed(rs, t, q, 1) /\ q[1] = e /\ 1 \in DOMAIN q
        BY <1>0, QueueIs DEF CatchesUp, StartsAreFollowed
      <3>7. \/ rs[n].status = "running"
            \/ Moving(rs, t)
            \/ Pending(t, q, Followed)
        BY <3>1, <3>3, <3>4, <3>5, <3>6 DEF StartFollowed, Pending
      <3>8. CASE rs[n].status = "running"
        <4>1. x.run = n /\ x.status = "running" /\ x.pending = 0
          BY <3>2, <3>5, <3>8
        <4> HIDE DEF x, n
        <4>2. ShowsState(w, x)
          BY <1>1, <4>1 DEF ShowsState, ActiveStatuses, n
        <4> QED
          BY <2>3, <4>2 DEF StateCatchesUp, Awaited, x
      <3>9. CASE Moving(rs, t) \/ Pending(t, q, Followed)
        BY <1>3, <3>9 DEF StateCatchesUp, StateUnderway
      <3> QED
        BY <3>7, <3>8, <3>9
    <2> QED
      BY <2>1, <2>2, <2>3 DEF CatchesUp, StateCatchesUp, Awaited
  <1>6. RunsCatchUp(c, rs, t, p, s, w)
    <2>1. RunsUnderway(c, rs, t, q, s) => RunsUnderway(c, rs, t, p, s)
      BY <1>3 DEF RunsUnderway
    <2> QED
      BY <1>1, <2>1 DEF CatchesUp, RunsCatchUp
  <1>7. MessagesCatchUp(c, rs, t, p, s, w)
    <2>1. \A n : PendingOf(n, t, q, {"run.completed"}) => PendingOf(n, t, p, {"run.completed"})
      BY <1>4
    <2> QED
      BY <1>1, <2>1 DEF CatchesUp, MessagesCatchUp
  <1>8. ActivitiesCatchUp(c, rs, t, p, s, w)
    <2>1. \A n : ActivityAwaited(c, rs, s, v, n) => ActivityAwaited(c, rs, s, w, n)
      BY <1>1 DEF ActivityAwaited, ShowsActivity
    <2>2. \A a : "run.started" \notin ToolEvents(a)
      BY DEF ToolEvents
    <2> QED
      BY <1>4, <2>1, <2>2 DEF CatchesUp, ActivitiesCatchUp
  <1>9. ErrorsPass(c, s, w)
    BY <1>1 DEF CatchesUp, ErrorsPass
  <1>10. StartsAreFollowed(rs, t, p)
    BY <1>0, StartsStayFollowed DEF CatchesUp
  <1> QED
    BY <1>5, <1>6, <1>7, <1>8, <1>9, <1>10 DEF CatchesUp

\* The last request that brings a part counts, whatever it will bring.
LEMMA AddedBrings ==
    ASSUME NEW s, NEW z, NEW r, Added(s, z, r), NEW c, Effective(r, c), r.got = <<>>
    PROVE  \A part \in Parts[r.kind] : \A value, shown : Awaited(z, c, part, value, shown)
  <1> SUFFICES ASSUME NEW part \in Parts[r.kind], NEW value, NEW shown
               PROVE  Awaited(z, c, part, value, shown)
    OBVIOUS
  <1>1. Len(z) \in DOMAIN z /\ z[Len(z)] = r /\ \A j \in DOMAIN z : ~(j > Len(z))
    BY DEF Added, Sized
  <1>2. Brings(z[Len(z)], c, part) /\ part \notin DOMAIN z[Len(z)].got
    BY <1>1 DEF Brings
  <1>3. LastBrings(z, c, part, value)
    BY <1>1, <1>2 DEF LastBrings
  <1> QED
    BY <1>3 DEF Awaited

\* An approval event is followed by the state.
LEMMA AskedOnward ==
    ASSUME NEW rs, NEW q, NEW p, NEW e, NEW v, NEW w, Delivered(rs, q, p, e, v, w),
           e.type \in {"approval.requested", "approval.resolved"},
           NEW c, NEW s, NEW z, NEW r, Added(s, z, r), r.kind = "state", r.got = <<>>,
           Effective(r, c),
           NEW t, CatchesUp(c, rs, t, q, s, v)
    PROVE  CatchesUp(c, rs, t, p, z, w)
  <1>0. /\ q # <<>> /\ EventsTrue(rs, q) /\ e = Head(q) /\ p = Tail(q)
        /\ IsShown(v) /\ ViewTrue(rs, v) /\ w = EventReceived(v, e)
    BY ViewIs DEF Delivered
  <1>1. /\ w.runs = v.runs /\ w.error = v.error /\ w.activitiesError = v.activitiesError
        /\ w.messages = v.messages /\ w.activities = v.activities
    BY <1>0, EventIs DEF StateTypes
  <1>2. CatchesUp(c, rs, t, q, z, v)
    <2>1. ~Fails(r)
      BY DEF Fails
    <2> QED
      BY <2>1, AddedOnward
  <1>3. Pending(t, q, Ends) => Pending(t, p, Ends)
    BY <1>0, StillPending DEF Ends
  <1>4. \A n, types : types \intersect {"approval.requested", "approval.resolved"} = {}
          /\ PendingOf(n, t, q, types) => PendingOf(n, t, p, types)
    BY <1>0, StillPending
  <1>5. StateCatchesUp(c, rs, t, p, z, w)
    <2>1. "state" \in Parts[r.kind]
      BY DEF Parts
    <2> QED
      BY <2>1, AddedBrings DEF StateCatchesUp
  <1>6. RunsCatchUp(c, rs, t, p, z, w)
    <2>1. RunsUnderway(c, rs, t, q, z) => RunsUnderway(c, rs, t, p, z)
      BY <1>3 DEF RunsUnderway
    <2> QED
      BY <1>1, <1>2, <2>1 DEF CatchesUp, RunsCatchUp
  <1>7. MessagesCatchUp(c, rs, t, p, z, w)
    <2>1. \A n : PendingOf(n, t, q, {"run.completed"}) => PendingOf(n, t, p, {"run.completed"})
      BY <1>4
    <2> QED
      BY <1>1, <1>2, <2>1 DEF CatchesUp, MessagesCatchUp
  <1>8. ActivitiesCatchUp(c, rs, t, p, z, w)
    <2>1. \A n : ActivityAwaited(c, rs, z, v, n) => ActivityAwaited(c, rs, z, w, n)
      BY <1>1 DEF ActivityAwaited, ShowsActivity
    <2>2. \A a : ToolEvents(a) \intersect {"approval.requested", "approval.resolved"} = {}
      BY DEF ToolEvents
    <2> QED
      BY <1>2, <1>4, <2>1, <2>2 DEF CatchesUp, ActivitiesCatchUp
  <1>9. ErrorsPass(c, z, w)
    BY <1>1, <1>2 DEF CatchesUp, ErrorsPass
  <1>10. StartsAreFollowed(rs, t, p)
    BY <1>0, <1>2, StartsStayFollowed DEF CatchesUp
  <1> QED
    BY <1>5, <1>6, <1>7, <1>8, <1>9, <1>10 DEF CatchesUp

\* An end is followed by all there is.
LEMMA EndOnward ==
    ASSUME NEW rs, NEW q, NEW p, NEW e, NEW v, NEW w, Delivered(rs, q, p, e, v, w),
           IsEnd(e.type),
           NEW c, NEW s, NEW z, NEW r, Added(s, z, r), r.kind = "terminal", r.got = <<>>,
           Effective(r, c),
           NEW t, CatchesUp(c, rs, t, q, s, v)
    PROVE  CatchesUp(c, rs, t, p, z, w)
  <1>0. /\ q # <<>> /\ EventsTrue(rs, q) /\ e = Head(q) /\ p = Tail(q)
        /\ IsShown(v) /\ ViewTrue(rs, v) /\ w = EventReceived(v, e)
    BY ViewIs DEF Delivered
  <1>1. w.error = v.error /\ w.activitiesError = v.activitiesError
    BY <1>0, EventIs
  <1>2. CatchesUp(c, rs, t, q, z, v)
    <2>1. ~Fails(r)
      BY DEF Fails
    <2> QED
      BY <2>1, AddedOnward
  <1>3. {"messages", "runs", "state"} = Parts[r.kind]
    BY DEF Parts
  <1>4. StateCatchesUp(c, rs, t, p, z, w)
    BY <1>3, AddedBrings DEF StateCatchesUp
  <1>5. RunsCatchUp(c, rs, t, p, z, w)
    BY <1>3, AddedBrings DEF RunsCatchUp
  <1>6. Len(z) \in DOMAIN z /\ z[Len(z)] = r
    BY DEF Added, Sized
  <1>7. MessagesCatchUp(c, rs, t, p, z, w)
    <2>1. \A m : BringsMessage(r, c, m)
      BY <1>3 DEF BringsMessage, Brings
    <2> QED
      BY <1>6, <2>1 DEF MessagesCatchUp
  <1>8. ActivitiesCatchUp(c, rs, t, p, z, w)
    <2>1. \A n, a : BringsActivity(r, c, n, a)
      BY DEF BringsActivity
    <2> QED
      BY <1>6, <2>1 DEF ActivitiesCatchUp, ActivityAwaited
  <1>9. ErrorsPass(c, z, w)
    BY <1>1, <1>2 DEF CatchesUp, ErrorsPass
  <1>10. StartsAreFollowed(rs, t, p)
    BY <1>0, <1>2, StartsStayFollowed DEF CatchesUp
  <1> QED
    BY <1>4, <1>5, <1>7, <1>8, <1>9, <1>10 DEF CatchesUp

\* What is awaited of the activities still is, and after an end all of it is.
LEMMA AwaitedAfterEvent ==
    ASSUME NEW rs, NEW q, NEW p, NEW e, NEW v, NEW w, Delivered(rs, q, p, e, v, w),
           NEW c, NEW s, NEW z, z = s \/ \E r : Added(s, z, r) /\ r.got = <<>> /\ ~Fails(r)
    PROVE  \A n : ActivityAwaited(c, rs, s, v, n) => ActivityAwaited(c, rs, z, w, n)
  <1> SUFFICES ASSUME NEW n, ActivityAwaited(c, rs, s, v, n)
               PROVE  ActivityAwaited(c, rs, z, w, n)
    OBVIOUS
  <1>1. /\ IsShown(v) /\ w = EventReceived(v, e) /\ EventTrue(rs, e)
        /\ ActivitiesTrue(rs, v.activities) /\ ActivitiesTrue(rs, ActivityFromEvent(e))
    BY ViewIs, QueueParts, EventActivityTrue DEF Delivered
  <1>2. \/ w.activities = v.activities
        \/ w.activities = MergeActivities(v.activities, ActivityFromEvent(e))
    BY <1>1, EventIs
  <1>3. ShowsActivity(rs, v, n) => ShowsActivity(rs, w, n)
    BY <1>1, <1>2, MergeShows DEF ShowsActivity
  <1>4. ActivityAwaited(c, rs, s, w, n)
    BY <1>3 DEF ActivityAwaited
  <1> QED
    BY <1>4, AddedOnward

\* An event is delivered (connectStream).
LEMMA DeliverCatchUp ==
    ASSUME ServerInv, ClientInv, ViewInv, ConnectionInv, CatchUpInv, [Next]_vars,
           NEW d \in Conversations, Deliver(d)
    PROVE  CatchUpInv'
  <1> DEFINE c == active
             rs == runs[c]
             t == task[c]
             q == stream[c].queue
             e == Head(q)
             p == Tail(q)
             s == requests
             z == requests'
             v == view[c]
             w == EventReceived(v, e)
             next == Followup(e.type)
             R(kind) == Request(kind, c, 0)
  <1>1. /\ d = c /\ c \in Conversations
        /\ \/ next = <<>> /\ z = s
           \/ \E kind \in {"state", "terminal"} : next = <<kind>> /\ z = Append(s, R(kind))
    BY DeliveredRequests DEF ClientInv
  <1>2. /\ active' = active /\ runs' = runs /\ task' = task
        /\ stream[c].phase = "open" /\ q # <<>>
        /\ view' = [view EXCEPT ![c] = w]
        /\ excused' = (excused \/ IsLate(v, e))
        /\ told' = (IF IsEnd(e.type) THEN e.run ELSE told)
        /\ stream' = [stream EXCEPT ![c] = [stream[c] EXCEPT !.queue = p]]
        /\ UNCHANGED <<missed, up>>
    BY <1>1 DEF Deliver, Dispatch
  <1>3. view'[c] = w /\ stream'[c].phase = "open" /\ stream'[c].queue = p
    <2>1. stream'[c] = [phase |-> stream[c].phase, queue |-> p]
      BY <1>1, <1>2, QueueSet
    <2> QED
      BY <1>1, <1>2, <2>1 DEF ViewInv
  <1>4. /\ ViewTrue(rs, v) /\ EventsTrue(rs, q) /\ rs \in Seq(Run) /\ up
    BY <1>1, <1>2 DEF ViewInv, ConnectionTrue, ServerInv, RunsOK, ConnectionInv
  <1>5. EventTrue(rs, e) /\ e.type \in EventTypes
    BY <1>2, <1>4, QueueParts DEF EventTrue, Event
  <1>6. \A kind : /\ R(kind).kind = kind /\ R(kind).got = <<>> /\ Effective(R(kind), c)
                  /\ Added(s, Append(s, R(kind)), R(kind))
    <2>1. \A kind : /\ R(kind).kind = kind /\ R(kind).got = <<>> /\ R(kind).conv = c
                    /\ R(kind).fresh /\ R(kind).ok
      BY <1>4 DEF Request
    <2>2. \A r : Added(s, Append(s, r), r)
      BY PlaceByPlace DEF ClientInv
    <2> HIDE DEF R
    <2> QED
      BY <2>1, <2>2 DEF Effective, HasEffect
  <1> HIDE DEF R, z
  <1>7. /\ e.type \in {"approval.requested", "approval.resolved"} =>
             Added(s, z, R("state"))
        /\ IsEnd(e.type) => Added(s, z, R("terminal"))
        /\ e.type \in StateTypes \/ z = s
        /\ e.type = "run.started" => z = s
        /\ e.type \in StateTypes =>
             \/ e.type = "run.started"
             \/ e.type \in {"approval.requested", "approval.resolved"}
             \/ IsEnd(e.type)
    <2>1. CASE e.type \in {"approval.requested", "approval.resolved"}
      <3>1. next = <<"state">> /\ ~IsEnd(e.type) /\ e.type # "run.started" /\ e.type \in StateTypes
        BY <2>1 DEF Followup, IsEnd, StateTypes
      <3> HIDE DEF next
      <3>2. z = Append(s, R("state"))
        <4>1. next # <<>> /\ next[1] = "state"
          BY <3>1
        <4>2. PICK kind : next = <<kind>> /\ z = Append(s, R(kind))
          BY <1>1, <4>1
        <4>3. next[1] = kind
          BY <4>2
        <4> QED
          BY <4>1, <4>2, <4>3
      <3> QED
        BY <1>6, <2>1, <3>1, <3>2
    <2>2. CASE IsEnd(e.type)
      <3>1. next = <<"terminal">> /\ e.type \notin {"approval.requested", "approval.resolved"}
            /\ e.type # "run.started" /\ e.type \in StateTypes
        BY <2>2 DEF Followup, IsEnd, StateTypes
      <3> HIDE DEF next
      <3>2. z = Append(s, R("terminal"))
        <4>1. next # <<>> /\ next[1] = "terminal"
          BY <3>1
        <4>2. PICK kind : next = <<kind>> /\ z = Append(s, R(kind))
          BY <1>1, <4>1
        <4>3. next[1] = kind
          BY <4>2
        <4> QED
          BY <4>1, <4>2, <4>3
      <3> QED
        BY <1>6, <2>2, <3>1, <3>2
    <2>3. CASE e.type \notin {"approval.requested", "approval.resolved"} /\ ~IsEnd(e.type)
      <3>1. next = <<>>
        BY <2>3 DEF Followup
      <3> HIDE DEF next
      <3>2. z = s
        <4>1. \A kind : next # <<kind>>
          BY <3>1
        <4> QED
          BY <1>1, <4>1
      <3> QED
        BY <2>3, <3>2 DEF StateTypes, IsEnd
    <2> QED
      BY <2>1, <2>2, <2>3
  <1>8. ASSUME Clean'
        PROVE  CatchesUp(c, rs, t, p, z, w)
    <2>1. Clean
      <3>1. stream[c].phase \notin {"broken", "connecting"} /\ active' = active
        BY <1>2
      <3>2. ~StreamError(active)
        BY <3>1 DEF StreamError
      <3>3. ~\E x \in Conversations : Select(x)
        BY <1>2 DEF Select
      <3> QED
        BY <1>8, <3>2, <3>3, CleanMoves
    <2>2. CatchesUp(c, rs, t, q, s, v)
      BY <2>1 DEF CatchUpInv
    <2>3. Delivered(rs, q, p, e, v, w)
      BY <1>2, <1>4, <1>8 DEF Delivered, Clean
    <2> HIDE DEF rs, t, q, p, e, v, w, s
    <2>4. CASE e.type \notin StateTypes
      BY <1>7, <2>2, <2>3, <2>4, ToldOnward
    <2>5. CASE e.type = "run.started"
      BY <1>4, <1>7, <2>2, <2>3, <2>5, StartOnward
    <2>6. CASE e.type \in {"approval.requested", "approval.resolved"}
      BY <1>6, <1>7, <2>2, <2>3, <2>6, AskedOnward
    <2>7. CASE IsEnd(e.type)
      BY <1>6, <1>7, <2>2, <2>3, <2>7, EndOnward
    <2> QED
      BY <1>7, <2>4, <2>5, <2>6, <2>7
  <1>9. ASSUME ~excused'
        PROVE  ToldCatchesUp(c, rs, z, w, told')
    <2>1. ToldCatchesUp(c, rs, s, v, told)
      BY <1>2, <1>9 DEF CatchUpInv
    <2>2. Delivered(rs, q, p, e, v, w)
      BY <1>2, <1>4, <1>9 DEF Delivered
    <2> HIDE DEF rs, t, q, p, e, v, w, s
    <2>3. CASE IsEnd(e.type)
      <3>1. Len(z) \in DOMAIN z /\ z[Len(z)] = R("terminal")
        <4>1. Added(s, z, R("terminal"))
          BY <1>7, <2>3
        <4>2. \A r : Added(s, z, r) => Len(z) \in DOMAIN z /\ z[Len(z)] = r
          BY DEF Added, Sized
        <4> QED
          BY <4>1, <4>2
      <3>2. \A n, a : BringsActivity(R("terminal"), c, n, a)
        BY <1>6 DEF BringsActivity
      <3> QED
        BY <3>1, <3>2 DEF ToldCatchesUp, ActivityAwaited
    <2>4. CASE ~IsEnd(e.type)
      <3>1. (z = s) \/ (Added(s, z, R("state")) /\ R("state").got = <<>> /\ ~Fails(R("state")))
        BY <1>6, <1>7, <2>4 DEF Fails
      <3>2. \A n : ActivityAwaited(c, rs, s, v, n) => ActivityAwaited(c, rs, z, w, n)
        BY <2>2, <3>1, AwaitedAfterEvent
      <3>3. told' = told
        BY <1>2, <2>4
      <3> QED
        BY <2>1, <3>2, <3>3 DEF ToldCatchesUp
    <2> QED
      BY <2>3, <2>4
  <1> HIDE DEF w, p
  <1>10. /\ active' = c /\ runs'[c] = rs /\ task'[c] = t
        /\ stream'[c].queue = p /\ requests' = z /\ view'[c] = w
    BY <1>2, <1>3 DEF z
  <1> QED
    BY <1>8, <1>9, <1>10 DEF CatchUpInv

\* A step of the client or the server leaves nothing behind that will not be told
\* (App.tsx, runner.py, api.py).
LEMMA CatchUpInvStep ==
    ASSUME ServerInv, ClientInv, ViewInv, PostsInv, ConnectionInv, CatchUpInv, [Next]_vars
    PROVE  CatchUpInv'
  <1>1. CASE \E c \in Conversations : Select(c) \/ StreamError(c)
    BY <1>1, RestoringCatchUp
  <1>2. CASE \E c \in Conversations : Deliver(c)
    BY <1>2, DeliverCatchUp
  <1>3. CASE ServerCrash \/ ServerRestart \/ \E c \in Conversations : LoseConnection(c)
    BY <1>3, FaultsCatchUp
  <1>4. CASE UNCHANGED vars
    <2>1. /\ active' = active /\ runs' = runs /\ task' = task /\ stream' = stream
          /\ view' = view /\ requests' = requests
      BY <1>4 DEF vars
    <2>2. \/ CatchesOn
          \/ \E c \in Conversations : Select(c) \/ StreamError(c) \/ Deliver(c)
      BY <2>1, NothingOnward
    <2> QED
      BY <1>1, <1>2, <2>2, CatchesOnIs
  <1>5. ASSUME NEW i \in DOMAIN requests, Handled(i)
        PROVE  CatchesOn
    BY <1>5, FetchesOn, PostBeginsOn, PostStartsOn, StopReadOn, StopServedOn, DecisionServedOn
       DEF Handled
  <1>6. ASSUME NEW i \in DOMAIN requests, Continued(i)
        PROVE  CatchesOn
    <2>1. CASE RestoreDone(i)
      BY <2>1, RestorationsOn
    <2>2. CASE RestoreFailed(i)
      BY <2>2, RestorationsOn, RestoreFailedOn
    <2>3. CASE ActivitiesRefreshed(i)
      BY <2>3, ActivitiesOn
    <2>4. CASE StateFetched(i) \/ TerminalReloaded(i) \/ ReloadedAfterPost(i) \/ DecisionFailed(i)
      BY <2>4, ReloadsOn
    <2>5. CASE PostAnswered(i)
      BY <2>5, PostAnsweredOn
    <2>6. CASE StopAnswered(i)
      BY <2>6, StopAnsweredOn
    <2> QED
      BY <1>6, <2>1, <2>2, <2>3, <2>4, <2>5, <2>6 DEF Continued
  <1>7. ASSUME NEW c \in Conversations, RunTask(c) \/ LateWrite(c) \/ Subscribe(c)
        PROVE  CatchesOn
    BY <1>7, TaskCatchesOn, LateWriteOn, NothingMoves
  <1>8. ASSUME Submit \/ Stop \/ Decide \/ ToggleGroup \/ RetryActivities
        PROVE  CatchesOn
    <2>1. CASE ToggleGroup
      BY <2>1, NothingMoves
    <2>2. \A kind, n : Issue(kind, n) => CatchesOn
      BY IssueOn
    <2> QED
      BY <1>8, <2>1, <2>2 DEF Submit, Stop, Decide, RetryActivities
  <1>9. ASSUME NEW i \in DOMAIN requests, LoseRequest(i) \/ LoseActivities(i)
        PROVE  CatchesOn
    BY <1>9, LoseRequestOn, FetchesOn
  <1>10. \/ CatchesOn
         \/ \E c \in Conversations : Select(c) \/ StreamError(c) \/ Deliver(c) \/ LoseConnection(c)
         \/ ServerCrash \/ ServerRestart
         \/ UNCHANGED vars
    <2>1. CASE \E c \in Conversations : RunTask(c) \/ LateWrite(c) \/ Streaming(c)
      BY <1>7, <2>1 DEF Streaming
    <2>2. CASE \E i \in DOMAIN requests : Handled(i) \/ Continued(i)
      BY <1>5, <1>6, <2>2
    <2>3. CASE User
      BY <1>8, <2>3, ClientAssumption DEF User
    <2>4. CASE Fault
      BY <1>9, <2>4 DEF Fault
    <2> QED
      BY <2>1, <2>2, <2>3, <2>4 DEF Next
  <1>11. CASE CatchesOn /\ ~\E c \in Conversations : Select(c) \/ StreamError(c) \/ Deliver(c)
    BY <1>11, CatchesOnIs
  <1> QED
    BY <1>1, <1>2, <1>3, <1>4, <1>10, <1>11

\* The page starts with a restoration (useEffect in App.tsx).
LEMMA CatchUpStart ==
    ASSUME Init
    PROVE  PostsInv /\ ConnectionInv /\ CatchUpInv
  <1> DEFINE r == Request("restore", active, 0)
  <1>1. /\ active \in Conversations /\ requests = <<r>> /\ up = TRUE
        /\ runs = [c \in Conversations |-> <<>>]
        /\ task = [c \in Conversations |-> NoTask]
        /\ stream = [c \in Conversations |-> Closed]
        /\ told = 0
    BY DEF Init, ServerInit, ClientInit
  <1>2. /\ r.kind = "restore" /\ r.conv = active /\ r.fresh /\ r.ok /\ r.got = <<>>
    BY <1>1 DEF Request
  <1>3. stream[active].phase = "closed" /\ stream[active].queue = <<>>
    BY <1>1 DEF Closed
  <1>4. \A c \in Conversations :
          task[c].out = <<>> /\ task[c].run = 0 /\ stream[c].phase = "closed"
    BY <1>1 DEF NoTask, Closed
  <1> HIDE DEF r
  <1>5. /\ DOMAIN requests = {1} /\ requests[1] = r
    BY <1>1
  <1>6. PostsInv
    <2>1. OnePost(requests)
      BY <1>5 DEF OnePost
    <2>2. \A i \in DOMAIN requests :
            PostTrue(runs[requests[i].conv], task[requests[i].conv], requests[i])
      BY <1>2, <1>5 DEF PostTrue, Begins, IsBegun
    <2>3. \A c \in Conversations : StartTrue(runs[c], task[c])
      BY <1>4 DEF StartTrue
    <2> QED
      BY <1>1, <2>1, <2>2, <2>3 DEF PostsInv
  <1>7. ConnectionInv
    BY <1>1, <1>3, <1>5 DEF ConnectionInv, OneWanted
  <1>8. CatchUpInv
    <2>1. Restores(requests[1], active)
      BY <1>2, <1>5 DEF Restores, Effective, HasEffect, Restoration
    <2>2. \A rs, t, v : CatchesUp(active, rs, t, <<>>, requests, v)
      <3>1. 1 \in DOMAIN requests /\ \A j \in DOMAIN requests : ~(j > 1)
        BY <1>5
      <3> QED
        BY <1>2, <1>5, <2>1, <3>1, RestoringCatchesUp
    <2> QED
      BY <1>3, <2>2 DEF CatchUpInv
  <1> QED
    BY <1>6, <1>7, <1>8

\* Wherever the page is behind, something on its way will tell it.
THEOREM CatchUpInvHolds ==
    Spec => [](ServerInv /\ ClientInv /\ ViewInv /\ PostsInv /\ ConnectionInv /\ CatchUpInv)
  <1>1. Init => PostsInv /\ ConnectionInv /\ CatchUpInv
    BY CatchUpStart
  <1>2. ServerInv /\ ClientInv /\ ViewInv /\ PostsInv /\ ConnectionInv /\ CatchUpInv /\ [Next]_vars
          => PostsInv' /\ ConnectionInv' /\ CatchUpInv'
    BY PostsInvStep, ConnectionInvStep, CatchUpInvStep
  <1> QED
    BY <1>1, <1>2, ViewInvHolds, PTL DEF Spec

\* When nothing more is on its way, the page shows what the server holds, unless since
\* the last restoration an event was missed or the view overwritten with something older
\* (restoreConversationHttp, connectStream, handleSubmitMessage, handleStop).
THEOREM BehindOnlyWhen == Spec => []FallsBehindOnlyWhen
  <1>1. ServerInv /\ ViewInv /\ CatchUpInv => FallsBehindOnlyWhen
    <2> SUFFICES ASSUME ServerInv, ViewInv, CatchUpInv,
                        NEW c \in Conversations, Quiet(c), ~missed, ~excused
                 PROVE  InStep(c)
      BY DEF FallsBehindOnlyWhen
    <2> DEFINE rs == runs[c]
               t == task[c]
               v == view[c]
    <2>1. /\ c = active /\ requests = <<>> /\ stream[c].phase = "open"
          /\ stream[c].queue = <<>> /\ t.out = <<>>
          /\ t.run = 0 \/ IsWaiting(c, t.run)
      BY DEF Quiet
    <2>2. CatchesUp(c, rs, t, <<>>, <<>>, v)
      BY <2>1 DEF CatchUpInv, Clean, Watching
    <2>3. ~Moving(rs, t)
      BY <2>1 DEF Moving, IsWaiting
    <2>4. \A types : ~Pending(t, <<>>, types)
      BY <2>1 DEF Pending
    <2>5. \A n, types : ~PendingOf(n, t, <<>>, types)
      BY <2>1 DEF PendingOf
    <2>6. ViewTrue(rs, v)
      BY DEF ViewInv
    <2>7. t.run = 0 => ~RunsUnderway(c, rs, t, <<>>, <<>>)
      BY <2>4 DEF RunsUnderway
    <2> HIDE DEF rs, t, v
    <2>8. \A part, value, shown : Awaited(<<>>, c, part, value, shown) => shown
      BY DEF Awaited, LastBrings
    <2>9. ShowsState(v, ConversationState(rs))
      <3>1. ~StateUnderway(c, rs, t, <<>>, <<>>)
        BY <2>3, <2>4 DEF StateUnderway
      <3> QED
        BY <2>2, <2>8, <3>1 DEF CatchesUp, StateCatchesUp
    <2>10. t.run = 0 => v.runs = RunList(rs)
      BY <2>2, <2>7, <2>8 DEF CatchesUp, RunsCatchUp
    <2>11. v.messages = Messages(rs)
      <3>1. v.messages \subseteq Messages(rs)
        BY <2>6 DEF ViewTrue
      <3>2. \A m \in Messages(rs) : m \in v.messages
        BY <2>2, <2>5 DEF CatchesUp, MessagesCatchUp
      <3> QED
        BY <3>1, <3>2
    <2>12. ShowsActivities(rs, v)
      BY <2>2, <2>5 DEF CatchesUp, ActivitiesCatchUp, ActivityAwaited, ShowsActivities
    <2>13. ~v.error /\ ~v.activitiesError
      BY <2>2 DEF CatchesUp, ErrorsPass
    <2> QED
      BY <2>9, <2>10, <2>11, <2>12, <2>13 DEF InStep, rs, t, v
  <1> QED
    BY <1>1, CatchUpInvHolds, PTL

\* Of the run whose end the page was told of and of all before, it has shown every tool
\* call as it ended (connectStream, refreshActivities).
THEOREM ActivitiesAreFinal == Spec => []FinalActivities
  <1>1. CatchUpInv => FinalActivities
    <2> SUFFICES ASSUME CatchUpInv, NEW c \in Conversations, Quiet(c), ~excused,
                        NEW n \in DOMAIN ActivityList(runs[c]), n <= told
                 PROVE  ShowsActivity(runs[c], view[c], n)
      BY DEF FinalActivities
    <2>1. c = active /\ requests = <<>> /\ stream[c].phase = "open"
      BY DEF Quiet
    <2>2. ActivityAwaited(c, runs[c], <<>>, view[c], n)
      BY <2>1 DEF CatchUpInv, ToldCatchesUp
    <2> QED
      BY <2>2 DEF ActivityAwaited
  <1> QED
    BY <1>1, CatchUpInvHolds, PTL
=============================================================================
