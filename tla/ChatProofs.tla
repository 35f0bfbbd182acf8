----------------------------- MODULE ChatProofs -----------------------------
(***************************************************************************)
(* Proofs about ChatClient and ChatServer, for any conversations, runs,    *)
(* requests and faults: the one event source is that of the conversation   *)
(* selected, at most the latest run of a conversation is active and has an *)
(* owner, and nothing shown is taken back.                                 *)
(***************************************************************************)
EXTENDS ChatInvariants, SequenceLemmas, SequenceTheorems

-----------------------------------------------------------------------------
(* The requests in flight. *)

IsRequest(r) ==
  /\ r = [kind |-> r.kind, conv |-> r.conv, session |-> r.session, fresh |-> r.fresh,
          ok |-> r.ok, answer |-> r.answer, got |-> r.got]
  /\ r.conv \in Conversations
  /\ r.fresh \in BOOLEAN
  /\ r.ok \in BOOLEAN

(* A sequence of requests, the fresh ones of conversation a. *)
AreRequests(s, a) ==
  /\ \E S : s \in Seq(S)
  /\ \A i \in DOMAIN s : IsRequest(s[i]) /\ (s[i].fresh => s[i].conv = a)

(* Every run that one of s has begun, one of t has begun. *)
Keeps(s, t) ==
  \A i \in DOMAIN s : IsBegun(s[i]) =>
    \E j \in DOMAIN t :
      IsBegun(t[j]) /\ t[j].conv = s[i].conv /\ t[j].session = s[i].session

\* A request issued joins those in flight.
LEMMA AppendRequest ==
    ASSUME NEW a, NEW s, AreRequests(s, a), NEW q, IsRequest(q), q.fresh => q.conv = a
    PROVE  AreRequests(Append(s, q), a) /\ Keeps(s, Append(s, q))
  <1>1. PICK S : s \in Seq(S)
    BY DEF AreRequests
  <1> DEFINE T == S \union {q}
             t == Append(s, q)
  <1>2. s \in Seq(T) /\ q \in T
    BY <1>1
  <1> HIDE DEF T
  <1>3. /\ t \in Seq(T) /\ Len(s) \in Nat
        /\ DOMAIN s = 1..Len(s) /\ DOMAIN t = 1..(Len(s) + 1)
        /\ \A i \in DOMAIN s : t[i] = s[i]
        /\ t[Len(s) + 1] = q
    BY <1>2, AppendProperties
  <1> HIDE DEF t
  <1>4. \A i \in DOMAIN t : (i \in DOMAIN s /\ t[i] = s[i]) \/ t[i] = q
    BY <1>3
  <1>5. AreRequests(t, a)
    BY <1>3, <1>4 DEF AreRequests
  <1>6. \A i \in DOMAIN s : i \in DOMAIN t
    BY <1>3
  <1>7. Keeps(s, t)
    BY <1>3, <1>6 DEF Keeps
  <1> QED
    BY <1>5, <1>7 DEF t

\* A request that has ended leaves the others in flight.
LEMMA RemoveRequest ==
    ASSUME NEW a, NEW s, AreRequests(s, a), NEW i \in DOMAIN s
    PROVE  /\ AreRequests(RemoveAt(s, i), a)
           /\ ~IsBegun(s[i]) => Keeps(s, RemoveAt(s, i))
  <1>1. PICK S : s \in Seq(S)
    BY DEF AreRequests
  <1> DEFINE t == RemoveAt(s, i)
  <1>2. /\ t \in Seq(S)
        /\ \A j \in DOMAIN t : \E k \in DOMAIN s \ {i} : t[j] = s[k]
        /\ \A k \in DOMAIN s \ {i} : \E j \in DOMAIN t : t[j] = s[k]
    BY <1>1, RemoveAtKeeps
  <1> HIDE DEF t
  <1>3. AreRequests(t, a)
    <2>1. \A j \in DOMAIN t : IsRequest(t[j]) /\ (t[j].fresh => t[j].conv = a)
      BY <1>2 DEF AreRequests
    <2> QED
      BY <1>2, <2>1 DEF AreRequests
  <1>4. ~IsBegun(s[i]) => Keeps(s, t)
    BY <1>2 DEF Keeps
  <1> QED
    BY <1>3, <1>4 DEF t

\* A request that moves on stays in flight.
LEMMA UpdateRequest ==
    ASSUME NEW a, NEW s, AreRequests(s, a), NEW i \in DOMAIN s,
           NEW q, IsRequest(q), q.fresh => q.conv = a,
           IsBegun(s[i]) => /\ IsBegun(q)
                            /\ q.conv = s[i].conv /\ q.session = s[i].session
    PROVE  AreRequests([s EXCEPT ![i] = q], a) /\ Keeps(s, [s EXCEPT ![i] = q])
  <1>1. PICK S : s \in Seq(S)
    BY DEF AreRequests
  <1> DEFINE T == S \union {q}
             t == [s EXCEPT ![i] = q]
  <1>2. s \in Seq(T) /\ q \in T
    BY <1>1
  <1> HIDE DEF T
  <1>3. /\ t \in Seq(T) /\ DOMAIN t = DOMAIN s /\ t[i] = q
        /\ \A j \in DOMAIN s \ {i} : t[j] = s[j]
    BY <1>2, ExceptSeq
  <1> HIDE DEF t
  <1>4. \A j \in DOMAIN t : (j \in DOMAIN s /\ t[j] = s[j]) \/ t[j] = q
    BY <1>3
  <1>5. AreRequests(t, a)
    BY <1>3, <1>4 DEF AreRequests
  <1>6. Keeps(s, t)
    BY <1>3 DEF Keeps
  <1> QED
    BY <1>5, <1>6 DEF t

\* What is kept twice is kept.
LEMMA KeepsAgain ==
    ASSUME NEW s, NEW t, NEW u, Keeps(s, t), Keeps(t, u)
    PROVE  Keeps(s, u)
  <1> SUFFICES ASSUME NEW i \in DOMAIN s, IsBegun(s[i])
               PROVE  \E j \in DOMAIN u : /\ IsBegun(u[j]) /\ u[j].conv = s[i].conv
                                          /\ u[j].session = s[i].session
    BY DEF Keeps
  <1>1. PICK j \in DOMAIN t : /\ IsBegun(t[j]) /\ t[j].conv = s[i].conv
                              /\ t[j].session = s[i].session
    BY DEF Keeps
  <1> QED
    BY <1>1 DEF Keeps

\* Requests that change, one by one, without ceasing to have begun a run.
LEMMA MapRequests ==
    ASSUME NEW a, NEW b, NEW s, AreRequests(s, a), NEW t,
           t = [i \in DOMAIN s |-> t[i]],
           \A i \in DOMAIN s :
             /\ IsRequest(t[i])
             /\ t[i].fresh => t[i].conv = b
    PROVE  AreRequests(t, b)
  <1>1. PICK S : s \in Seq(S)
    BY DEF AreRequests
  <1>2. DOMAIN s = 1..Len(s) /\ Len(s) \in Nat
    BY <1>1
  <1> DEFINE T == {t[i] : i \in DOMAIN s}
  <1>3. t \in Seq(T)
    BY <1>2, IsASeq
  <1>4. DOMAIN t = DOMAIN s
    OBVIOUS
  <1> QED
    BY <1>3, <1>4 DEF AreRequests

(* The selection and what follows it. *)
IsConnection(s) == s = [phase |-> s.phase, queue |-> s.queue]

ClientInv ==
  /\ active \in Conversations
  /\ up \in BOOLEAN
  /\ AreRequests(requests, active)
  /\ DOMAIN stream = Conversations
  /\ \A c \in Conversations : IsConnection(stream[c])
  /\ StreamFollowsSelection

(* Whoever has begun a run still has, unless the process is down. *)
RequestsKept == up' => Keeps(requests, requests')

\* A request the client issues is one, and fresh (handleSelect, handleStop, ...).
LEMMA NewRequest ==
    ASSUME ClientInv, NEW kind, NEW c \in Conversations, NEW n
    PROVE  /\ IsRequest(Request(kind, c, n))
           /\ Request(kind, c, n).conv = c
  BY DEF ClientInv, IsRequest, Request

\* The elements of the requests in flight, and what they issue next.
LEMMA SomeRequest ==
    ASSUME ClientInv, NEW i \in DOMAIN requests
    PROVE  /\ IsRequest(requests[i])
           /\ requests[i].conv \in Conversations
           /\ requests[i].fresh => requests[i].conv = active
           /\ \A kind : /\ IsRequest(Next1(i, kind))
                        /\ Next1(i, kind).fresh => Next1(i, kind).conv = active
  <1>1. IsRequest(requests[i]) /\ (requests[i].fresh => requests[i].conv = active)
    BY DEF ClientInv, AreRequests
  <1>2. requests[i].conv \in Conversations /\ requests[i].fresh \in BOOLEAN
    BY <1>1 DEF IsRequest
  <1>3. ASSUME NEW kind
        PROVE  /\ IsRequest(Next1(i, kind))
               /\ Next1(i, kind).fresh => Next1(i, kind).conv = active
    <2> DEFINE r == Request(kind, requests[i].conv, requests[i].session)
    <2>1. /\ Next1(i, kind) = [r EXCEPT !.fresh = requests[i].fresh]
          /\ IsRequest(r) /\ r.conv = requests[i].conv
      BY <1>2, NewRequest DEF Next1
    <2> HIDE DEF r
    <2>2. Next1(i, kind) = [kind |-> r.kind, conv |-> r.conv, session |-> r.session,
                            fresh |-> requests[i].fresh, ok |-> r.ok,
                            answer |-> r.answer, got |-> r.got]
      BY <2>1 DEF IsRequest
    <2> QED
      BY <1>1, <1>2, <2>1, <2>2 DEF IsRequest
  <1> QED
    BY <1>1, <1>2, <1>3

\* What a request becomes when its ok is set.
LEMMA OkSet ==
    ASSUME NEW r, IsRequest(r), NEW o
    PROVE  [r EXCEPT !.ok = o] =
            [kind |-> r.kind, conv |-> r.conv, session |-> r.session, fresh |-> r.fresh,
             ok |-> o, answer |-> r.answer, got |-> r.got]
  BY DEF IsRequest

\* ... when its answer and what it has got are.
LEMMA AnswerSet ==
    ASSUME NEW r, IsRequest(r), NEW a, NEW g
    PROVE  [r EXCEPT !.answer = a, !.got = g] =
            [kind |-> r.kind, conv |-> r.conv, session |-> r.session, fresh |-> r.fresh,
             ok |-> r.ok, answer |-> a, got |-> g]
  <1> DEFINE q == [r EXCEPT !.answer = a]
  <1>1. q = [kind |-> r.kind, conv |-> r.conv, session |-> r.session, fresh |-> r.fresh,
             ok |-> r.ok, answer |-> a, got |-> r.got]
    BY DEF IsRequest
  <1>2. [r EXCEPT !.answer = a, !.got = g] = [q EXCEPT !.got = g]
    OBVIOUS
  <1> HIDE DEF q
  <1> QED
    BY <1>1, <1>2

\* ... when it is made stale.
LEMMA FreshSet ==
    ASSUME NEW r, IsRequest(r), NEW f
    PROVE  [r EXCEPT !.fresh = f] =
            [kind |-> r.kind, conv |-> r.conv, session |-> r.session, fresh |-> f,
             ok |-> r.ok, answer |-> r.answer, got |-> r.got]
  BY DEF IsRequest

\* ... and what it has got is dropped.
LEMMA FreshGotSet ==
    ASSUME NEW r, IsRequest(r), NEW f, NEW g
    PROVE  [r EXCEPT !.fresh = f, !.got = g] =
            [kind |-> r.kind, conv |-> r.conv, session |-> r.session, fresh |-> f,
             ok |-> r.ok, answer |-> r.answer, got |-> g]
  <1> DEFINE q == [r EXCEPT !.fresh = f]
  <1>1. q = [kind |-> r.kind, conv |-> r.conv, session |-> r.session, fresh |-> f,
             ok |-> r.ok, answer |-> r.answer, got |-> r.got]
    BY DEF IsRequest
  <1>2. [r EXCEPT !.fresh = f, !.got = g] = [q EXCEPT !.got = g]
    OBVIOUS
  <1> HIDE DEF q
  <1> QED
    BY <1>1, <1>2

\* The handlers of the server move requests on (requestJson, api.py).
LEMMA HandledRequests ==
    ASSUME ClientInv, NEW i \in DOMAIN requests, Handled(i) \/ LoseRequest(i) \/ LoseActivities(i)
    PROVE  /\ AreRequests(requests', active)
           /\ ~PostStarts(i) => Keeps(requests, requests')
  <1> DEFINE r == requests[i]
  <1>1. IsRequest(r) /\ (r.fresh => r.conv = active)
    BY SomeRequest
  <1>2. AreRequests(requests, active)
    BY DEF ClientInv
  <1>3. ASSUME NEW q, requests' = [requests EXCEPT ![i] = q],
               q = [kind |-> r.kind, conv |-> r.conv, session |-> q.session, fresh |-> r.fresh,
                    ok |-> q.ok, answer |-> q.answer, got |-> q.got],
               q.ok \in BOOLEAN,
               ~PostStarts(i) /\ IsBegun(r) =>
                 q.ok = r.ok /\ q.answer = r.answer /\ q.session = r.session
        PROVE  /\ AreRequests(requests', active)
               /\ ~PostStarts(i) => Keeps(requests, requests')
    <2>0. /\ q.kind = r.kind /\ q.conv = r.conv /\ q.fresh = r.fresh
      BY <1>3
    <2>1. IsRequest(q) /\ (q.fresh => q.conv = active)
      BY <1>1, <1>3, <2>0 DEF IsRequest
    <2>2. CASE ~PostStarts(i)
      BY <1>2, <1>3, <2>0, <2>1, <2>2, UpdateRequest DEF IsBegun
    <2>3. CASE PostStarts(i)
      <3>1. PICK S : requests \in Seq(S)
        BY <1>2 DEF AreRequests
      <3>2. requests' \in Seq(S \union {q})
        BY <1>3, <3>1
      <3>3. \A j \in DOMAIN requests' : requests'[j] = q \/ (j \in DOMAIN requests /\ requests'[j] = requests[j])
        BY <1>3
      <3> QED
        BY <1>2, <2>1, <2>3, <3>2, <3>3 DEF AreRequests
    <2> QED
      BY <2>2, <2>3
  <1>4. CASE LoseRequest(i)
    <2>1. r.answer # "begun" /\ requests' = [requests EXCEPT ![i] = [r EXCEPT !.ok = FALSE]]
      BY <1>4 DEF LoseRequest
    <2> DEFINE q == [r EXCEPT !.ok = FALSE]
    <2>2. q = [kind |-> r.kind, conv |-> r.conv, session |-> r.session, fresh |-> r.fresh,
               ok |-> FALSE, answer |-> r.answer, got |-> r.got]
      BY <1>1, OkSet
    <2>3. ~IsBegun(r)
      BY <2>1 DEF IsBegun
    <2> HIDE DEF q
    <2> QED
      BY <1>3, <2>1, <2>2, <2>3 DEF q
  <1>5. CASE LoseActivities(i) \/ \E part \in Parts[r.kind] : Serve(i, part)
    <2>1. PICK p, v : requests' = [requests EXCEPT ![i] = Fetched(r, p, v)]
      BY <1>5 DEF LoseActivities, Serve
    <2>2. PICK got : requests' = [requests EXCEPT ![i] = [r EXCEPT !.got = got]]
      BY <2>1 DEF Fetched
    <2> DEFINE q == [r EXCEPT !.got = got]
    <2>3. q = [kind |-> r.kind, conv |-> r.conv, session |-> r.session, fresh |-> r.fresh,
               ok |-> r.ok, answer |-> r.answer, got |-> got]
      BY <1>1 DEF IsRequest
    <2>4. r.ok \in BOOLEAN /\ requests' = [requests EXCEPT ![i] = q]
      BY <1>1, <2>2 DEF IsRequest
    <2> HIDE DEF q
    <2> QED
      BY <1>3, <2>3, <2>4
  <1>6. CASE PostBegins(i)
    <2>1. /\ r.answer = "none"
          /\ \E n : \/ requests' = [requests EXCEPT ![i] = [r EXCEPT !.answer = "begun", !.session = n]]
                   \/ requests' = [requests EXCEPT ![i] = [r EXCEPT !.answer = "refused"]]
      BY <1>6 DEF PostBegins, Answered
    <2> QED
      BY <1>1, <1>3, <2>1 DEF IsRequest, IsBegun
  <1>7. CASE PostStarts(i)
    <2>1. \E a : requests' = [requests EXCEPT ![i] = [r EXCEPT !.answer = a]]
      BY <1>7 DEF PostStarts, Answered
    <2> QED
      BY <1>1, <1>3, <1>7, <2>1 DEF IsRequest
  <1>8. CASE StopRead(i) \/ StopServed(i)
    <2>1. r.kind = "stop"
      BY <1>8 DEF StopRead, StopServed
    <2>2. \E a, got : requests' = [requests EXCEPT ![i] =
            [kind |-> r.kind, conv |-> r.conv, session |-> r.session, fresh |-> r.fresh,
             ok |-> r.ok, answer |-> a, got |-> got]]
      <3>1. CASE \E a : requests' = [requests EXCEPT ![i].answer = a]
        <4>1. PICK a : requests' = [requests EXCEPT ![i] = [r EXCEPT !.answer = a]]
          BY <3>1
        <4>2. [r EXCEPT !.answer = a] =
                [kind |-> r.kind, conv |-> r.conv, session |-> r.session, fresh |-> r.fresh,
                 ok |-> r.ok, answer |-> a, got |-> r.got]
          BY <1>1 DEF IsRequest
        <4> QED
          BY <4>1, <4>2
      <3>2. CASE \E got : requests' = [requests EXCEPT ![i].answer = "begun", ![i].got = got]
        <4>1. PICK got :
                requests' = [requests EXCEPT ![i] = [r EXCEPT !.answer = "begun", !.got = got]]
          BY <3>2
        <4>2. [r EXCEPT !.answer = "begun", !.got = got] =
                [kind |-> r.kind, conv |-> r.conv, session |-> r.session, fresh |-> r.fresh,
                 ok |-> r.ok, answer |-> "begun", got |-> got]
          BY <1>1, AnswerSet
        <4> QED
          BY <4>1, <4>2
      <3> QED
        BY <1>8, <3>1, <3>2 DEF StopRead, StopServed, Answered
    <2> QED
      BY <1>1, <1>3, <2>1, <2>2 DEF IsRequest, IsBegun
  <1>9. CASE DecisionServed(i)
    <2>1. r.kind = "decide" /\ requests' = RemoveAt(requests, i)
      BY <1>9 DEF DecisionServed, Without
    <2> QED
      BY <1>2, <2>1, RemoveRequest DEF IsBegun
  <1> QED
    BY <1>4, <1>5, <1>6, <1>7, <1>8, <1>9 DEF Handled

\* A continuation ends its request, and may issue the next (App.tsx).
LEMMA ContinuedRequests ==
    ASSUME ClientInv, NEW i \in DOMAIN requests, Continued(i)
    PROVE  AreRequests(requests', active) /\ Keeps(requests, requests')
  <1> DEFINE s == RemoveAt(requests, i)
  <1>1. ~IsBegun(requests[i])
    BY DEF Continued, RestoreDone, RestoreFailed, ActivitiesRefreshed, StateFetched,
           TerminalReloaded, PostAnswered, StopAnswered, ReloadedAfterPost,
           DecisionFailed, IsBegun
  <1>2. \/ requests' = s
        \/ \E kind : requests' = Append(s, Next1(i, kind))
    BY DEF Continued, RestoreDone, RestoreFailed, ActivitiesRefreshed, StateFetched,
           TerminalReloaded, PostAnswered, StopAnswered, ReloadedAfterPost,
           DecisionFailed, Without
  <1>3. AreRequests(s, active) /\ Keeps(requests, s)
    BY <1>1, RemoveRequest DEF ClientInv
  <1> HIDE DEF s
  <1>4. ASSUME NEW kind
        PROVE  AreRequests(Append(s, Next1(i, kind)), active) /\ Keeps(s, Append(s, Next1(i, kind)))
    BY <1>3, SomeRequest, AppendRequest
  <1> QED
    BY <1>2, <1>3, <1>4, KeepsAgain

\* The other steps issue a request, or none.
LEMMA IssuedRequests ==
    ASSUME ClientInv,
           \/ UNCHANGED requests
           \/ \E kind, n : requests' = Append(requests, Request(kind, active, n))
    PROVE  AreRequests(requests', active) /\ Keeps(requests, requests')
  <1>1. CASE UNCHANGED requests
    BY <1>1 DEF ClientInv, Keeps
  <1>2. ASSUME NEW kind, NEW n, requests' = Append(requests, Request(kind, active, n))
        PROVE  AreRequests(requests', active) /\ Keeps(requests, requests')
    <2>1. /\ IsRequest(Request(kind, active, n))
          /\ Request(kind, active, n).conv = active
          /\ AreRequests(requests, active)
      BY NewRequest DEF ClientInv
    <2> QED
      BY <1>2, <2>1, AppendRequest
  <1> QED
    BY <1>1, <1>2

\* The connection that speaks is that of the conversation selected.
LEMMA SpeakingIsActive ==
    ASSUME ClientInv, NEW c \in Conversations, stream[c].phase # "closed"
    PROVE  c = active
  BY DEF ClientInv, StreamFollowsSelection

\* What the connection brings keeps the requests in flight requests (connectStream).
LEMMA StreamingRequests ==
    ASSUME ClientInv, NEW c \in Conversations, Streaming(c)
    PROVE  AreRequests(requests', active) /\ Keeps(requests, requests')
  <1>1. CASE Subscribe(c)
    BY <1>1, IssuedRequests DEF Subscribe
  <1>2. CASE Deliver(c)
    <2> DEFINE next == Followup(Head(stream[c].queue).type)
    <2>1. c = active
      BY <1>2, SpeakingIsActive DEF Deliver
    <2>2. requests' = requests \o [k \in DOMAIN next |-> Request(next[k], c, 0)]
      BY <1>2 DEF Deliver
    <2>3. next = <<>> \/ \E kind : next = <<kind>>
      BY DEF Followup
    <2> HIDE DEF next
    <2>4. PICK S : requests \in Seq(S)
      BY DEF ClientInv, AreRequests
    <2>5. CASE next = <<>>
      <3>1. [k \in DOMAIN next |-> Request(next[k], c, 0)] = <<>>
        BY <2>5
      <3> QED
        BY <2>2, <2>4, <3>1, ConcatEmptySeq, IssuedRequests
    <2>6. ASSUME NEW kind, next = <<kind>>
          PROVE  requests' = Append(requests, Request(kind, c, 0))
      <3> DEFINE q == Request(kind, c, 0)
      <3>1. [k \in DOMAIN next |-> Request(next[k], c, 0)] = <<q>>
        BY <2>6
      <3> HIDE DEF q
      <3>2. requests \in Seq(S \union {q}) /\ q \in S \union {q}
        BY <2>4
      <3>3. Append(requests, q) = requests \o <<q>>
        BY <3>2, AppendIsConcat
      <3> QED
        BY <2>2, <3>1, <3>3 DEF q
    <2> QED
      BY <2>1, <2>3, <2>5, <2>6, IssuedRequests
  <1>3. CASE StreamError(c)
    <2>1. c = active
      BY <1>3, SpeakingIsActive DEF StreamError
    <2> QED
      BY <1>3, <2>1, IssuedRequests DEF StreamError
  <1> QED
    BY <1>1, <1>2, <1>3 DEF Streaming

\* The epoch makes what was fresh stale, and nothing else (handleSelect).
LEMMA SelectRequests ==
    ASSUME ClientInv, NEW c \in Conversations, Select(c)
    PROVE  AreRequests(requests', c) /\ Keeps(requests, requests')
  <1> DEFINE s == [i \in DOMAIN requests |-> Stale(requests[i])]
  <1>1. ASSUME NEW i \in DOMAIN requests
        PROVE  /\ IsRequest(s[i]) /\ s[i].fresh = FALSE
               /\ s[i].kind = requests[i].kind /\ s[i].conv = requests[i].conv
               /\ s[i].session = requests[i].session /\ s[i].ok = requests[i].ok
               /\ s[i].answer = requests[i].answer
    <2> DEFINE r == requests[i]
    <2>1. IsRequest(r)
      BY SomeRequest
    <2>2. \E got : Stale(r) = [kind |-> r.kind, conv |-> r.conv, session |-> r.session,
                               fresh |-> FALSE, ok |-> r.ok, answer |-> r.answer, got |-> got]
      <3>1. [r EXCEPT !.fresh = FALSE] =
              [kind |-> r.kind, conv |-> r.conv, session |-> r.session,
               fresh |-> FALSE, ok |-> r.ok, answer |-> r.answer, got |-> r.got]
        BY <2>1, FreshSet
      <3>2. [r EXCEPT !.fresh = FALSE, !.got = <<>>] =
              [kind |-> r.kind, conv |-> r.conv, session |-> r.session,
               fresh |-> FALSE, ok |-> r.ok, answer |-> r.answer, got |-> <<>>]
        BY <2>1, FreshGotSet
      <3> QED
        BY <3>1, <3>2 DEF Stale
    <2>3. PICK got : s[i] = [kind |-> r.kind, conv |-> r.conv, session |-> r.session,
                             fresh |-> FALSE, ok |-> r.ok, answer |-> r.answer, got |-> got]
      BY <2>2
    <2>4. r.conv \in Conversations /\ r.ok \in BOOLEAN
      BY <2>1 DEF IsRequest
    <2> HIDE DEF s, r
    <2>5. /\ s[i].kind = r.kind /\ s[i].conv = r.conv /\ s[i].session = r.session
          /\ s[i].fresh = FALSE /\ s[i].ok = r.ok /\ s[i].answer = r.answer
          /\ s[i].got = got
      BY <2>3
    <2>6. IsRequest(s[i])
      BY <2>3, <2>4, <2>5 DEF IsRequest
    <2> QED
      BY <2>5, <2>6 DEF r
  <1>2. AreRequests(requests, active)
    BY DEF ClientInv
  <1>3. s = [i \in DOMAIN requests |-> s[i]]
    OBVIOUS
  <1> HIDE DEF s
  <1>4. AreRequests(s, c)
    BY <1>1, <1>2, <1>3, MapRequests
  <1>5. Keeps(requests, s)
    BY <1>1, <1>3 DEF Keeps, IsBegun
  <1>6. requests' = Append(s, Request("restore", c, 0))
    BY DEF Select, s
  <1>7. /\ IsRequest(Request("restore", c, 0))
        /\ Request("restore", c, 0).conv = c
    BY NewRequest
  <1>8. AreRequests(requests', c) /\ Keeps(s, requests')
    BY <1>4, <1>6, <1>7, AppendRequest
  <1> QED
    BY <1>5, <1>8, KeepsAgain

-----------------------------------------------------------------------------
(* The connection. *)

(* At most that of conversation a is not closed. *)
IsStreamOf(s, a) ==
  /\ DOMAIN s = Conversations
  /\ \A c \in Conversations :
       IsConnection(s[c]) /\ (s[c].phase # "closed" => c = a)

\* The four connections the client and the server make are connections.
LEMMA Connections ==
  /\ IsConnection(Closed) /\ Closed.phase = "closed"
  /\ IsConnection(Connecting) /\ IsConnection(Subscribed) /\ IsConnection(Broken)
  BY DEF IsConnection, Closed, Connecting, Subscribed, Broken

\* In the terms of the lemmas below.
LEMMA StreamIsOfActive == ClientInv => IsStreamOf(stream, active)
  BY DEF ClientInv, StreamFollowsSelection, IsStreamOf

\* A connection replaced where there is one is still the only one.
LEMMA ReplacedConnection ==
    ASSUME NEW a, NEW s, IsStreamOf(s, a), NEW c \in Conversations, s[c].phase # "closed",
           NEW x, IsConnection(x)
    PROVE  IsStreamOf([s EXCEPT ![c] = x], a)
  BY DEF IsStreamOf

\* What is published reaches the queue of the connection (chat/events.py).
LEMMA PublishedStream ==
    ASSUME ClientInv, NEW c \in Conversations, NEW events
    PROVE  IsStreamOf(Published(c, events), active)
  <1>1. CASE stream[c].phase = "open"
    <2> DEFINE q == Newest(stream[c].queue \o events)
    <2>1. Published(c, events) = [stream EXCEPT ![c] = [stream[c] EXCEPT !.queue = q]]
      BY <1>1 DEF Published
    <2>2. IsConnection(stream[c])
      BY DEF ClientInv
    <2> HIDE DEF q
    <2>3. [stream[c] EXCEPT !.queue = q] = [phase |-> stream[c].phase, queue |-> q]
      BY <2>2 DEF IsConnection
    <2>4. IsConnection([stream[c] EXCEPT !.queue = q])
      BY <2>3 DEF IsConnection
    <2> DEFINE x == [stream[c] EXCEPT !.queue = q]
    <2>5. IsConnection(x) /\ stream[c].phase # "closed"
      BY <1>1, <2>4
    <2>6. Published(c, events) = [stream EXCEPT ![c] = x]
      BY <2>1
    <2> HIDE DEF x
    <2>7. IsStreamOf([stream EXCEPT ![c] = x], active)
      BY <2>5, StreamIsOfActive, ReplacedConnection
    <2> QED
      BY <2>6, <2>7
  <1>2. CASE stream[c].phase # "open"
    BY <1>2, StreamIsOfActive DEF Published
  <1> QED
    BY <1>1, <1>2

\* The task of a conversation publishes, or leaves the connections alone.
LEMMA TaskStream ==
    ASSUME ClientInv, NEW c \in Conversations, TaskStep(c)
    PROVE  IsStreamOf(stream', active)
  <1>1. stream' = stream \/ \E events : stream' = Published(c, events)
    BY DEF TaskStep, StartTurn, RequestTool, FinishTool, AwaitApproval, CreateApproval,
           FinishDecision, CompleteRun, FailRun, Publish, EndTask, Write
  <1> QED
    BY <1>1, StreamIsOfActive, PublishedStream

\* The handlers of the server leave the connection to its conversation (api.py).
LEMMA HandledStream ==
    ASSUME ClientInv, NEW i \in DOMAIN requests, Handled(i)
    PROVE  IsStreamOf(stream', active)
  <1>1. CASE StopServed(i)
    <2>1. requests[i].conv \in Conversations
      BY SomeRequest
    <2>2. CancelTask(requests[i].conv)
      BY <1>1 DEF StopServed, InterruptRun, InterruptOther, InterruptFails
    <2>3. stream' = stream \/ \E events : stream' = Published(requests[i].conv, events)
      BY <2>2 DEF CancelTask
    <2> QED
      BY <2>1, <2>3, StreamIsOfActive, PublishedStream
  <1>2. CASE ~StopServed(i)
    <2>1. stream' = stream
      BY <1>2 DEF Handled, Serve, PostBegins, PostStarts, StopRead, DecisionServed,
                  BeginRun, BeginRefused, StartTask, StartRefused, InterruptAccepted,
                  InterruptRefused, DecideApproval, DecideRefused, serverVars
    <2> QED
      BY <2>1, StreamIsOfActive
  <1> QED
    BY <1>1, <1>2

\* Only a restoration that is still wanted connects (restoreConversationHttp).
LEMMA ContinuedStream ==
    ASSUME ClientInv, NEW i \in DOMAIN requests, Continued(i)
    PROVE  IsStreamOf(stream', active)
  <1>1. \/ stream' = stream
        \/ requests[i].fresh /\ Connect(requests[i].conv)
    BY DEF Continued, RestoreDone, RestoreFailed, ActivitiesRefreshed, StateFetched,
           TerminalReloaded, PostAnswered, StopAnswered, ReloadedAfterPost,
           DecisionFailed, serverVars
  <1>2. CASE requests[i].fresh /\ Connect(requests[i].conv)
    <2>1. Connect(active)
      BY <1>2, SomeRequest
    <2>2. \/ stream' = stream
          \/ stream' = [d \in Conversations |-> IF d = active THEN Connecting ELSE Closed]
      BY <2>1 DEF Connect
    <2> QED
      BY <2>2, StreamIsOfActive, Connections DEF IsStreamOf
  <1> QED
    BY <1>1, <1>2, StreamIsOfActive

\* So do the connection's own events, and its reconnection (events.ts).
LEMMA StreamingStream ==
    ASSUME ClientInv, NEW c \in Conversations, Streaming(c)
    PROVE  IsStreamOf(stream', active)
  <1>1. CASE Subscribe(c)
    BY <1>1, StreamIsOfActive, ReplacedConnection, Connections DEF Subscribe
  <1>2. CASE Deliver(c)
    <2> DEFINE q == Tail(stream[c].queue)
    <2>1. /\ stream' = [stream EXCEPT ![c] = [stream[c] EXCEPT !.queue = q]]
          /\ stream[c].phase # "closed"
      BY <1>2 DEF Deliver
    <2>2. IsConnection(stream[c])
      BY DEF ClientInv
    <2> HIDE DEF q
    <2>3. [stream[c] EXCEPT !.queue = q] = [phase |-> stream[c].phase, queue |-> q]
      BY <2>2 DEF IsConnection
    <2>4. IsConnection([stream[c] EXCEPT !.queue = q])
      BY <2>3 DEF IsConnection
    <2> QED
      BY <2>1, <2>4, StreamIsOfActive, ReplacedConnection
  <1>3. CASE StreamError(c)
    <2>1. \/ stream' = [d \in Conversations |-> Closed]
          \/ stream' = [stream EXCEPT ![c] = Connecting] /\ stream[c].phase # "closed"
      BY <1>3 DEF StreamError, CloseStream
    <2> QED
      BY <2>1, StreamIsOfActive, ReplacedConnection, Connections DEF IsStreamOf
  <1> QED
    BY <1>1, <1>2, <1>3 DEF Streaming

\* The requests, the connection, the conversation selected: the initial states.
LEMMA ClientStart == Init => ClientInv
  <1> SUFFICES ASSUME Init
               PROVE  ClientInv
    OBVIOUS
  <1> DEFINE r == Request("restore", active, 0)
  <1>1. /\ active \in Conversations /\ up = TRUE /\ requests = <<r>>
        /\ stream = [c \in Conversations |-> Closed]
    BY DEF Init, ClientInit, ServerInit
  <1>2. IsRequest(r) /\ r.conv = active
    BY <1>1 DEF Request, IsRequest
  <1> HIDE DEF r
  <1>3. AreRequests(requests, active)
    <2>1. requests \in Seq({r}) /\ DOMAIN requests = {1} /\ requests[1] = r
      BY <1>1
    <2> QED
      BY <1>2, <2>1 DEF AreRequests
  <1>4. IsStreamOf(stream, active)
    BY <1>1, Connections DEF IsStreamOf
  <1> QED
    BY <1>1, <1>3, <1>4 DEF ClientInv, IsStreamOf, StreamFollowsSelection

\* The next conversation selected, its requests and its connection.
LEMMA ClientStep ==
    ASSUME ClientInv, [Next]_vars
    PROVE  /\ AreRequests(requests', active')
           /\ IsStreamOf(stream', active')
           /\ active' \in Conversations
           /\ up' \in BOOLEAN
           /\ \/ ~up'
              \/ Keeps(requests, requests')
              \/ \E i \in DOMAIN requests : PostStarts(i)
  <1>1. AreRequests(requests, active) /\ IsStreamOf(stream, active) /\ active \in Conversations
    BY StreamIsOfActive DEF ClientInv
  <1>2. Keeps(requests, requests)
    BY DEF Keeps
  <1>3. ASSUME NEW c \in Conversations, RunTask(c)
        PROVE  /\ UNCHANGED <<requests, active, up>> /\ IsStreamOf(stream', active)
    <2>1. UNCHANGED <<requests, active, up>>
      BY <1>3 DEF RunTask, TaskStep, StartTurn, RequestTool, FinishTool, AwaitApproval,
                  CreateApproval, FinishDecision, CompleteRun, FailRun, Publish, EndTask, Write
    <2> QED
      BY <1>3, <2>1, TaskStream DEF RunTask
  <1>4. ASSUME NEW c \in Conversations, Streaming(c)
        PROVE  /\ UNCHANGED <<active, up>> /\ IsStreamOf(stream', active)
               /\ AreRequests(requests', active) /\ Keeps(requests, requests')
    <2>1. UNCHANGED <<active, up>>
      BY <1>4 DEF Streaming, Subscribe, Deliver, StreamError
    <2> QED
      BY <1>4, <2>1, StreamingStream, StreamingRequests
  <1>5. ASSUME NEW i \in DOMAIN requests, Handled(i)
        PROVE  /\ active' = active /\ up' = up /\ IsStreamOf(stream', active)
               /\ AreRequests(requests', active)
               /\ PostStarts(i) \/ Keeps(requests, requests')
    <2>1. active' = active
      BY <1>5 DEF Handled, Serve, PostBegins, PostStarts, StopRead, StopServed, DecisionServed
    <2>2. up' = up
      BY <1>5 DEF Handled, Serve, PostBegins, PostStarts, StopRead, StopServed, DecisionServed,
                  BeginRun, BeginRefused, StartTask, StartRefused, InterruptAccepted,
                  InterruptRefused, InterruptRun, InterruptOther, InterruptFails, CancelTask,
                  DecideApproval, DecideRefused, serverVars
    <2> QED
      BY <1>5, <2>1, <2>2, HandledStream, HandledRequests
  <1>6. ASSUME NEW i \in DOMAIN requests, Continued(i)
        PROVE  /\ UNCHANGED <<active, up>> /\ IsStreamOf(stream', active)
               /\ AreRequests(requests', active) /\ Keeps(requests, requests')
    <2>1. UNCHANGED <<active, up>>
      BY <1>6 DEF Continued, RestoreDone, RestoreFailed, ActivitiesRefreshed, StateFetched,
                  TerminalReloaded, PostAnswered, StopAnswered, ReloadedAfterPost,
                  DecisionFailed, serverVars
    <2> QED
      BY <1>6, <2>1, ContinuedStream, ContinuedRequests
  <1>7. CASE ServerRestart
    BY <1>1, <1>2, <1>7 DEF ServerRestart, Restart
  <1>8. ASSUME NEW c \in Selectable, Select(c)
        PROVE  /\ active' = c /\ c \in Conversations /\ up' = up /\ IsStreamOf(stream', c)
               /\ AreRequests(requests', c) /\ Keeps(requests, requests')
    <2>1. c \in Conversations /\ active' = c /\ up' = up
      BY <1>8, ClientAssumption DEF Select
    <2>2. IsStreamOf(stream', c)
      BY <1>8, Connections DEF Select, CloseStream, IsStreamOf
    <2> QED
      BY <1>8, <2>1, <2>2, SelectRequests
  <1>9. CASE Submit \/ Stop \/ Decide \/ ToggleGroup \/ RetryActivities
    <2>1. UNCHANGED <<active, up, stream>>
      BY <1>9 DEF Submit, Stop, Decide, ToggleGroup, RetryActivities, Issue, serverVars
    <2>2. \/ UNCHANGED requests
          \/ \E kind, n : requests' = Append(requests, Request(kind, active, n))
      BY <1>9 DEF Submit, Stop, Decide, ToggleGroup, RetryActivities, Issue
    <2> QED
      BY <1>1, <2>1, <2>2, IssuedRequests DEF ClientInv
  <1>10. ASSUME NEW i \in DOMAIN requests, LoseRequest(i) \/ LoseActivities(i)
         PROVE  /\ UNCHANGED <<active, up, stream>>
                /\ AreRequests(requests', active)
                /\ PostStarts(i) \/ Keeps(requests, requests')
    <2>1. UNCHANGED <<active, up, stream>>
      BY <1>10 DEF LoseRequest, LoseActivities, serverVars
    <2> QED
      BY <1>10, <2>1, HandledRequests
  <1>11. ASSUME NEW c \in Conversations, LoseConnection(c)
         PROVE  /\ UNCHANGED <<active, up, requests>> /\ IsStreamOf(stream', active)
    <2>1. /\ UNCHANGED <<active, up, requests>>
          /\ stream[c].phase # "closed" /\ stream' = [stream EXCEPT ![c] = Broken]
      BY <1>11 DEF LoseConnection
    <2> QED
      BY <1>1, <2>1, ReplacedConnection, Connections
  <1>12. CASE ServerCrash
    <2>1. /\ active' = active /\ up' = FALSE
          /\ requests' = [i \in DOMAIN requests |->
                            [requests[i] EXCEPT !.ok = IsAnswered(requests[i])]]
          /\ stream' = [c \in Conversations |->
                          IF stream[c].phase = "closed" THEN Closed ELSE Broken]
      BY <1>12 DEF ServerCrash, Crash
    <2>2. IsStreamOf(stream', active)
      BY <1>1, <2>1, Connections DEF IsStreamOf
    <2>3. ASSUME NEW i \in DOMAIN requests
          PROVE  IsRequest(requests'[i]) /\ (requests'[i].fresh => requests'[i].conv = active)
      <3> DEFINE r == requests[i]
                 answered == IsAnswered(r)
      <3>1. IsRequest(r) /\ (r.fresh => r.conv = active)
        BY SomeRequest
      <3>2. answered \in BOOLEAN
        BY DEF IsAnswered
      <3>3. requests'[i] = [r EXCEPT !.ok = answered]
        BY <2>1
      <3> HIDE DEF answered
      <3>4. requests'[i] = [kind |-> r.kind, conv |-> r.conv, session |-> r.session,
                            fresh |-> r.fresh, ok |-> answered, answer |-> r.answer, got |-> r.got]
        BY <3>1, <3>3, OkSet
      <3> QED
        BY <3>1, <3>2, <3>4 DEF IsRequest
    <2>4. requests' = [i \in DOMAIN requests |-> requests'[i]]
      BY <2>1
    <2>5. AreRequests(requests', active)
      BY <1>1, <2>3, <2>4, MapRequests
    <2> QED
      BY <1>1, <2>1, <2>2, <2>5
  <1>13. CASE UNCHANGED vars
    BY <1>1, <1>2, <1>13 DEF vars, ClientInv
  <1>14. ASSUME NEW c \in Conversations, LateWrite(c)
         PROVE  UNCHANGED <<active, up, requests, stream>>
    BY <1>14 DEF LateWrite, LandLate
  <1> QED
    BY <1>1, <1>2, <1>3, <1>4, <1>5, <1>6, <1>7, <1>8, <1>9, <1>10, <1>11, <1>12, <1>13, <1>14
    DEF Next, User, Fault, ClientInv

\* The requests, the connection and the conversation selected stay consistent.
LEMMA ClientInvStep == ClientInv /\ [Next]_vars => ClientInv'
  <1> SUFFICES ASSUME ClientInv, [Next]_vars
               PROVE  ClientInv'
    OBVIOUS
  <1>1. /\ AreRequests(requests', active') /\ IsStreamOf(stream', active')
        /\ active' \in Conversations /\ up' \in BOOLEAN
    BY ClientStep
  <1> QED
    BY <1>1 DEF ClientInv, IsStreamOf, StreamFollowsSelection, AreRequests

\* However late an answer comes, the one event source is that of the conversation
\* selected (selectionEpochRef, restoreConversationHttp, connectStream).
THEOREM SourceFollowsSelection == Spec => []StreamFollowsSelection
  <1>1. ClientInv => StreamFollowsSelection
    BY DEF ClientInv
  <1> QED
    BY ClientStart, ClientInvStep, <1>1, PTL DEF Spec

-----------------------------------------------------------------------------
(* The runs and their owners. *)

RunsOK == runs \in [Conversations -> Seq(Run)]

TasksOK ==
  /\ DOMAIN task = Conversations
  /\ \A c \in Conversations : task[c] = [run |-> task[c].run, out |-> task[c].out]

ServerInv ==
  /\ RunsOK
  /\ TasksOK
  /\ OneActiveRun
  /\ OwnedRun

HasOwner(c, n) ==
  \/ task[c].run = n
  \/ ~up
  \/ \E i \in DOMAIN requests :
       IsBegun(requests[i]) /\ requests[i].conv = c /\ requests[i].session = n

\* The property in the terms of an owner.
LEMMA OwnedRunIs ==
  OwnedRun <=> (~orphaned => \A c \in Conversations : \A n \in ActiveRuns(c) : HasOwner(c, n))
  BY DEF OwnedRun, HasOwner, IsBegun

\* Whatever a task, or a call that lands after it, makes of a run: the run was
\* active before (_RUN_TRANSITIONS).
LEMMA RunSteps ==
    ASSUME NEW c \in Conversations, NEW x \in Run,
           NEW r \in Started(x) \union ToolCalled(c, x) \union ToolEnded(c, x) \union Asking(c, x)
                      \union Asked(x) \union Resumed(x) \union Completed(x) \union Failed(x)
    PROVE  r \in Run /\ IsActive(x)
  <1> USE DEF If, WithStatus, Run, RunStatuses, ActiveStatuses, TerminalStatuses,
              ActivityStatuses, TerminalActivityStatuses, ApprovalStatuses, IsActive
  <1>1. CASE r \in Started(x) \union Asking(c, x) \union Resumed(x) \union Completed(x) \union Failed(x)
    BY <1>1 DEF Started, Asking, Resumed, Completed, Failed, IsDecided
  <1>2. CASE r \in ToolCalled(c, x)
    BY <1>2 DEF ToolCalled
  <1>3. CASE r \in ToolEnded(c, x)
    <2>1. ToolOutcomes[c] \subseteq {"completed", "failed"}
      BY ServerAssumption
    <2> QED
      BY <1>3, <2>1 DEF ToolEnded
  <1>4. CASE r \in Asked(x)
    BY <1>4 DEF Asked
  <1> QED
    BY <1>1, <1>2, <1>3, <1>4

\* A write that lands late is one of the task's, but for an upsert, which does not
\* look at the run (upsert_tool_activity).
LEMMA LateSteps ==
    ASSUME NEW x \in Run, NEW r \in LateLanded(x)
    PROVE  r \in Run /\ (IsActive(r) => IsActive(x))
  <1> USE DEF If, WithStatus, Run, RunStatuses, ActiveStatuses, TerminalStatuses,
              ActivityStatuses, TerminalActivityStatuses, ApprovalStatuses, IsActive
  <1> DEFINE landed == [x EXCEPT !.late = "none"]
  <1>1. landed \in Run /\ landed.status = x.status
    OBVIOUS
  <1>2. CASE r \in Started(landed) \union Failed(landed)
    <2> HIDE DEF landed
    <2> QED
      BY <1>1, <1>2 DEF Started, Failed
  <1>3. CASE x.late \in ActivityStatuses /\ r = [landed EXCEPT !.activity = x.late]
    BY <1>3
  <1> QED
    BY <1>2, <1>3 DEF LateLanded

\* A run that is interrupted, or had ended, is not active (_safe_interrupt_run).
LEMMA InterruptedEnds ==
    ASSUME NEW x \in Run
    PROVE  /\ Interrupted(x) \in Run /\ ~IsActive(Interrupted(x))
           /\ \A a : Settled(x, a) \in Run /\ ~IsActive(Settled(x, a))
  <1> USE DEF Run, RunStatuses, ActiveStatuses, TerminalStatuses,
              ActivityStatuses, TerminalActivityStatuses, ApprovalStatuses, IsActive
  <1>1. ASSUME NEW y \in Run
        PROVE  Interrupted(y) \in Run /\ ~IsActive(Interrupted(y))
    <2>1. CASE y.status \in TerminalStatuses
      BY <2>1 DEF Interrupted
    <2>2. CASE y.status \notin TerminalStatuses
      <3>1. Interrupted(y) = [status |-> "interrupted", activity |-> y.activity,
                              approval |-> y.approval, late |-> "none"]
        BY <2>2 DEF Interrupted
      <3> QED
        BY <3>1
    <2> QED
      BY <2>1, <2>2
  <1>2. [x EXCEPT !.approval = "invalidated"] \in Run
    OBVIOUS
  <1> QED
    BY <1>1, <1>2 DEF Settled

\* One run changes, and is not revived: no run becomes active.
LEMMA RunChanged ==
    ASSUME RunsOK, NEW c \in Conversations, NEW n, NEW r,
           runs' = [runs EXCEPT ![c][n] = r],
           n \in DOMAIN runs[c] => r \in Run /\ (IsActive(r) => IsActive(runs[c][n]))
    PROVE  /\ RunsOK'
           /\ \A d \in Conversations :
                Len(runs'[d]) = Len(runs[d]) /\ ActiveRuns(d)' \subseteq ActiveRuns(d)
           /\ n \in ActiveRuns(c)' => IsActive(r)
  <1> DEFINE s == [runs[c] EXCEPT ![n] = r]
  <1>1. /\ runs[c] \in Seq(Run)
        /\ runs' = [runs EXCEPT ![c] = s]
    BY DEF RunsOK
  <1>2. /\ s \in Seq(Run) /\ Len(s) = Len(runs[c]) /\ DOMAIN s = DOMAIN runs[c]
        /\ \A m \in DOMAIN s : s[m] = IF m = n THEN r ELSE runs[c][m]
    <2>1. CASE n \in DOMAIN runs[c]
      BY <1>1, <2>1, ExceptSeq
    <2>2. CASE n \notin DOMAIN runs[c]
      <3>1. s = runs[c]
        BY <1>1, <2>2
      <3> QED
        BY <1>1, <2>2, <3>1
    <2> QED
      BY <2>1, <2>2
  <1> HIDE DEF s
  <1>3. RunsOK' /\ runs'[c] = s /\ \A d \in Conversations \ {c} : runs'[d] = runs[d]
    BY <1>1, <1>2 DEF RunsOK
  <1>4. \A d \in Conversations \ {c} :
          Len(runs'[d]) = Len(runs[d]) /\ ActiveRuns(d)' \subseteq ActiveRuns(d)
    BY <1>3 DEF ActiveRuns
  <1>5. /\ Len(runs'[c]) = Len(runs[c]) /\ ActiveRuns(c)' \subseteq ActiveRuns(c)
        /\ n \in ActiveRuns(c)' => IsActive(r)
    BY <1>2, <1>3 DEF ActiveRuns, IsActive
  <1> QED
    BY <1>3, <1>4, <1>5

\* When no run becomes active, still only the latest one is.
LEMMA NoneRevived ==
    ASSUME ServerInv,
           \A d \in Conversations :
             Len(runs'[d]) = Len(runs[d]) /\ ActiveRuns(d)' \subseteq ActiveRuns(d)
    PROVE  OneActiveRun'
  BY DEF ServerInv, OneActiveRun

\* An owner stays one while its POST, its task or the crash does.
LEMMA OwnersKept ==
    ASSUME ServerInv,
           orphaned => orphaned',
           up' => up /\ Keeps(requests, requests'),
           \A d \in Conversations : ActiveRuns(d)' \subseteq ActiveRuns(d),
           \A d \in Conversations : \A m \in ActiveRuns(d)' :
             task[d].run = m => task'[d].run = m
    PROVE  OwnedRun'
  <1> SUFFICES ASSUME ~orphaned', NEW d \in Conversations, NEW m \in ActiveRuns(d)'
               PROVE  \/ task'[d].run = m
                      \/ ~up'
                      \/ \E i \in DOMAIN requests' :
                           /\ IsBegun(requests'[i])
                           /\ requests'[i].conv = d /\ requests'[i].session = m
    BY DEF OwnedRun, IsBegun
  <1>1. HasOwner(d, m)
    BY OwnedRunIs DEF ServerInv
  <1>2. CASE ~up'
    BY <1>2
  <1>3. CASE up' /\ task[d].run = m
    BY <1>3
  <1>4. CASE up' /\ \E i \in DOMAIN requests :
               IsBegun(requests[i]) /\ requests[i].conv = d /\ requests[i].session = m
    BY <1>4 DEF Keeps
  <1> QED
    BY <1>1, <1>2, <1>3, <1>4 DEF HasOwner

\* Steps that leave the runs and the tasks alone.
LEMMA AsideKeeps ==
    ASSUME ServerInv, UNCHANGED <<runs, task>>, orphaned => orphaned',
           up' => up /\ Keeps(requests, requests')
    PROVE  ServerInv'
  <1>1. RunsOK' /\ TasksOK'
    BY DEF ServerInv, RunsOK, TasksOK
  <1>2. \A d \in Conversations :
          Len(runs'[d]) = Len(runs[d]) /\ ActiveRuns(d)' = ActiveRuns(d)
    BY DEF ActiveRuns
  <1>3. OneActiveRun'
    BY <1>2, NoneRevived
  <1>4. OwnedRun'
    BY <1>2, OwnersKept
  <1> QED
    BY <1>1, <1>3, <1>4 DEF ServerInv

\* A task takes a step of its run, publishes, or ends with it (runner.py).
LEMMA TaskKeeps ==
    ASSUME ServerInv, NEW c \in Conversations, TaskStep(c),
           UNCHANGED <<requests, up, orphaned>>
    PROVE  ServerInv'
  <1> DEFINE n == task[c].run
             x == runs[c][n]
  <1>1. RunsOK /\ TasksOK /\ task[c] = [run |-> n, out |-> task[c].out]
    BY DEF ServerInv, TasksOK
  <1>2. Keeps(requests, requests')
    BY DEF Keeps
  <1>3. ASSUME NEW r \in Started(x) \union ToolCalled(c, x) \union ToolEnded(c, x)
                        \union Asking(c, x) \union Asked(x) \union Resumed(x)
                        \union Completed(x) \union Failed(x),
               NEW types, Write(c, r, types)
        PROVE  ServerInv'
    <2>1. n \in DOMAIN runs[c] => r \in Run /\ (IsActive(r) => IsActive(runs[c][n]))
      <3>1. n \in DOMAIN runs[c] => x \in Run
        BY <1>1 DEF RunsOK
      <3> QED
        BY <3>1, RunSteps
    <2>2. runs' = [runs EXCEPT ![c][n] = r]
      BY <1>3 DEF Write
    <2>3. RunsOK' /\ \A d \in Conversations :
            Len(runs'[d]) = Len(runs[d]) /\ ActiveRuns(d)' \subseteq ActiveRuns(d)
      BY <1>1, <2>1, <2>2, RunChanged
    <2> DEFINE out == [i \in DOMAIN types |-> [type |-> types[i], run |-> n]]
    <2>4. task' = [task EXCEPT ![c] = [task[c] EXCEPT !.out = out]]
      BY <1>3 DEF Write
    <2> HIDE DEF out
    <2>5. [task[c] EXCEPT !.out = out] = [run |-> n, out |-> out]
      BY <1>1
    <2> HIDE DEF n, x
    <2>6. TasksOK' /\ \A d \in Conversations : task'[d].run = task[d].run
      BY <1>1, <2>4, <2>5 DEF TasksOK, n
    <2> QED
      BY <1>2, <2>3, <2>6, NoneRevived, OwnersKept DEF ServerInv
  <1>4. CASE Publish(c)
    <2>1. /\ runs' = runs
          /\ task' = [task EXCEPT ![c] = [task[c] EXCEPT !.out = <<>>]]
      BY <1>4 DEF Publish
    <2>2. [task[c] EXCEPT !.out = <<>>] = [run |-> n, out |-> <<>>]
      BY <1>1
    <2>3. TasksOK' /\ \A d \in Conversations : task'[d].run = task[d].run
      BY <1>1, <2>1, <2>2 DEF TasksOK
    <2>4. RunsOK' /\ \A d \in Conversations :
            Len(runs'[d]) = Len(runs[d]) /\ ActiveRuns(d)' \subseteq ActiveRuns(d)
      BY <1>1, <2>1 DEF RunsOK, ActiveRuns
    <2> QED
      BY <1>2, <2>3, <2>4, NoneRevived, OwnersKept DEF ServerInv
  <1>5. CASE EndTask(c)
    <2>1. /\ runs' = runs
          /\ task' = [task EXCEPT ![c] = NoTask]
          /\ x.status \in TerminalStatuses
      BY <1>5 DEF EndTask, Owned
    <2>2. TasksOK' /\ \A d \in Conversations \ {c} : task'[d].run = task[d].run
      BY <1>1, <2>1 DEF TasksOK, NoTask
    <2>3. n \notin ActiveRuns(c)'
      BY <2>1 DEF ActiveRuns, TerminalStatuses, ActiveStatuses
    <2>4. RunsOK' /\ \A d \in Conversations :
            Len(runs'[d]) = Len(runs[d]) /\ ActiveRuns(d)' \subseteq ActiveRuns(d)
      BY <1>1, <2>1 DEF RunsOK, ActiveRuns
    <2> QED
      BY <1>2, <2>2, <2>3, <2>4, NoneRevived, OwnersKept DEF ServerInv
  <1> QED
    BY <1>3, <1>4, <1>5
    DEF TaskStep, StartTurn, RequestTool, FinishTool, AwaitApproval, CreateApproval,
        FinishDecision, CompleteRun, FailRun, Owned

-----------------------------------------------------------------------------
(* The POST handlers. *)

\* The run begun is the only active one, and its POST owns it (begin_run).
LEMMA PostBeginsKeeps ==
    ASSUME ServerInv, ClientInv, NEW i \in DOMAIN requests, PostBegins(i),
           Keeps(requests, requests'), AreRequests(requests', active)
    PROVE  ServerInv'
  <1>0. IsRequest(requests[i]) /\ requests[i].conv \in Conversations
    BY SomeRequest
  <1>1. PICK c \in Conversations, n \in {Len(runs[requests[i].conv]) + 1} :
          c = requests[i].conv /\ n = Len(runs[c]) + 1
    BY <1>0
  <1>2. CASE BeginRefused(c)
    BY <1>2, AsideKeeps DEF PostBegins, BeginRefused, serverVars
  <1>3. CASE /\ BeginRun(c)
             /\ requests' = [requests EXCEPT ![i].answer = "begun", ![i].session = n]
    <2>1. /\ runs' = [runs EXCEPT ![c] = Append(runs[c], NewRun)]
          /\ ActiveRuns(c) = {} /\ UNCHANGED <<task, up, orphaned>>
      BY <1>3 DEF BeginRun, PostBegins
    <2>2. runs[c] \in Seq(Run) /\ NewRun \in Run
      BY <1>1 DEF ServerInv, RunsOK, NewRun, Run, RunStatuses, ActiveStatuses
    <2> DEFINE s == Append(runs[c], NewRun)
    <2>3. /\ s \in Seq(Run) /\ Len(s) = n /\ Len(runs[c]) \in Nat
          /\ DOMAIN s = 1..n /\ DOMAIN runs[c] = 1..Len(runs[c])
          /\ \A m \in DOMAIN runs[c] : s[m] = runs[c][m]
      BY <1>1, <2>2, AppendProperties
    <2> HIDE DEF s
    <2>4. RunsOK' /\ runs'[c] = s /\ \A d \in Conversations \ {c} : runs'[d] = runs[d]
      BY <1>1, <2>1, <2>3 DEF ServerInv, RunsOK, s
    <2>5. ActiveRuns(c)' \subseteq {n}
      <3> SUFFICES ASSUME NEW m \in DOMAIN s, s[m].status \in ActiveStatuses
                   PROVE  m = n
        BY <2>4 DEF ActiveRuns
      <3>1. m \notin DOMAIN runs[c]
        BY <2>1, <2>3 DEF ActiveRuns
      <3> QED
        BY <1>1, <2>3, <3>1
    <2>6. \A d \in Conversations \ {c} : ActiveRuns(d)' = ActiveRuns(d)
      BY <2>4 DEF ActiveRuns
    <2>7. OneActiveRun'
      BY <2>3, <2>4, <2>5, <2>6 DEF OneActiveRun, ServerInv
    <2>8. /\ i \in DOMAIN requests' /\ IsBegun(requests'[i])
          /\ requests'[i].conv = c /\ requests'[i].session = n
      <3> DEFINE r == requests[i]
                 q == [r EXCEPT !.answer = "begun", !.session = n]
      <3>1. r.kind = "post" /\ r.ok
        BY <1>3 DEF PostBegins
      <3>2. /\ requests' = [requests EXCEPT ![i] = q]
        BY <1>3
      <3>3. DOMAIN requests' = DOMAIN requests /\ requests'[i] = q
        BY <3>2
      <3>4. q.answer = "begun" /\ q.session = n /\ q.kind = r.kind /\ q.conv = r.conv /\ q.ok = r.ok
        BY <1>0 DEF IsRequest
      <3> HIDE DEF q
      <3> QED
        BY <1>1, <3>1, <3>3, <3>4 DEF IsBegun
    <2>9. OwnedRun'
      <3> SUFFICES ASSUME ~orphaned', NEW d \in Conversations, NEW m \in ActiveRuns(d)'
                   PROVE  \/ task'[d].run = m
                          \/ ~up'
                          \/ \E j \in DOMAIN requests' :
                               /\ IsBegun(requests'[j])
                               /\ requests'[j].conv = d /\ requests'[j].session = m
        BY DEF OwnedRun, IsBegun
      <3>1. CASE d = c
        BY <3>1, <2>5, <2>8
      <3>2. CASE d # c
        <4>1. HasOwner(d, m)
          BY <3>2, <2>1, <2>6, OwnedRunIs DEF ServerInv
        <4> QED
          BY <4>1, <2>1 DEF HasOwner, Keeps
      <3> QED
        BY <3>1, <3>2
    <2>10. TasksOK'
      BY <2>1 DEF ServerInv, TasksOK
    <2> QED
      BY <2>4, <2>7, <2>9, <2>10 DEF ServerInv
  <1> QED
    BY <1>1, <1>2, <1>3 DEF PostBegins, Answered

\* The run begun passes to its task, or is failed (supervisor.start, post_message).
LEMMA PostStartsKeeps ==
    ASSUME ServerInv, ClientInv, NEW i \in DOMAIN requests, PostStarts(i)
    PROVE  ServerInv'
  <1>0. IsRequest(requests[i]) /\ requests[i].conv \in Conversations
    BY SomeRequest
  <1>1. PICK c \in Conversations, n \in {requests[i].session} :
          c = requests[i].conv /\ n = requests[i].session
    BY <1>0
  <1>2. /\ RunsOK /\ TasksOK /\ UNCHANGED <<up, orphaned>>
        /\ \A j \in DOMAIN requests \ {i} : j \in DOMAIN requests' /\ requests'[j] = requests[j]
    BY DEF ServerInv, PostStarts, Answered, StartTask, StartRefused
  (* Who else has an owner keeps it. *)
  <1>3. ASSUME NEW d \in Conversations, NEW m \in ActiveRuns(d), ~orphaned,
               d # c \/ (m # n /\ task'[c] = task[c]) \/ task[c].run = 0,
               \A e \in Conversations \ {c} : task'[e] = task[e],
               d = c /\ m = n => task'[c].run = n
        PROVE  \/ task'[d].run = m
               \/ ~up'
               \/ \E j \in DOMAIN requests' :
                    /\ IsBegun(requests'[j])
                    /\ requests'[j].conv = d /\ requests'[j].session = m
    <2>1. HasOwner(d, m)
      BY <1>3, OwnedRunIs DEF ServerInv
    <2>2. m # 0
      BY <1>2 DEF ActiveRuns, RunsOK
    <2>3. CASE d = c /\ m = n
      BY <1>3, <2>3
    <2>4. CASE ~(d = c /\ m = n)
      <3>1. CASE task[d].run = m
        BY <1>3, <2>2, <2>4, <3>1
      <3>2. CASE ~up
        BY <1>2, <3>2
      <3>3. CASE \E j \in DOMAIN requests :
                   /\ IsBegun(requests[j])
                   /\ requests[j].conv = d /\ requests[j].session = m
        BY <1>1, <1>2, <2>4, <3>3
      <3> QED
        BY <2>1, <3>1, <3>2, <3>3 DEF HasOwner
    <2> QED
      BY <2>3, <2>4
  <1>4. CASE StartTask(c, n)
    <2>1. /\ runs' = runs /\ task[c].run = 0
          /\ task' = [task EXCEPT ![c] = [task[c] EXCEPT !.run = n]]
      BY <1>4 DEF StartTask
    <2>2. [task[c] EXCEPT !.run = n] = [run |-> n, out |-> task[c].out]
      BY <1>2 DEF TasksOK
    <2>3. /\ TasksOK' /\ task'[c].run = n
          /\ \A d \in Conversations \ {c} : task'[d] = task[d]
      BY <1>2, <2>1, <2>2 DEF TasksOK
    <2>4. RunsOK' /\ \A d \in Conversations :
            Len(runs'[d]) = Len(runs[d]) /\ ActiveRuns(d)' = ActiveRuns(d)
      BY <1>2, <2>1 DEF RunsOK, ActiveRuns
    <2>5. OwnedRun'
      BY <1>2, <1>3, <2>1, <2>3, <2>4 DEF OwnedRun, IsBegun
    <2> QED
      BY <2>3, <2>4, <2>5, NoneRevived DEF ServerInv
  <1>5. CASE StartRefused(c, n)
    <2>1. /\ task' = task
          /\ \/ runs' = runs /\ ~IsActive(runs[c][n])
             \/ runs' = [runs EXCEPT ![c][n] = [runs[c][n] EXCEPT !.status = "failed"]]
      BY <1>5 DEF StartRefused, IsActive, TerminalStatuses, ActiveStatuses
    <2>2. /\ RunsOK'
          /\ \A d \in Conversations :
               Len(runs'[d]) = Len(runs[d]) /\ ActiveRuns(d)' \subseteq ActiveRuns(d)
          /\ n \notin ActiveRuns(c)'
      <3>1. CASE runs' = runs /\ ~IsActive(runs[c][n])
        BY <1>2, <3>1 DEF RunsOK, ActiveRuns, IsActive
      <3>2. CASE runs' = [runs EXCEPT ![c][n] = [runs[c][n] EXCEPT !.status = "failed"]]
        <4> DEFINE r == [runs[c][n] EXCEPT !.status = "failed"]
        <4>1. n \in DOMAIN runs[c] => r \in Run /\ ~IsActive(r)
          <5>1. n \in DOMAIN runs[c] => runs[c][n] \in Run
            BY <1>2 DEF RunsOK
          <5> QED
            BY <5>1 DEF Run, RunStatuses, TerminalStatuses, ActiveStatuses, IsActive
        <4> HIDE DEF r
        <4>2. runs' = [runs EXCEPT ![c][n] = r]
          BY <3>2 DEF r
        <4>3. /\ RunsOK'
              /\ \A d \in Conversations :
                   Len(runs'[d]) = Len(runs[d]) /\ ActiveRuns(d)' \subseteq ActiveRuns(d)
              /\ n \in ActiveRuns(c)' => IsActive(r)
          BY <1>2, <4>1, <4>2, RunChanged
        <4>4. n \in ActiveRuns(c)' => n \in DOMAIN runs[c]
          BY <4>3 DEF ActiveRuns
        <4> QED
          BY <4>1, <4>3, <4>4
      <3> QED
        BY <2>1, <3>1, <3>2
    <2>3. TasksOK'
      BY <1>2, <2>1 DEF TasksOK
    <2>4. OwnedRun'
      BY <1>2, <1>3, <2>1, <2>2 DEF OwnedRun, IsBegun
    <2> QED
      BY <2>2, <2>3, <2>4, NoneRevived DEF ServerInv
  <1> QED
    BY <1>1, <1>4, <1>5 DEF PostStarts

\* The runs a Stop may leave are not active (interrupt_run, supervisor.cancel).
LEMMA CancelledEnds ==
    ASSUME RunsOK, NEW c \in Conversations, NEW n \in DOMAIN runs[c], NEW a,
           NEW r \in Cancelled(c, n, a)
    PROVE  r \in Run /\ ~IsActive(r)
  <1> DEFINE x == Settled(runs[c][n], a)
  <1>0. runs[c][n] \in Run
    BY DEF RunsOK
  <1>1. runs[c][n] \in Run /\ x \in Run /\ ~IsActive(x)
    BY <1>0, InterruptedEnds
  <1> HIDE DEF x
  <1>2. \/ r = x
        \/ \E q \in Upserted(c, runs[c][n]) : r = [x EXCEPT !.late = q.activity]
        \/ \E q \in Landed(c, runs[c][n]) : r = Interrupted(q)
    BY DEF Cancelled, Stopped, If, x
  <1>3. ASSUME NEW q \in Landed(c, runs[c][n]), r = Interrupted(q)
        PROVE  r \in Run /\ ~IsActive(r)
    <2>1. q \in Run
      BY <1>1, RunSteps DEF Landed, Upserted
    <2> QED
      BY <1>3, <2>1, InterruptedEnds
  <1>4. ASSUME NEW q \in Upserted(c, runs[c][n]), r = [x EXCEPT !.late = q.activity]
        PROVE  r \in Run /\ ~IsActive(r)
    <2>1. q \in Run
      BY <1>1, RunSteps DEF Upserted
    <2> QED
      BY <1>1, <1>4, <2>1 DEF Run, IsActive
  <1> QED
    BY <1>1, <1>2, <1>3, <1>4

\* A run whose task is left without being interrupted is one of before, perhaps
\* with a write that has landed or is to land (supervisor.cancel).
LEMMA AbandonedSteps ==
    ASSUME RunsOK, NEW c \in Conversations, NEW n \in DOMAIN runs[c],
           NEW r \in Abandoned(c, n)
    PROVE  r \in Run /\ (IsActive(r) => IsActive(runs[c][n]))
  <1> DEFINE x == runs[c][n]
  <1>1. x \in Run
    BY DEF RunsOK
  <1> HIDE DEF x
  <1>2. /\ \A late \in {"start", "fail"} : LET y == [x EXCEPT !.late = late] IN
             y \in Run /\ (IsActive(y) => IsActive(x))
    BY <1>1 DEF Run, IsActive
  <1>3. \/ r = x
        \/ r \in Started(x) \union Failed(x)
        \/ r \in Cancelled(c, n, 0)
        \/ \E late \in {"start", "fail"} : r = [x EXCEPT !.late = late]
    BY DEF Abandoned, GivenUp, If, x
  <1>4. CASE r \in Started(x) \union Failed(x)
    <2>1. r \in Started(x) \union ToolCalled(c, x) \union ToolEnded(c, x) \union Asking(c, x)
                 \union Asked(x) \union Resumed(x) \union Completed(x) \union Failed(x)
      BY <1>4
    <2>2. r \in Run /\ IsActive(x)
      BY <1>1, <2>1, RunSteps
    <2> QED
      BY <2>2 DEF x
  <1>5. CASE r \in Cancelled(c, n, 0)
    BY <1>5, CancelledEnds
  <1> QED
    BY <1>1, <1>2, <1>3, <1>4, <1>5 DEF x

\* So is one whose interruption has failed (_interrupt_run_sync).
LEMMA OvertakingSteps ==
    ASSUME RunsOK, NEW c \in Conversations, NEW n \in DOMAIN runs[c],
           NEW r \in Overtaking(c, n)
    PROVE  r \in Run /\ (IsActive(r) => IsActive(runs[c][n]))
  <1> DEFINE x == runs[c][n]
  <1>1. x \in Run
    BY DEF RunsOK
  <1>2. \/ r \in Started(x) \union Asking(c, x) \union Completed(x) \union Failed(x)
        \/ r \in LateLanded(x)
    BY DEF Overtaking, If
  <1> HIDE DEF x
  <1>3. r \in Run /\ (IsActive(r) => IsActive(x))
    BY <1>1, <1>2, RunSteps, LateSteps
  <1> QED
    BY <1>3 DEF x

\* A Stop ends its run, which was its task's or nobody's; one that meets another
\* run's task, or fails, is said to have orphaned what it leaves (interrupt_run).
LEMMA StopServedKeeps ==
    ASSUME ServerInv, ClientInv, NEW i \in DOMAIN requests, StopServed(i),
           Keeps(requests, requests')
    PROVE  ServerInv'
  <1>0. IsRequest(requests[i]) /\ requests[i].conv \in Conversations
    BY SomeRequest
  <1>1. PICK c \in Conversations, n \in {requests[i].session}, a \in {requests[i].got.approval} :
          c = requests[i].conv /\ n = requests[i].session /\ a = requests[i].got.approval
    BY <1>0
  <1>2. RunsOK /\ TasksOK
    BY DEF ServerInv
  <1>3. ASSUME CancelTask(c)
        PROVE  /\ TasksOK' /\ up' = up
               /\ \A d \in Conversations \ {c} : task'[d] = task[d]
    BY <1>2, <1>3 DEF CancelTask, TasksOK, NoTask
  <1>4. CASE InterruptRun(c, n, a) /\ UNCHANGED orphaned
    <2>1. PICK r \in Cancelled(c, n, a) : runs' = [runs EXCEPT ![c][n] = r]
      BY <1>4 DEF InterruptRun
    <2>2. n \in DOMAIN runs[c] => r \in Run /\ ~IsActive(r)
      BY <1>2, <2>1, CancelledEnds
    <2>3. /\ RunsOK'
          /\ \A d \in Conversations :
               Len(runs'[d]) = Len(runs[d]) /\ ActiveRuns(d)' \subseteq ActiveRuns(d)
          /\ n \in ActiveRuns(c)' => IsActive(r)
      BY <1>2, <2>1, <2>2, RunChanged
    <2>4. n \notin ActiveRuns(c)'
      <3>1. n \in ActiveRuns(c)' => n \in DOMAIN runs[c]
        BY <2>3 DEF ActiveRuns
      <3> QED
        BY <2>2, <2>3, <3>1
    <2>5. \A d \in Conversations : \A m \in ActiveRuns(d)' :
            task[d].run = m => task'[d].run = m
      <3> SUFFICES ASSUME NEW d \in Conversations, NEW m \in ActiveRuns(d)', task[d].run = m
                   PROVE  task'[d].run = m
        OBVIOUS
      <3>1. CASE d # c
        BY <1>3, <1>4, <3>1 DEF InterruptRun
      <3>2. CASE d = c
        <4>1. m # 0
          BY <2>3 DEF ActiveRuns, RunsOK
        <4>2. task[c].run \in {0, n}
          BY <1>4 DEF InterruptRun
        <4> QED
          BY <2>4, <3>2, <4>1, <4>2
      <3> QED
        BY <3>1, <3>2
    <2>6. TasksOK' /\ up' = up
      BY <1>3, <1>4 DEF InterruptRun
    <2>7. OwnedRun'
      BY <1>4, <2>3, <2>5, <2>6, OwnersKept
    <2> QED
      BY <2>3, <2>6, <2>7, NoneRevived DEF ServerInv
  <1>5. CASE /\ InterruptOther(c, n) \/ InterruptFails(c, n)
             /\ orphaned' = (\/ orphaned
                             \/ \E m \in DOMAIN runs[c] : runs'[c][m].status \in ActiveStatuses)
    <2>1. PICK k, r : /\ r \in Abandoned(c, k) \union Overtaking(c, k)
                      /\ runs' = [runs EXCEPT ![c][k] = r]
      BY <1>5 DEF InterruptOther, InterruptFails
    <2>2. k \in DOMAIN runs[c] => r \in Run /\ (IsActive(r) => IsActive(runs[c][k]))
      BY <1>2, <2>1, AbandonedSteps, OvertakingSteps
    <2>3. /\ RunsOK'
          /\ \A d \in Conversations :
               Len(runs'[d]) = Len(runs[d]) /\ ActiveRuns(d)' \subseteq ActiveRuns(d)
      BY <1>2, <2>1, <2>2, RunChanged
    <2>4. /\ TasksOK' /\ up' = up
          /\ \A d \in Conversations \ {c} : task'[d] = task[d]
      BY <1>3, <1>5 DEF InterruptOther, InterruptFails
    <2>5. OwnedRun'
      <3>1. CASE orphaned'
        BY <3>1 DEF OwnedRun
      <3>2. CASE ~orphaned'
        <4>1. DOMAIN runs'[c] = DOMAIN runs[c]
          BY <1>2, <2>3 DEF RunsOK
        <4>2. ActiveRuns(c)' = {}
          BY <1>5, <3>2, <4>1 DEF ActiveRuns
        <4> QED
          BY <1>5, <2>3, <2>4, <3>2, <4>2, OwnersKept
      <3> QED
        BY <3>1, <3>2
    <2> QED
      BY <2>3, <2>4, <2>5, NoneRevived DEF ServerInv
  <1> QED
    BY <1>1, <1>4, <1>5 DEF StopServed

\* A write that lands late changes the run it is of (to_thread).
LEMMA LateWriteKeeps ==
    ASSUME ServerInv, NEW c \in Conversations, LateWrite(c)
    PROVE  ServerInv'
  <1>1. PICK n \in DOMAIN runs[c] : \E r \in LateLanded(runs[c][n]) :
          runs' = [runs EXCEPT ![c][n] = r]
    BY DEF LateWrite, LandLate
  <1>2. PICK r \in LateLanded(runs[c][n]) : runs' = [runs EXCEPT ![c][n] = r]
    BY <1>1
  <1>3. /\ RunsOK /\ UNCHANGED <<task, up, requests, orphaned>>
    BY DEF LateWrite, LandLate, ServerInv
  <1>4. r \in Run /\ (IsActive(r) => IsActive(runs[c][n]))
    BY <1>3, LateSteps DEF RunsOK
  <1>5. /\ RunsOK'
        /\ \A d \in Conversations :
             Len(runs'[d]) = Len(runs[d]) /\ ActiveRuns(d)' \subseteq ActiveRuns(d)
    BY <1>2, <1>3, <1>4, RunChanged
  <1>6. TasksOK' /\ Keeps(requests, requests')
    BY <1>3 DEF ServerInv, TasksOK, Keeps
  <1>7. OwnedRun'
    BY <1>3, <1>5, <1>6, OwnersKept
  <1> QED
    BY <1>5, <1>6, <1>7, NoneRevived DEF ServerInv

\* An answer to an approval changes the approval (resolve).
LEMMA DecisionKeeps ==
    ASSUME ServerInv, ClientInv, NEW i \in DOMAIN requests, DecisionServed(i),
           Keeps(requests, requests')
    PROVE  ServerInv'
  <1>0. requests[i].conv \in Conversations
    BY SomeRequest
  <1>1. PICK c \in Conversations, n \in {requests[i].session} :
          c = requests[i].conv /\ n = requests[i].session
    BY <1>0
  <1>2. CASE DecideRefused(c, n)
    BY <1>2, AsideKeeps DEF DecisionServed, DecideRefused, serverVars
  <1>3. CASE DecideApproval(c, n)
    <2> DEFINE r == [runs[c][n] EXCEPT !.approval = "decided"]
    <2>1. /\ runs' = [runs EXCEPT ![c][n] = r]
          /\ UNCHANGED <<task, up, orphaned>>
      BY <1>3 DEF DecideApproval, DecisionServed
    <2>2. n \in DOMAIN runs[c] => r \in Run /\ (IsActive(r) => IsActive(runs[c][n]))
      <3>1. n \in DOMAIN runs[c] => runs[c][n] \in Run
        BY DEF ServerInv, RunsOK
      <3> QED
        BY <3>1 DEF Run, ApprovalStatuses, IsActive
    <2> HIDE DEF r
    <2>3. /\ RunsOK'
          /\ \A d \in Conversations :
               Len(runs'[d]) = Len(runs[d]) /\ ActiveRuns(d)' \subseteq ActiveRuns(d)
      BY <2>1, <2>2, RunChanged DEF ServerInv
    <2>4. TasksOK'
      BY <2>1 DEF ServerInv, TasksOK
    <2>5. OwnedRun'
      BY <2>1, <2>3, OwnersKept
    <2> QED
      BY <2>3, <2>4, <2>5, NoneRevived DEF ServerInv
  <1> QED
    BY <1>1, <1>2, <1>3 DEF DecisionServed

\* A crash leaves the runs to the start-up, which ends them all
\* (interrupt_unfinished).
LEMMA CrashKeeps ==
    ASSUME ServerInv, ServerCrash \/ ServerRestart
    PROVE  ServerInv'
  <1>1. CASE ServerCrash
    <2>1. runs' = runs /\ up' = FALSE /\ task' = [c \in Conversations |-> NoTask]
      BY <1>1 DEF ServerCrash, Crash
    <2>2. RunsOK' /\ TasksOK'
      BY <2>1 DEF ServerInv, RunsOK, TasksOK, NoTask
    <2>3. OneActiveRun'
      BY <2>1 DEF ServerInv, OneActiveRun, ActiveRuns
    <2>4. OwnedRun'
      BY <2>1 DEF OwnedRun
    <2> QED
      BY <2>2, <2>3, <2>4 DEF ServerInv
  <1>2. CASE ServerRestart
    <2>1. /\ runs' = [c \in Conversations |-> [n \in DOMAIN runs[c] |-> Recovered(runs[c][n])]]
          /\ task' = task
      BY <1>2 DEF ServerRestart, Restart
    <2>2. \A x \in Run : Recovered(x) \in Run /\ ~IsActive(Recovered(x))
      BY DEF Recovered, RecoveredActivity, Run, RunStatuses, ActiveStatuses, TerminalStatuses,
             ActivityStatuses, TerminalActivityStatuses, ApprovalStatuses, IsActive
    <2>3. ASSUME NEW c \in Conversations
          PROVE  runs'[c] \in Seq(Run) /\ ActiveRuns(c)' = {}
      <3>1. runs[c] \in Seq(Run) /\ Len(runs[c]) \in Nat /\ DOMAIN runs[c] = 1..Len(runs[c])
        BY DEF ServerInv, RunsOK
      <3>2. runs'[c] = [n \in 1..Len(runs[c]) |-> Recovered(runs[c][n])]
        BY <2>1, <3>1
      <3>3. \A n \in 1..Len(runs[c]) :
              Recovered(runs[c][n]) \in Run /\ ~IsActive(Recovered(runs[c][n]))
        BY <2>2, <3>1
      <3>4. runs'[c] \in Seq(Run)
        BY <3>1, <3>2, <3>3, IsASeq
      <3> QED
        BY <3>2, <3>3, <3>4 DEF ActiveRuns, IsActive
    <2>4. RunsOK'
      <3>1. runs' = [c \in Conversations |-> runs'[c]]
        BY <2>1
      <3> QED
        BY <2>3, <3>1 DEF RunsOK
    <2>5. TasksOK' /\ OneActiveRun' /\ OwnedRun'
      BY <2>1, <2>3 DEF ServerInv, TasksOK, OneActiveRun, OwnedRun
    <2> QED
      BY <2>4, <2>5 DEF ServerInv
  <1> QED
    BY <1>1, <1>2

-----------------------------------------------------------------------------
(* The theorems about the runs. *)

\* At the start no run has been begun and no task is there.
LEMMA ServerStart == Init => ServerInv
  <1> SUFFICES ASSUME Init
               PROVE  ServerInv
    OBVIOUS
  <1>1. /\ runs = [c \in Conversations |-> <<>>]
        /\ task = [c \in Conversations |-> NoTask]
    BY DEF Init, ServerInit
  <1>2. RunsOK /\ TasksOK
    BY <1>1 DEF RunsOK, TasksOK, NoTask
  <1>3. \A c \in Conversations : ActiveRuns(c) = {}
    BY <1>1 DEF ActiveRuns
  <1> QED
    BY <1>2, <1>3 DEF ServerInv, OneActiveRun, OwnedRun

\* Every step keeps the runs as they should be, action by action.
LEMMA ServerStep ==
    ASSUME ServerInv, ClientInv, [Next]_vars
    PROVE  ServerInv'
  <1>1. /\ AreRequests(requests', active')
        /\ \/ ~up'
           \/ Keeps(requests, requests')
           \/ \E i \in DOMAIN requests : PostStarts(i)
    BY ClientStep
  <1>2. ASSUME NEW c \in Conversations, RunTask(c)
        PROVE  ServerInv'
    <2>1. TaskStep(c) /\ UNCHANGED <<requests, orphaned>>
      BY <1>2 DEF RunTask
    <2>2. up' = up
      BY <2>1 DEF TaskStep, StartTurn, RequestTool, FinishTool, AwaitApproval, CreateApproval,
                  FinishDecision, CompleteRun, FailRun, Publish, EndTask, Write
    <2> QED
      BY <2>1, <2>2, TaskKeeps
  <1>3. ASSUME NEW i \in DOMAIN requests,
               PostBegins(i) \/ PostStarts(i) \/ StopServed(i) \/ DecisionServed(i)
        PROVE  ServerInv'
    <2>1. PostStarts(i) \/ Keeps(requests, requests')
      BY <1>3, HandledRequests DEF Handled
    <2>2. active' = active
      BY <1>3 DEF PostBegins, PostStarts, StopServed, DecisionServed
    <2> QED
      BY <1>1, <1>3, <2>1, <2>2, PostBeginsKeeps, PostStartsKeeps, StopServedKeeps, DecisionKeeps
  <1>4. CASE ServerCrash \/ ServerRestart
    BY <1>4, CrashKeeps
  <1>5. ASSUME NEW i \in DOMAIN requests,
               \/ \E part \in Parts[requests[i].kind] : Serve(i, part)
               \/ StopRead(i) \/ LoseRequest(i) \/ LoseActivities(i) \/ Continued(i)
        PROVE  UNCHANGED <<runs, task, up, orphaned>> /\ Keeps(requests, requests')
    <2>1. CASE Continued(i)
      <3>1. UNCHANGED <<runs, task, up, orphaned>>
        BY <2>1 DEF Continued, RestoreDone, RestoreFailed, ActivitiesRefreshed, StateFetched,
                    TerminalReloaded, PostAnswered, StopAnswered, ReloadedAfterPost,
                    DecisionFailed, serverVars
      <3> QED
        BY <2>1, <3>1, ContinuedRequests
    <2>2. CASE \/ \E part \in Parts[requests[i].kind] : Serve(i, part)
               \/ StopRead(i) \/ LoseRequest(i) \/ LoseActivities(i)
      <3>1. UNCHANGED <<runs, task, up, orphaned>>
        BY <2>2 DEF Serve, StopRead, LoseRequest, LoseActivities, InterruptAccepted,
                    InterruptRefused, serverVars
      <3>2. ~PostStarts(i) \/ UNCHANGED requests
        <4>1. PostStarts(i) => requests[i].kind = "post" /\ requests[i].answer = "begun"
          BY DEF PostStarts
        <4>2. CASE \E part \in Parts[requests[i].kind] : Serve(i, part)
          BY <4>1, <4>2 DEF Parts
        <4>3. CASE StopRead(i) \/ LoseRequest(i) \/ LoseActivities(i)
          BY <4>1, <4>3 DEF StopRead, LoseRequest, LoseActivities
        <4> QED
          BY <2>2, <4>2, <4>3
      <3> QED
        BY <2>2, <3>1, <3>2, HandledRequests DEF Handled, Keeps
    <2> QED
      BY <1>5, <2>1, <2>2
  <1>6. ASSUME NEW c \in Conversations,
               Streaming(c) \/ LoseConnection(c) \/ (c \in Selectable /\ Select(c))
        PROVE  UNCHANGED <<runs, task, up, orphaned>> /\ Keeps(requests, requests')
    <2>1. UNCHANGED <<runs, task, up, orphaned>>
      BY <1>6 DEF Streaming, Subscribe, Deliver, StreamError, LoseConnection, Select
    <2>2. CASE Streaming(c)
      BY <2>1, <2>2, StreamingRequests
    <2>3. CASE LoseConnection(c)
      BY <2>1, <2>3 DEF LoseConnection, Keeps
    <2>4. CASE Select(c)
      BY <2>1, <2>4, SelectRequests
    <2> QED
      BY <1>6, <2>2, <2>3, <2>4
  <1>7. ASSUME Submit \/ Stop \/ Decide \/ ToggleGroup \/ RetryActivities
        PROVE  UNCHANGED <<runs, task, up, orphaned>> /\ Keeps(requests, requests')
    <2>1. UNCHANGED <<runs, task, up, orphaned>>
      BY <1>7 DEF Submit, Stop, Decide, ToggleGroup, RetryActivities, Issue, serverVars
    <2>2. \/ UNCHANGED requests
          \/ \E kind, n : requests' = Append(requests, Request(kind, active, n))
      BY <1>7 DEF Submit, Stop, Decide, ToggleGroup, RetryActivities, Issue
    <2> QED
      BY <2>1, <2>2, IssuedRequests
  <1>8. CASE UNCHANGED vars
    BY <1>8, AsideKeeps DEF vars, Keeps
  <1>9. ASSUME UNCHANGED <<runs, task, up, orphaned>>, Keeps(requests, requests')
        PROVE  ServerInv'
    BY <1>9, AsideKeeps
  <1>10. Selectable \subseteq Conversations
    BY ClientAssumption
  <1>11. ASSUME NEW c \in Conversations, LateWrite(c)
         PROVE  ServerInv'
    BY <1>11, LateWriteKeeps
  <1> QED
    BY <1>2, <1>3, <1>4, <1>5, <1>6, <1>7, <1>8, <1>9, <1>10, <1>11
    DEF Next, Handled, User, Fault

\* The strengthening: the runs, the tasks, the requests and the connection keep
\* their shapes, and the properties of the runs hold.
LEMMA ChatInvHolds == Spec => [](ServerInv /\ ClientInv)
  <1>2. ServerInv /\ ClientInv /\ [Next]_vars => ServerInv'
    BY ServerStep
  <1> QED
    BY ClientStart, ServerStart, ClientInvStep, <1>2, PTL DEF Spec

\* Only the latest run of a conversation is ever active (begin_run).
THEOREM OneRunIsActive == Spec => []OneActiveRun
  <1>1. ServerInv => OneActiveRun
    BY DEF ServerInv
  <1> QED
    BY <1>1, ChatInvHolds, PTL

\* Every active run is a task's, a POST's or a dead process's, unless a Stop has
\* left it without its task: one that cancelled the task of another run, or whose
\* interruption failed (supervisor.start, interrupt_run).
THEOREM ActiveRunsAreOwned == Spec => []OwnedRun
  <1>1. ServerInv => OwnedRun
    BY DEF ServerInv
  <1> QED
    BY <1>1, ChatInvHolds, PTL
-----------------------------------------------------------------------------
(* Nothing shown is taken back. *)

(* A view has its nine parts, so that changing one leaves the others. *)
IsShown(v) ==
  v = [messages |-> v.messages, runs |-> v.runs, activities |-> v.activities,
       status |-> v.status, active |-> v.active, latest |-> v.latest,
       approval |-> v.approval, error |-> v.error,
       activitiesError |-> v.activitiesError]

GrowsInto(v, w) ==
  /\ v.messages \subseteq w.messages
  /\ \A n \in DOMAIN v.activities :
       /\ n \in DOMAIN w.activities
       /\ v.activities[n] \in TerminalActivityStatuses =>
            w.activities[n] = v.activities[n]

ViewsAreShown == DOMAIN view = Conversations /\ \A c \in Conversations : IsShown(view[c])

ViewsGrow == \A c \in Conversations : GrowsInto(view[c], view'[c])

\* One change after the other (the reducer).
LEMMA GrowsOn ==
    ASSUME NEW u, NEW v, NEW w, GrowsInto(u, v), GrowsInto(v, w)
    PROVE  GrowsInto(u, w)
  BY DEF GrowsInto

\* A view whose messages and activities are left alone grows.
LEMMA GrowsAside ==
    ASSUME NEW v, NEW w, w.messages = v.messages, w.activities = v.activities
    PROVE  GrowsInto(v, w)
  BY DEF GrowsInto

\* Merging keeps the activities there are, and those that have ended as they
\* ended (mergeActivities).
LEMMA MergeGrows ==
    ASSUME NEW f, NEW g
    PROVE  \A n \in DOMAIN f :
             /\ n \in DOMAIN MergeActivities(f, g)
             /\ f[n] \in TerminalActivityStatuses => MergeActivities(f, g)[n] = f[n]
  BY DEF MergeActivities

\* A view with other messages, or other activities (messages.loaded,
\* activities.loaded).
LEMMA PartsGrow ==
    ASSUME NEW v, IsShown(v), NEW messages, NEW f, NEW b
    PROVE  /\ LET w == [v EXCEPT !.messages = MergeMessages(v.messages, messages)] IN
                IsShown(w) /\ GrowsInto(v, w)
           /\ LET w == [v EXCEPT !.messages = MergeMessages(v.messages, messages),
                                 !.error = b] IN
                IsShown(w) /\ GrowsInto(v, w)
           /\ LET w == [v EXCEPT !.activities = MergeActivities(v.activities, f)] IN
                IsShown(w) /\ GrowsInto(v, w)
           /\ LET w == [v EXCEPT !.activities = MergeActivities(v.activities, f),
                                 !.activitiesError = b] IN
                IsShown(w) /\ GrowsInto(v, w)
  <1> DEFINE m == MergeMessages(v.messages, messages)
             a == MergeActivities(v.activities, f)
  <1>1. v.messages \subseteq m
    BY DEF MergeMessages
  <1>2. \A n \in DOMAIN v.activities :
          /\ n \in DOMAIN a
          /\ v.activities[n] \in TerminalActivityStatuses => a[n] = v.activities[n]
    BY MergeGrows
  <1> HIDE DEF m, a
  <1>3. ASSUME NEW w,
               \/ w = [v EXCEPT !.messages = m]
               \/ w = [v EXCEPT !.messages = m, !.error = b]
        PROVE  IsShown(w) /\ GrowsInto(v, w)
    <2>1. IsShown(w) /\ w.messages = m /\ w.activities = v.activities
      BY <1>3 DEF IsShown
    <2> QED
      BY <1>1, <2>1 DEF GrowsInto
  <1>4. ASSUME NEW w,
               \/ w = [v EXCEPT !.activities = a]
               \/ w = [v EXCEPT !.activities = a, !.activitiesError = b]
        PROVE  IsShown(w) /\ GrowsInto(v, w)
    <2>1. IsShown(w) /\ w.messages = v.messages /\ w.activities = a
      BY <1>4 DEF IsShown
    <2> QED
      BY <1>2, <2>1 DEF GrowsInto
  <1> QED
    BY <1>3, <1>4 DEF m, a

\* The other actions of the reducer leave both alone.
LEMMA OthersGrow ==
    ASSUME NEW v, IsShown(v), NEW s, NEW list, NEW w,
           \/ w \in {MessagesLoading(v), MessagesError(v), ActivitiesError(v)}
           \/ w = RunsLoaded(v, list)
           \/ w = StateLoaded(v, s)
    PROVE  IsShown(w) /\ GrowsInto(v, w)
  <1>1. IsShown(w) /\ w.messages = v.messages /\ w.activities = v.activities
    <2>1. CASE w \in {MessagesLoading(v), MessagesError(v), ActivitiesError(v)}
      BY <2>1 DEF IsShown, MessagesLoading, MessagesError, ActivitiesError
    <2>2. CASE w = RunsLoaded(v, list)
      BY <2>2 DEF IsShown, RunsLoaded
    <2>3. CASE w = StateLoaded(v, s)
      BY <2>3 DEF IsShown, StateLoaded
    <2> QED
      BY <2>1, <2>2, <2>3
  <1> QED
    BY <1>1, GrowsAside

\* An event adds a message or an activity, or moves the run (event.received).
LEMMA EventGrows ==
    ASSUME NEW v, IsShown(v), NEW e
    PROVE  IsShown(EventReceived(v, e)) /\ GrowsInto(v, EventReceived(v, e))
  <1> SUFFICES ASSUME NEW w, w = EventReceived(v, e)
               PROVE  IsShown(w) /\ GrowsInto(v, w)
    OBVIOUS
  <1> DEFINE Running == [v EXCEPT !.status = "running", !.active = e.run,
                                  !.latest = e.run, !.approval = 0]
             Waiting == [v EXCEPT !.status = "waiting_approval", !.active = e.run,
                                  !.approval = 0]
             Resolved == [v EXCEPT !.status = "running", !.approval = 0]
  <1>1. \/ w \in {Running, Waiting, Resolved,
                  RunEnded(v, e.run, "completed"), RunEnded(v, e.run, "failed")}
        \/ w = v
        \/ w = [v EXCEPT !.messages = MergeMessages(v.messages, {AssistantMessage(e.run)})]
        \/ w = [v EXCEPT !.activities = MergeActivities(v.activities, ActivityFromEvent(e))]
    BY DEF EventReceived
  <1>2. CASE \/ w \in {Running, Waiting, Resolved,
                       RunEnded(v, e.run, "completed"), RunEnded(v, e.run, "failed")}
             \/ w = v
    <2>1. IsShown(w) /\ w.messages = v.messages /\ w.activities = v.activities
      BY <1>2 DEF IsShown, RunEnded
    <2> QED
      BY <2>1, GrowsAside
  <1>3. CASE w = [v EXCEPT !.messages = MergeMessages(v.messages, {AssistantMessage(e.run)})]
    <2>1. LET u == [v EXCEPT !.messages = MergeMessages(v.messages, {AssistantMessage(e.run)})] IN
            IsShown(u) /\ GrowsInto(v, u)
      BY PartsGrow, Zenon
    <2> QED
      BY <1>3, <2>1
  <1>4. CASE w = [v EXCEPT !.activities = MergeActivities(v.activities, ActivityFromEvent(e))]
    <2>1. LET u == [v EXCEPT !.activities = MergeActivities(v.activities, ActivityFromEvent(e))] IN
            IsShown(u) /\ GrowsInto(v, u)
      BY PartsGrow, Zenon
    <2> QED
      BY <1>4, <2>1
  <1> QED
    BY <1>1, <1>2, <1>3, <1>4

\* What a continuation brings is applied part by part (restoreConversationHttp).
LEMMA LoadedGrows ==
    ASSUME NEW v, IsShown(v), NEW got
    PROVE  IsShown(Loaded(v, got)) /\ GrowsInto(v, Loaded(v, got))
  <1> DEFINE v1 == IF "messages" \in DOMAIN got
                   THEN MessagesLoaded(v, got["messages"]) ELSE v
             v2 == IF "runs" \in DOMAIN got THEN RunsLoaded(v1, got["runs"]) ELSE v1
             v3 == IF "activities" \in DOMAIN got
                   THEN ActivitiesLoaded(v2, got["activities"])
                   ELSE IF "noActivities" \in DOMAIN got THEN ActivitiesError(v2) ELSE v2
             v4 == IF "state" \in DOMAIN got THEN StateLoaded(v3, got["state"]) ELSE v3
  <1>0. \A w : GrowsInto(w, w)
    BY GrowsAside
  <1>1. IsShown(v1) /\ GrowsInto(v, v1)
    BY <1>0, PartsGrow DEF MessagesLoaded
  <1> HIDE DEF v1
  <1>2. IsShown(v2) /\ GrowsInto(v1, v2)
    BY <1>0, <1>1, OthersGrow
  <1> HIDE DEF v2
  <1>3. IsShown(v3) /\ GrowsInto(v2, v3)
    <2>1. CASE "activities" \in DOMAIN got
      BY <1>2, <2>1, PartsGrow DEF ActivitiesLoaded
    <2>2. CASE "activities" \notin DOMAIN got
      BY <1>0, <1>2, <2>2, OthersGrow
    <2> QED
      BY <2>1, <2>2
  <1> HIDE DEF v3
  <1>4. IsShown(v4) /\ GrowsInto(v3, v4)
    BY <1>0, <1>3, OthersGrow
  <1>5. v4 = Loaded(v, got)
    BY DEF Loaded, v1, v2, v3
  <1> HIDE DEF v4
  <1> QED
    BY <1>1, <1>2, <1>3, <1>4, <1>5, GrowsOn

\* One view changes, and grows; the others stay.
LEMMA OneViewGrows ==
    ASSUME ViewsAreShown, NEW c, NEW v, view' = [view EXCEPT ![c] = v],
           c \in Conversations => IsShown(v) /\ GrowsInto(view[c], v)
    PROVE  ViewsAreShown' /\ ViewsGrow
  <1>1. \A w : GrowsInto(w, w)
    BY GrowsAside
  <1>2. /\ DOMAIN view' = Conversations
        /\ \A d \in Conversations : view'[d] = IF d = c THEN v ELSE view[d]
    BY DEF ViewsAreShown
  <1> QED
    BY <1>1, <1>2 DEF ViewsAreShown, ViewsGrow

\* Every step either leaves the views alone or changes one of them by the reducer.
LEMMA ViewStep ==
    ASSUME ViewsAreShown, [Next]_vars
    PROVE  ViewsAreShown' /\ ViewsGrow
  <1>1. ASSUME view' = view
        PROVE  ViewsAreShown' /\ ViewsGrow
    BY <1>1, GrowsAside DEF ViewsAreShown, ViewsGrow
  <1>2. ASSUME NEW c, NEW v, Dispatch(c, v),
               \/ v \in {MessagesLoading(view[c]), MessagesError(view[c]),
                         ActivitiesError(view[c])}
               \/ \E e : v = EventReceived(view[c], e)
               \/ \E got : v = Loaded(view[c], got)
        PROVE  ViewsAreShown' /\ ViewsGrow
    <2>1. ASSUME c \in Conversations
          PROVE  IsShown(v) /\ GrowsInto(view[c], v)
      <3>1. IsShown(view[c])
        BY <2>1 DEF ViewsAreShown
      <3> QED
        BY <1>2, <3>1, OthersGrow, EventGrows, LoadedGrows
    <2> QED
      BY <1>2, <2>1, OneViewGrows DEF Dispatch
  <1>3. ASSUME NEW i \in DOMAIN requests, Handled(i)
        PROVE  view' = view
    BY <1>3 DEF Handled, Serve, PostBegins, PostStarts, StopRead, StopServed, DecisionServed
  <1>4. ASSUME NEW i \in DOMAIN requests, Continued(i)
        PROVE  \/ view' = view
               \/ \E c, v : /\ Dispatch(c, v)
                            /\ \/ v \in {MessagesLoading(view[c]), MessagesError(view[c]),
                                         ActivitiesError(view[c])}
                               \/ \E e : v = EventReceived(view[c], e)
                               \/ \E got : v = Loaded(view[c], got)
    <2>1. CASE RestoreDone(i)
      BY <2>1 DEF RestoreDone, Apply, Ignore
    <2>2. CASE RestoreFailed(i)
      BY <2>2 DEF RestoreFailed, Ignore
    <2>3. CASE ActivitiesRefreshed(i)
      BY <2>3 DEF ActivitiesRefreshed, Apply, Ignore
    <2>4. CASE StateFetched(i) \/ TerminalReloaded(i) \/ ReloadedAfterPost(i)
      BY <2>4 DEF StateFetched, TerminalReloaded, ReloadedAfterPost, Apply, Ignore
    <2>5. CASE PostAnswered(i)
      BY <2>5 DEF PostAnswered, Ignore
    <2>6. CASE StopAnswered(i) \/ DecisionFailed(i)
      BY <2>6 DEF StopAnswered, DecisionFailed, Ignore
    <2> QED
      BY <1>4, <2>1, <2>2, <2>3, <2>4, <2>5, <2>6 DEF Continued
  <1>5. ASSUME NEW c, RunTask(c)
        PROVE  view' = view
    BY <1>5 DEF RunTask
  <1>6. ASSUME NEW c, Streaming(c)
        PROVE  ViewsAreShown' /\ ViewsGrow
    <2>1. CASE Subscribe(c)
      BY <1>1, <2>1 DEF Subscribe
    <2>2. CASE Deliver(c)
      BY <1>2, <2>2 DEF Deliver
    <2>3. CASE StreamError(c)
      BY <1>1, <1>2, <2>3 DEF StreamError
    <2> QED
      BY <1>6, <2>1, <2>2, <2>3 DEF Streaming
  <1>7. ASSUME NEW c, Select(c)
        PROVE  ViewsAreShown' /\ ViewsGrow
    <2>1. view' = [view EXCEPT ![c] = MessagesLoading(view[c])]
      BY <1>7 DEF Select
    <2>2. c \in Conversations =>
            /\ IsShown(MessagesLoading(view[c]))
            /\ GrowsInto(view[c], MessagesLoading(view[c]))
      BY OthersGrow DEF ViewsAreShown
    <2> QED
      BY <2>1, <2>2, OneViewGrows
  <1>8. Submit \/ Stop \/ Decide \/ ToggleGroup \/ RetryActivities => view' = view
    BY DEF Submit, Stop, Decide, ToggleGroup, RetryActivities, Issue
  <1>9. Fault \/ ServerRestart => view' = view
    BY DEF Fault, LoseRequest, LoseActivities, LoseConnection, ServerCrash, ServerRestart
  <1>10. UNCHANGED vars => view' = view
    BY DEF vars
  <1>11. ASSUME NEW c, LateWrite(c)
         PROVE  view' = view
    BY <1>11 DEF LateWrite
  <1> QED
    BY <1>1, <1>2, <1>3, <1>4, <1>5, <1>6, <1>7, <1>8, <1>9, <1>10, <1>11 DEF Next, User

\* No message disappears, no tool call is taken back, and one that has ended stays
\* as it ended, whatever is lost, late or out of order (mergeMessages,
\* mergeActivities).
THEOREM NothingIsTakenBack == Spec => ViewGrows
  <1>1. Init => ViewsAreShown
    BY DEF Init, ClientInit, ViewsAreShown, IsShown, EmptyView
  <1>2. ViewsAreShown /\ [Next]_vars => ViewsAreShown' /\ ViewsGrow
    BY ViewStep
  <1>3. ViewsGrow <=>
          \A c \in Conversations :
            /\ view[c].messages \subseteq view'[c].messages
            /\ \A n \in DOMAIN view[c].activities :
                 /\ n \in DOMAIN view'[c].activities
                 /\ view[c].activities[n] \in TerminalActivityStatuses =>
                      view'[c].activities[n] = view[c].activities[n]
    BY DEF ViewsGrow, GrowsInto
  <1> QED
    BY <1>1, <1>2, <1>3, PTL DEF Spec, ViewGrows
=============================================================================
