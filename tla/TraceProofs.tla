----------------------------- MODULE TraceProofs -----------------------------
(***************************************************************************)
(* Proofs about TraceViewer, for any sessions and any number of events and *)
(* loads: TraceInv is an inductive invariant, and with it the viewer shows *)
(* one run at a time, in order, under its own name.                        *)
(***************************************************************************)
EXTENDS TraceProperties, SequenceLemmas, SequenceTheorems

USE DEF None

\* The first k events of a session are a sequence of events, in order.
LEMMA TraceOfIsATrace ==
    ASSUME NEW s \in Sessions, NEW k \in Nat
    PROVE  /\ TraceOf(s, k) \in Seq(Event)
           /\ DOMAIN TraceOf(s, k) = 1..k
           /\ \A i \in 1..k : TraceOf(s, k)[i] = [session |-> s, step |-> i]
  BY DEF TraceOf, Event

\* An answer that lists the first events of a session is in order (OneTrace,
\* when a load is shown).
LEMMA TraceOfIsOneTrace ==
    ASSUME NEW s \in Sessions, NEW k \in Nat,
           NEW i \in DOMAIN TraceOf(s, k), NEW j \in DOMAIN TraceOf(s, k), i < j
    PROVE  /\ TraceOf(s, k)[i].session = TraceOf(s, k)[j].session
           /\ Precedes(TraceOf(s, k)[i], TraceOf(s, k)[j])
  BY DEF TraceOf, Precedes

\* The elements of the sequences a state holds are of the types they should be.
LEMMA Elements ==
    ASSUME TraceTypeOK
    PROVE  /\ queue \in Seq(Event) /\ \A i \in DOMAIN queue : queue[i] \in Event
           /\ loads \in Seq(Load)
           /\ \A i \in DOMAIN loads :
                loads[i] \in Load /\ loads[i].session \in Sessions
           /\ page \in Page
           /\ page.events \in Seq(Event)
           /\ \A i \in DOMAIN page.events : page.events[i] \in Event
           /\ page.loaded \in Sessions \union {None}
  <1>1. queue \in Seq(Event) /\ loads \in Seq(Load) /\ page \in Page
    BY DEF TraceTypeOK
  <1>2. page.events \in Seq(Event) /\ page.loaded \in Sessions \union {None}
    BY <1>1 DEF Page
  <1>3. \A i \in DOMAIN loads : loads[i] \in Load
    BY <1>1
  <1>4. \A i \in DOMAIN loads : loads[i].session \in Sessions
    BY <1>3 DEF Load
  <1> QED
    BY <1>1, <1>2, <1>3, <1>4

\* The initial states satisfy the strengthening (the page is empty, nothing is queued).
LEMMA TraceInit == Init => TraceInv
  <1> SUFFICES ASSUME Init
               PROVE  TraceInv
    OBVIOUS
  <1> USE DEF Init
  <1>1. TraceTypeOK
    <2>1. trace \in [Sessions -> Nat]
      BY ViewerAssumption
    <2>2. page \in Page
      BY DEF Page, NoEvent, Conversations
    <2>3. navigation \in [Sessions -> Listing] /\ index = navigation
      BY DEF Listing
    <2>4. /\ query \in [session : Sessions \union {None}, conversation : Conversations]
          /\ queue \in Seq(Event) /\ loads \in Seq(Load)
      OBVIOUS
    <2>5. /\ posting \in [Sessions -> BOOLEAN]
          /\ overdue \in [Sessions -> SUBSET Nat] /\ late = overdue
          /\ connection \in {"up", "down"}
          /\ asked \in {"sent", "answered", "done"}
          /\ crossed \in BOOLEAN
      OBVIOUS
    <2> HIDE DEF Init
    <2> QED
      BY <2>1, <2>2, <2>3, <2>4, <2>5 DEF TraceTypeOK
  <1> QED
    BY <1>1 DEF TraceInv, PostsArePast, LiveInOrder, LoadsAreTraces, OneTrace, ShowsWhatIsLoaded,
                   CrossingIsNoticed, IsCrossed

-----------------------------------------------------------------------------
(* The agents and the stream. *)

\* An event that is appended comes after all that was posted; one that has been
\* posted comes after those posted before it, unless its post was given up.
LEMMA PostsKeep ==
    ASSUME TraceInv, NEW s \in Sessions, Emit(s) \/ Post(s) \/ PostFails(s) \/ PostTakenLate(s)
    PROVE  /\ TraceTypeOK' /\ PostsArePast'
           /\ \A t \in Sessions : trace[t] <= trace'[t] /\ late[t] \subseteq late'[t]
  <1> USE DEF TraceInv, TraceTypeOK, PostsArePast
  <1>1. /\ UNCHANGED <<connection, query, navigation, asked, index, page, loads, crossed>>
        /\ queue \in Seq(Event)
        /\ \A t \in Sessions : trace[t] \in Nat
    BY DEF Emit, Post, PostFails, PostTakenLate, streamVars, indexVars
  <1>2. CASE Emit(s)
    <2>1. /\ trace' = [trace EXCEPT ![s] = @ + 1] /\ UNCHANGED <<overdue, late, queue>>
          /\ posting' = [posting EXCEPT ![s] = TRUE]
      BY <1>2 DEF Emit, streamVars
    <2>2. PostsArePast'
      BY <1>1, <2>1
    <2> QED
      BY <1>1, <2>1, <2>2
  <1>3. CASE Post(s)
    <2>1. PICK e \in Event : e = [session |-> s, step |-> trace[s]]
      BY <1>1 DEF Event
    <2>2. /\ UNCHANGED <<trace, overdue, late>>
          /\ posting' = [posting EXCEPT ![s] = FALSE]
          /\ queue' = queue \/ queue' = Append(queue, e)
      BY <1>3, <2>1 DEF Post
    <2>3. queue' \in Seq(Event)
      <3>1. queue \in Seq(Event)
        BY <1>1
      <3>2. Append(queue, e) \in Seq(Event)
        BY <3>1, AppendProperties
      <3> QED
        BY <2>2, <3>1, <3>2
    <2> QED
      BY <1>1, <2>2, <2>3
  <1>4. CASE PostFails(s)
    <2>1. /\ UNCHANGED <<trace, late, queue>> /\ posting[s]
          /\ posting' = [posting EXCEPT ![s] = FALSE]
          /\ overdue' = [overdue EXCEPT ![s] = @ \union {trace[s]}]
      BY <1>4 DEF PostFails, streamVars
    <2>2. overdue' \in [Sessions -> SUBSET Nat]
      BY <1>1, <2>1
    <2>3. PostsArePast'
      <3> SUFFICES ASSUME NEW t \in Sessions
                   PROVE  /\ overdue'[t] \union late[t] \subseteq 1..trace[t]
                          /\ posting'[t] => trace[t] \in (1..trace[t]) \ (overdue'[t] \union late[t])
        BY <2>1
      <3>1. CASE t # s
        BY <2>1, <3>1
      <3>2. CASE t = s
        BY <1>1, <2>1, <3>2
      <3> QED
        BY <3>1, <3>2
    <2> QED
      BY <1>1, <2>1, <2>2, <2>3
  <1>5. CASE PostTakenLate(s)
    <2>1. PICK k \in overdue[s] :
            /\ UNCHANGED <<trace, posting>>
            /\ overdue' = [overdue EXCEPT ![s] = @ \ {k}]
            /\ late' = [late EXCEPT ![s] = @ \union {k}]
            /\ queue' = Append(queue, [session |-> s, step |-> k])
      BY <1>5 DEF PostTakenLate
    <2>2. k \in Nat /\ queue' \in Seq(Event)
      BY <1>1, <2>1 DEF Event
    <2>3. {overdue', late'} \subseteq [Sessions -> SUBSET Nat]
      BY <2>1, <2>2
    <2>4. PostsArePast'
      BY <2>1
    <2> QED
      BY <1>1, <2>1, <2>2, <2>3, <2>4
  <1> QED
    BY <1>2, <1>3, <1>4, <1>5

\* What is not shown by a step of the agents: the loads, and what a load shows.
LEMMA AgentsKeep ==
    ASSUME TraceInv, NEW s \in Sessions, Emit(s) \/ Post(s) \/ PostFails(s) \/ PostTakenLate(s)
    PROVE  LoadsAreTraces' /\ OneTrace' /\ ShowsWhatIsLoaded' /\ CrossingIsNoticed'
  <1> USE DEF TraceInv
  <1>1. UNCHANGED <<page, loads, crossed>>
    BY DEF Emit, Post, PostFails, PostTakenLate
  <1>2. \A t \in Sessions : trace[t] <= trace'[t] /\ late[t] \subseteq late'[t]
    BY PostsKeep
  <1>3. \A t \in Sessions : trace[t] \in Nat /\ trace'[t] \in Nat
    BY PostsKeep DEF TraceTypeOK
  <1>4. LoadsAreTraces'
    <2>1. \A i \in DOMAIN loads : loads[i].session \in Sessions
      BY Elements
    <2> QED
      BY <1>1, <1>2, <1>3, <2>1 DEF LoadsAreTraces
  <1>5. OneTrace'
    <2>1. \A i \in DOMAIN page.events : page.events[i] \in Event
      BY Elements
    <2> QED
      BY <1>1, <1>2, <2>1 DEF OneTrace, Precedes, Event
  <1>6. ShowsWhatIsLoaded'
    <2>1. page.loaded \in Sessions \union {None}
      BY Elements
    <2>2. /\ IsLoading(page.loaded)' <=> IsLoading(page.loaded)
          /\ page' = page /\ crossed' = crossed
      BY <1>1 DEF IsLoading
    <2>3. page.loaded \in Sessions => 0..trace[page.loaded] \subseteq 0..trace'[page.loaded]
      BY <1>2, <1>3
    <2> QED
      BY <2>1, <2>2, <2>3, Zenon DEF ShowsWhatIsLoaded
  <1>7. CrossingIsNoticed'
    BY <1>1 DEF CrossingIsNoticed, IsCrossed
  <1> QED
    BY <1>4, <1>5, <1>6, <1>7

\* IsPosted and Precedes in the next state.
PostedNext(e) ==
  /\ e.step <= trace'[e.session]
  /\ posting'[e.session] => e.step < trace'[e.session]
  /\ e.step \notin overdue'[e.session]

PrecedesNext(e, f) ==
  e.session = f.session =>
    e.step # f.step /\ (e.step < f.step \/ f.step \in late'[f.session])

\* A step of the agents that queues nothing leaves the order as it is.
LEMMA UnqueuedKeeps ==
    ASSUME TraceInv, UNCHANGED <<queue, page, crossed>>,
           \A e \in Event : IsPosted(e) => PostedNext(e),
           \A e, f \in Event : Precedes(e, f) => PrecedesNext(e, f)
    PROVE  LiveInOrder'
  <1>1. /\ \A i \in DOMAIN queue : queue[i] \in Event
        /\ \A i \in DOMAIN page.events : page.events[i] \in Event
    BY Elements DEF TraceInv
  <1>2. \A i \in DOMAIN queue : PostedNext(queue[i])
    BY <1>1 DEF TraceInv, LiveInOrder
  <1>3. \A i, j \in DOMAIN queue : i < j => PrecedesNext(queue[i], queue[j])
    BY <1>1 DEF TraceInv, LiveInOrder
  <1>4. page.loaded = None /\ ~crossed =>
          \A i \in DOMAIN page.events :
            /\ PostedNext(page.events[i])
            /\ \A j \in DOMAIN queue : PrecedesNext(page.events[i], queue[j])
    BY <1>1 DEF TraceInv, LiveInOrder
  <1> QED
    BY <1>2, <1>3, <1>4 DEF LiveInOrder, IsPosted, Precedes, PostedNext, PrecedesNext

\* An event that is queued behind all that was posted keeps the order.
LEMMA QueuedKeeps ==
    ASSUME TraceInv, NEW e \in Event,
           queue' = Append(queue, e), UNCHANGED <<page, crossed>>,
           PostedNext(e),
           \A f \in Event : IsPosted(f) => PostedNext(f) /\ PrecedesNext(f, e),
           \A f, g \in Event : Precedes(f, g) => PrecedesNext(f, g)
    PROVE  LiveInOrder'
  <1> USE DEF TraceInv
  <1>1. /\ queue \in Seq(Event) /\ Len(queue) \in Nat
        /\ DOMAIN queue = 1..Len(queue)
        /\ DOMAIN queue' = 1..(Len(queue) + 1)
        /\ \A i \in 1..Len(queue) : queue'[i] = queue[i]
        /\ queue'[Len(queue) + 1] = e
    <2>1. queue \in Seq(Event) /\ Len(queue) \in Nat /\ DOMAIN queue = 1..Len(queue)
      BY Elements
    <2> QED
      BY <2>1, AppendProperties
  <1>2. \A i \in DOMAIN queue' :
          \/ i \in DOMAIN queue /\ queue'[i] = queue[i]
          \/ i = Len(queue) + 1 /\ queue'[i] = e
    BY <1>1
  <1>3. /\ \A i \in DOMAIN queue : queue[i] \in Event
        /\ \A i \in DOMAIN page.events : page.events[i] \in Event
    BY Elements
  <1>4. \A i \in DOMAIN queue' : PostedNext(queue'[i])
    BY <1>2, <1>3 DEF LiveInOrder
  <1>5. \A i, j \in DOMAIN queue' : i < j => PrecedesNext(queue'[i], queue'[j])
    <2> SUFFICES ASSUME NEW i \in DOMAIN queue', NEW j \in DOMAIN queue', i < j
                 PROVE  PrecedesNext(queue'[i], queue'[j])
      OBVIOUS
    <2>1. i \in DOMAIN queue /\ queue'[i] = queue[i]
      BY <1>1, <1>2
    <2>2. CASE j \in DOMAIN queue
      BY <2>1, <2>2, <1>1, <1>3 DEF LiveInOrder
    <2>3. CASE j \notin DOMAIN queue
      BY <2>1, <2>3, <1>2, <1>3 DEF LiveInOrder
    <2> QED
      BY <2>2, <2>3
  <1>6. page.loaded = None /\ ~crossed =>
          \A i \in DOMAIN page.events :
            /\ PostedNext(page.events[i])
            /\ \A j \in DOMAIN queue' : PrecedesNext(page.events[i], queue'[j])
    BY <1>2, <1>3 DEF LiveInOrder
  <1> QED
    BY <1>4, <1>5, <1>6 DEF LiveInOrder, IsPosted, Precedes, PostedNext, PrecedesNext

\* An event is appended, and posted in time or late or never: what is shown and
\* queued stays in order (JsonlEventSink.emit, LiveEventSink.emit).
LEMMA AgentStepKeeps ==
    ASSUME TraceInv, NEW s \in Sessions, Emit(s) \/ Post(s) \/ PostFails(s) \/ PostTakenLate(s)
    PROVE  TraceInv'
  <1>1. /\ TraceTypeOK' /\ PostsArePast'
        /\ \A t \in Sessions : trace[t] <= trace'[t] /\ late[t] \subseteq late'[t]
    BY PostsKeep
  <1>2. LoadsAreTraces' /\ OneTrace' /\ ShowsWhatIsLoaded' /\ CrossingIsNoticed'
    BY AgentsKeep
  <1>3. /\ \A t \in Sessions : trace[t] \in Nat /\ posting[t] \in BOOLEAN
        /\ {overdue, late} \subseteq [Sessions -> SUBSET Nat]
        /\ trace \in [Sessions -> Nat] /\ posting \in [Sessions -> BOOLEAN]
        /\ overdue[s] \subseteq 1..trace[s]
        /\ posting[s] => trace[s] \notin overdue[s]
    BY DEF TraceInv, TraceTypeOK, PostsArePast
  <1>4. \A e, f \in Event : Precedes(e, f) => PrecedesNext(e, f)
    BY <1>1 DEF Event, Precedes, PrecedesNext
  <1>5. LiveInOrder'
    <2>1. CASE Emit(s)
      <3>1. /\ UNCHANGED <<queue, page, crossed, overdue>>
            /\ trace' = [trace EXCEPT ![s] = @ + 1]
            /\ posting' = [posting EXCEPT ![s] = TRUE]
        BY <2>1 DEF Emit, streamVars
      <3>2. \A e \in Event : IsPosted(e) => PostedNext(e)
        BY <1>3, <3>1 DEF Event, IsPosted, PostedNext
      <3> QED
        BY <1>4, <3>1, <3>2, UnqueuedKeeps
    <2>2. CASE PostFails(s)
      <3>1. /\ UNCHANGED <<queue, page, crossed, trace>> /\ posting[s]
            /\ posting' = [posting EXCEPT ![s] = FALSE]
            /\ overdue' = [overdue EXCEPT ![s] = @ \union {trace[s]}]
        BY <2>2 DEF PostFails, streamVars
      <3>2. \A e \in Event : IsPosted(e) => PostedNext(e)
        BY <1>3, <3>1 DEF Event, IsPosted, PostedNext
      <3> QED
        BY <1>4, <3>1, <3>2, UnqueuedKeeps
    <2>3. CASE Post(s)
      <3>1. PICK e \in Event : e = [session |-> s, step |-> trace[s]]
        BY <1>3 DEF Event
      <3>2. /\ UNCHANGED <<trace, overdue, late, page, crossed>> /\ posting[s]
            /\ posting' = [posting EXCEPT ![s] = FALSE]
            /\ queue' = queue \/ queue' = Append(queue, e)
        BY <2>3, <3>1 DEF Post
      <3>3. e.session = s /\ e.step = trace[s]
        BY <3>1
      <3>4. \A f \in Event : IsPosted(f) => PostedNext(f) /\ PrecedesNext(f, e)
        BY <1>3, <3>2, <3>3 DEF Event, IsPosted, PostedNext, PrecedesNext
      <3>5. PostedNext(e)
        BY <1>3, <3>2, <3>3 DEF PostedNext
      <3> QED
        BY <1>4, <3>2, <3>4, <3>5, UnqueuedKeeps, QueuedKeeps
    <2>4. CASE PostTakenLate(s)
      <3>1. PICK k \in overdue[s] :
              /\ UNCHANGED <<trace, posting, page, crossed>>
              /\ overdue' = [overdue EXCEPT ![s] = @ \ {k}]
              /\ late' = [late EXCEPT ![s] = @ \union {k}]
              /\ queue' = Append(queue, [session |-> s, step |-> k])
        BY <2>4 DEF PostTakenLate
      <3>2. k \in Nat /\ k <= trace[s] /\ (posting[s] => k < trace[s])
        BY <1>3
      <3>3. PICK e \in Event : e = [session |-> s, step |-> k]
        BY <3>2 DEF Event
      <3>4. e.session = s /\ e.step = k
        BY <3>3
      <3>5. \A f \in Event : IsPosted(f) => PostedNext(f) /\ PrecedesNext(f, e)
        <4>1. k \in late'[s]
          BY <1>3, <3>1
        <4>2. \A t \in Sessions : overdue'[t] \subseteq overdue[t]
          BY <1>3, <3>1
        <4> QED
          BY <3>1, <3>4, <4>1, <4>2 DEF Event, IsPosted, PostedNext, PrecedesNext
      <3>6. PostedNext(e)
        BY <1>3, <3>1, <3>2, <3>4 DEF PostedNext
      <3> QED
        BY <1>4, <3>1, <3>3, <3>5, <3>6, QueuedKeeps
    <2> QED
      BY <2>1, <2>2, <2>3, <2>4
  <1> QED
    BY <1>1, <1>2, <1>5 DEF TraceInv

\* A connection that comes or goes takes the queue with it (event_stream).
LEMMA ConnectionKeeps ==
    ASSUME TraceInv, Connect \/ Disconnect
    PROVE  TraceInv'
  <1>1. /\ UNCHANGED <<agentVars, query, indexVars, page, loads, crossed>>
        /\ queue' = queue \/ queue' = <<>>
        /\ connection' \in {"up", "down"}
    BY DEF Connect, Disconnect
  <1> USE <1>1 DEF TraceInv, agentVars, indexVars
  <1>2. TraceTypeOK'
    <2>1. queue \in Seq(Event) /\ <<>> \in Seq(Event)
      BY Elements
    <2>2. queue' \in Seq(Event)
      BY <2>1
    <2> QED
      BY <2>2 DEF TraceTypeOK
  <1>3. PostsArePast' /\ LiveInOrder'
    <2>1. CASE queue' = queue
      BY <2>1 DEF PostsArePast, LiveInOrder, IsPosted, Precedes
    <2>2. CASE queue' = <<>>
      BY <2>2 DEF PostsArePast, LiveInOrder, IsPosted, Precedes
    <2> QED
      BY <2>1, <2>2
  <1>4. LoadsAreTraces' /\ OneTrace' /\ ShowsWhatIsLoaded' /\ CrossingIsNoticed'
    BY DEF LoadsAreTraces, Precedes, OneTrace, ShowsWhatIsLoaded, IsLoading, CrossingIsNoticed, IsCrossed
  <1> QED
    BY <1>2, <1>3, <1>4
-----------------------------------------------------------------------------
(* What the page shows. *)

\* The last live event extends the live events of its run, or begins those of
\* another (appendLiveEvent, nextLiveEvents).
LEMMA LiveEventKeeps ==
    ASSUME TraceInv, LiveEvent
    PROVE  TraceInv'
  <1> DEFINE e == Head(queue)
  <1> USE DEF TraceInv
  <1>1. /\ UNCHANGED <<trace, posting, overdue, late, connection, query, navigation, asked, index, loads, crossed>>
        /\ queue # <<>>
        /\ queue' = Tail(queue)
        /\ page' = AppendLiveEvent(page, e)
    BY DEF LiveEvent, agentVars, indexVars
  <1>2. /\ queue \in Seq(Event) /\ Len(queue) \in Nat \ {0}
        /\ e = queue[1] /\ e \in Event /\ 1 \in DOMAIN queue
        /\ queue' \in Seq(Event) /\ Len(queue') = Len(queue) - 1
        /\ DOMAIN queue = 1..Len(queue) /\ DOMAIN queue' = 1..(Len(queue) - 1)
        /\ \A i \in DOMAIN queue' : i + 1 \in DOMAIN queue /\ queue'[i] = queue[i + 1]
    <2>1. queue \in Seq(Event)
      BY Elements
    <2> QED
      BY <1>1, <2>1, HeadTailProperties
  <1>3. page \in Page
    BY Elements
  <1> HIDE DEF e
  <1>4. \/ page' = page
        \/ /\ page.loaded = None
           /\ page' = [page EXCEPT !.events = <<e>>, !.selected = e, !.error = FALSE]
        \/ /\ page.loaded = None
           /\ page.events = <<>> \/ page.events[1].session = e.session
           /\ page' = [page EXCEPT !.events = Append(page.events, e),
                                   !.selected = e, !.error = FALSE]
    <2> DEFINE next == NextLiveEvents(page.events, e, page.loaded)
    <2>1. page.events \in Seq(Event)
      BY Elements
    <2>2. \/ next = page.events
          \/ page.loaded = None /\ next = <<e>>
          \/ /\ page.loaded = None
             /\ page.events = <<>> \/ page.events[1].session = e.session
             /\ next = Append(page.events, e)
      BY <2>1 DEF NextLiveEvents
    <2>3. page' = IF next = page.events THEN page
                  ELSE [page EXCEPT !.events = next, !.selected = e, !.error = FALSE]
      BY <1>1 DEF AppendLiveEvent
    <2> QED
      BY <2>2, <2>3
  <1>5. ASSUME NEW i \in DOMAIN queue'
        PROVE  IsPosted(queue'[i]) /\ Precedes(e, queue'[i])
    <2>1. i + 1 \in DOMAIN queue /\ queue'[i] = queue[i + 1] /\ 1 < i + 1
      BY <1>2
    <2> QED
      BY <2>1, <1>2 DEF LiveInOrder
  <1>6. \A i, j \in DOMAIN queue' : i < j => Precedes(queue'[i], queue'[j])
    <2> SUFFICES ASSUME NEW i \in DOMAIN queue', NEW j \in DOMAIN queue', i < j
                 PROVE  Precedes(queue'[i], queue'[j])
      OBVIOUS
    <2>1. i + 1 < j + 1
      BY <1>2
    <2> QED
      BY <2>1, <1>2 DEF LiveInOrder
  <1>7. IsPosted(e)
    BY <1>2 DEF LiveInOrder
  <1>8. CASE page' = page
    <2>1. TraceTypeOK'
      BY <1>1, <1>2, <1>8 DEF TraceTypeOK
    <2>2. page.loaded = None /\ ~crossed =>
            \A i \in DOMAIN page.events :
              /\ IsPosted(page.events[i])
              /\ \A j \in DOMAIN queue' : Precedes(page.events[i], queue'[j])
      BY <1>2 DEF LiveInOrder
    <2>3. PostsArePast' /\ LiveInOrder'
      BY <1>1, <1>5, <1>6, <1>8, <2>2 DEF PostsArePast, LiveInOrder, IsPosted, Precedes
    <2> QED
      BY <1>1, <1>8, <2>1, <2>3 DEF LoadsAreTraces, Precedes, OneTrace, ShowsWhatIsLoaded, IsLoading,
                                    CrossingIsNoticed, IsCrossed
  <1>9. ASSUME NEW events \in Seq(Event),
               page.loaded = None,
               page' = [page EXCEPT !.events = events, !.selected = e, !.error = FALSE],
               ~crossed => \A i \in DOMAIN events :
                 \/ events[i] = e
                 \/ IsPosted(events[i]) /\ \A j \in DOMAIN queue : Precedes(events[i], queue[j]),
               \A i, j \in DOMAIN events :
                 i < j => /\ events[i].session = events[j].session
                          /\ crossed \/ Precedes(events[i], events[j])
        PROVE  TraceInv'
    <2>1. page' \in Page /\ page'.events = events /\ page'.loaded = None
      BY <1>2, <1>3, <1>9 DEF Page
    <2>2. TraceTypeOK'
      BY <1>1, <1>2, <2>1 DEF TraceTypeOK
    <2>3. ~crossed => \A i \in DOMAIN events :
            IsPosted(events[i]) /\ \A j \in DOMAIN queue' : Precedes(events[i], queue'[j])
      BY <1>2, <1>5, <1>7, <1>9
    <2>4. PostsArePast' /\ LiveInOrder'
      BY <1>1, <1>5, <1>6, <2>1, <2>3 DEF PostsArePast, LiveInOrder, IsPosted, Precedes
    <2>5. OneTrace' /\ ShowsWhatIsLoaded' /\ LoadsAreTraces'
      BY <1>1, <1>9, <2>1 DEF Precedes, OneTrace, ShowsWhatIsLoaded, LoadsAreTraces
    <2>6. CrossingIsNoticed'
      BY <1>1, <1>9, <2>1 DEF CrossingIsNoticed, IsCrossed
    <2> QED
      BY <2>2, <2>4, <2>5, <2>6
  <1>10. CASE /\ page.loaded = None
              /\ page' = [page EXCEPT !.events = <<e>>, !.selected = e, !.error = FALSE]
    <2> DEFINE events == <<e>>
    <2>1. events \in Seq(Event) /\ DOMAIN events = {1} /\ events[1] = e
      BY <1>2
    <2> HIDE DEF events
    <2>2. \A i, j \in DOMAIN events : ~(i < j)
      BY <2>1
    <2>3. page' = [page EXCEPT !.events = events, !.selected = e, !.error = FALSE]
      BY <1>10 DEF events
    <2> QED
      BY <1>9, <1>10, <2>1, <2>2, <2>3
  <1>11. CASE /\ page.loaded = None
              /\ page.events = <<>> \/ page.events[1].session = e.session
              /\ page' = [page EXCEPT !.events = Append(page.events, e),
                                      !.selected = e, !.error = FALSE]
    <2> DEFINE old == page.events
               events == Append(old, e)
    <2>1. old \in Seq(Event) /\ \A i \in DOMAIN old : old[i] \in Event
      BY Elements
    <2>2. /\ events \in Seq(Event) /\ Len(old) \in Nat
          /\ DOMAIN old = 1..Len(old) /\ DOMAIN events = 1..(Len(old) + 1)
          /\ \A i \in DOMAIN old : events[i] = old[i]
          /\ events[Len(old) + 1] = e
      BY <1>2, <2>1, AppendProperties
    <2> HIDE DEF events
    <2>3. ~crossed => \A i \in DOMAIN old :
            /\ IsPosted(old[i])
            /\ \A j \in DOMAIN queue : Precedes(old[i], queue[j])
      BY <1>11 DEF LiveInOrder
    <2>4. \A i \in DOMAIN events : i \in DOMAIN old \/ i = Len(old) + 1
      BY <2>2
    <2>5. \A i \in DOMAIN old :
            old[i].session = e.session /\ (crossed \/ Precedes(old[i], e))
      <3> SUFFICES ASSUME NEW i \in DOMAIN old
                   PROVE  old[i].session = e.session /\ (crossed \/ Precedes(old[i], e))
        OBVIOUS
      <3>1. 1 \in DOMAIN old /\ (i = 1 \/ 1 < i) /\ old[1].session = e.session
        BY <1>11, <2>2
      <3>2. old[i].session = old[1].session
        BY <3>1 DEF OneTrace
      <3>3. crossed \/ Precedes(old[i], e)
        BY <2>3, <1>2
      <3> QED
        BY <3>1, <3>2, <3>3
    <2>6. \A i, j \in DOMAIN events :
            i < j => /\ events[i].session = events[j].session
                     /\ crossed \/ Precedes(events[i], events[j])
      <3> SUFFICES ASSUME NEW i \in DOMAIN events, NEW j \in DOMAIN events, i < j
                   PROVE  /\ events[i].session = events[j].session
                          /\ crossed \/ Precedes(events[i], events[j])
        OBVIOUS
      <3>1. i \in DOMAIN old /\ events[i] = old[i]
        BY <2>2, <2>4
      <3>2. CASE j \in DOMAIN old
        BY <3>1, <3>2, <2>2 DEF OneTrace
      <3>3. CASE j = Len(old) + 1
        BY <3>1, <3>3, <2>2, <2>5
      <3> QED
        BY <3>2, <3>3, <2>4
    <2> QED
      BY <1>9, <1>11, <2>2, <2>3, <2>4, <2>6 DEF events
  <1> QED
    BY <1>4, <1>8, <1>10, <1>11

\* Steps that leave the agents, the stream, the events and their run alone.
LEMMA ShownKeeps ==
    ASSUME TraceInv, TraceTypeOK',
           UNCHANGED <<trace, posting, overdue, late, queue, loads, crossed>>,
           page'.events = page.events, page'.loaded = page.loaded,
           page.error => page'.error
    PROVE  TraceInv'
  <1>1. PostsArePast' /\ LiveInOrder' /\ LoadsAreTraces' /\ OneTrace'
    BY DEF TraceInv, PostsArePast, LiveInOrder, IsPosted, Precedes, LoadsAreTraces, OneTrace
  <1>2. IsLoading(page.loaded)' <=> IsLoading(page.loaded)
    BY DEF IsLoading
  <1>3. ShowsWhatIsLoaded'
    BY <1>2, Zenon DEF TraceInv, ShowsWhatIsLoaded, TraceTypeOK
  <1>4. CrossingIsNoticed'
    BY DEF TraceInv, CrossingIsNoticed, IsCrossed
  <1> QED
    BY <1>1, <1>3, <1>4 DEF TraceInv

\* A click in the timeline changes no event (createTimelineItem).
LEMMA SelectEventKeeps ==
    ASSUME TraceInv, NEW i \in DOMAIN page.events, SelectEvent(i)
    PROVE  TraceInv'
  <1>1. /\ UNCHANGED <<trace, posting, overdue, late, connection, queue, query, navigation, asked, index, loads,
                        crossed>>
        /\ page' = [page EXCEPT !.selected = page.events[i]]
    BY DEF SelectEvent, agentVars, streamVars, indexVars
  <1>2. page \in Page /\ page.events[i] \in Event
    BY Elements DEF TraceInv
  <1>3. /\ page' \in Page /\ page'.events = page.events /\ page'.loaded = page.loaded
        /\ page'.error = page.error
    BY <1>1, <1>2 DEF Page
  <1>4. TraceTypeOK'
    BY <1>1, <1>3 DEF TraceInv, TraceTypeOK
  <1> QED
    BY <1>1, <1>3, <1>4, ShownKeeps

-----------------------------------------------------------------------------
(* The navigation and the address. *)

\* The index of the runs arrives, or does not (loadNavigation).
LEMMA NavigationKeeps ==
    ASSUME TraceInv, NavigationServed \/ NavigationFails
    PROVE  TraceInv'
  <1>1. /\ UNCHANGED <<trace, posting, overdue, late, connection, queue, query, navigation, loads, crossed>>
        /\ asked' \in {"sent", "answered", "done"}
        /\ page' = page \/ page' = [page EXCEPT !.error = TRUE]
    BY DEF NavigationServed, NavigationFails, agentVars, streamVars
  <1>2. index' \in [Sessions -> Listing]
    <2>1. CASE NavigationServed
      BY <2>1 DEF NavigationServed, Listing
    <2>2. CASE NavigationFails
      BY <2>2 DEF NavigationFails, TraceInv, TraceTypeOK
    <2> QED
      BY <2>1, <2>2
  <1>3. page \in Page
    BY Elements DEF TraceInv
  <1>4. /\ page' \in Page /\ page'.events = page.events /\ page'.loaded = page.loaded
        /\ page.error => page'.error
    BY <1>1, <1>3 DEF Page
  <1>5. TraceTypeOK'
    BY <1>1, <1>2, <1>4 DEF TraceInv, TraceTypeOK
  <1> QED
    BY <1>1, <1>4, <1>5, ShownKeeps

-----------------------------------------------------------------------------
(* Selecting a trace, or the live events. *)

\* A load that is sent off: what it is, and that it is in flight (selectTrace).
LEMMA LoadSent ==
    ASSUME TraceInv, NEW s \in Sessions, loads' = Loading(s), trace' = trace
    PROVE  loads' \in Seq(Load) /\ LoadsAreTraces' /\ IsLoading(s)'
  <1> DEFINE new == [session |-> s, answer |-> <<>>, served |-> FALSE, ok |-> TRUE,
                     opened |-> FALSE]
  <1>1. new \in Load /\ new.session = s /\ new.served = FALSE /\ new.opened = FALSE
    BY DEF Load
  <1>2. loads' = Append(loads, new)
    BY DEF Loading
  <1>3. loads \in Seq(Load)
    BY Elements DEF TraceInv
  <1> HIDE DEF new
  <1>4. /\ loads' \in Seq(Load) /\ Len(loads) \in Nat
        /\ DOMAIN loads' = 1..(Len(loads) + 1) /\ DOMAIN loads = 1..Len(loads)
        /\ \A i \in 1..Len(loads) : loads'[i] = loads[i]
        /\ loads'[Len(loads) + 1] = new
    BY <1>1, <1>2, <1>3, AppendProperties
  <1>5. IsLoading(s)'
    BY <1>1, <1>4 DEF IsLoading
  <1>6. LoadsAreTraces'
    <2> SUFFICES ASSUME NEW i \in DOMAIN loads', loads'[i].served \/ loads'[i].opened
                 PROVE  i \in DOMAIN loads /\ loads'[i] = loads[i]
      BY DEF TraceInv, LoadsAreTraces
    <2> QED
      BY <1>1, <1>4
  <1> QED
    BY <1>4, <1>5, <1>6

\* A trace is selected: it is loading, or an error is shown.
LEMMA SelectedKeeps ==
    ASSUME TraceInv, TraceTypeOK', LoadsAreTraces',
           page'.events = page.events, page'.loaded \in Sessions,
           UNCHANGED <<trace, posting, overdue, late, queue>>, Crosses,
           page'.error \/ IsLoading(page.loaded)'
    PROVE  TraceInv'
  <1>1. page'.loaded # None
    BY ViewerAssumption
  <1>2. PostsArePast' /\ LiveInOrder' /\ OneTrace'
    BY <1>1 DEF TraceInv, TraceTypeOK, PostsArePast, LiveInOrder, IsPosted, Precedes, OneTrace, Crosses
  <1>3. ShowsWhatIsLoaded'
    BY Zenon DEF ShowsWhatIsLoaded
  <1>4. CrossingIsNoticed'
    BY DEF Crosses, CrossingIsNoticed
  <1> QED
    BY <1>2, <1>3, <1>4 DEF TraceInv

\* Noticing a crossing keeps the history variable a Boolean.
LEMMA CrossesIsBoolean ==
    ASSUME TraceTypeOK, Crosses
    PROVE  crossed' \in BOOLEAN
  BY DEF TraceTypeOK, Crosses, IsCrossed

\* A selected trace is loading (selectTrace).
LEMMA SelectTraceKeeps ==
    ASSUME TraceInv, NEW s \in Sessions, SelectTrace(s)
    PROVE  TraceInv'
  <1>1. /\ UNCHANGED <<trace, posting, overdue, late, connection, queue, navigation, asked, index>>
        /\ page' = [page EXCEPT !.loaded = s, !.conversation = ConversationOf[s]]
        /\ query' = [session |-> s, conversation |-> ConversationOf[s]]
        /\ loads' = Loading(s)
        /\ Crosses
    BY DEF SelectTrace, agentVars, streamVars, indexVars
  <1>2. ConversationOf[s] \in Conversations
    BY DEF Conversations
  <1>3. page \in Page
    BY Elements DEF TraceInv
  <1>4. /\ page' \in Page /\ page'.loaded = s /\ page'.events = page.events
    BY <1>1, <1>2, <1>3 DEF Page
  <1>5. loads' \in Seq(Load) /\ LoadsAreTraces' /\ IsLoading(s)'
    BY <1>1, LoadSent
  <1>6. TraceTypeOK'
    BY <1>1, <1>2, <1>4, <1>5, CrossesIsBoolean DEF TraceInv, TraceTypeOK
  <1>7. IsLoading(page.loaded)'
    BY <1>4, <1>5 DEF IsLoading
  <1> QED
    BY <1>1, <1>4, <1>5, <1>6, <1>7, SelectedKeeps

\* The address selects a trace, nothing, or an error (applyTraceQuery).
LEMMA ApplyTraceQueryKeeps ==
    ASSUME TraceInv, ApplyTraceQuery
    PROVE  TraceInv'
  <1> DEFINE s == query.session
             p == [page EXCEPT !.loaded = s, !.conversation = ConversationOf[s]]
             q == [p EXCEPT !.error = TRUE]
  <1>1. /\ UNCHANGED <<trace, posting, overdue, late, connection, queue, query, index>>
        /\ asked' = "done"
        /\ navigation' = index
        /\ Crosses
    BY DEF ApplyTraceQuery, agentVars, streamVars
  <1>2. page \in Page /\ loads \in Seq(Load) /\ s \in Sessions \union {None}
    BY Elements DEF TraceInv, TraceTypeOK
  <1>3. ASSUME page' \in Page, loads' \in Seq(Load)
        PROVE  TraceTypeOK'
    BY <1>1, <1>3, CrossesIsBoolean DEF TraceInv, TraceTypeOK
  <1>9. ASSUME page'.loaded = page.loaded, loads' = loads
        PROVE  crossed' = crossed
    BY <1>1, <1>9 DEF Crosses, IsCrossed, TraceInv, CrossingIsNoticed, TraceTypeOK
  <1>4. CASE page' = page /\ loads' = loads
    BY <1>1, <1>2, <1>3, <1>4, <1>9, ShownKeeps
  <1>5. CASE page' = [page EXCEPT !.error = TRUE] /\ loads' = loads
    <2>1. /\ page' \in Page /\ page'.events = page.events
          /\ page'.loaded = page.loaded /\ page'.error
      BY <1>2, <1>5 DEF Page
    <2> QED
      BY <1>1, <1>2, <1>3, <1>5, <1>9, <2>1, ShownKeeps
  <1>6. ASSUME s # None PROVE s \in Sessions /\ ConversationOf[s] \in Conversations
    BY <1>2, <1>6 DEF Conversations
  <1>7. CASE s # None /\ page' = p /\ loads' = Loading(s)
    <2>1. /\ page' \in Page /\ page'.loaded = s /\ page'.events = page.events
      BY <1>2, <1>6, <1>7 DEF Page
    <2>2. loads' \in Seq(Load) /\ LoadsAreTraces' /\ IsLoading(s)'
      BY <1>1, <1>6, <1>7, LoadSent
    <2>3. IsLoading(page.loaded)'
      BY <1>1, <2>1, <2>2 DEF IsLoading
    <2> QED
      BY <1>1, <1>3, <1>6, <1>7, <2>1, <2>2, <2>3, SelectedKeeps
  <1>8. CASE s # None /\ page' = q /\ loads' = loads
    <2>1. /\ page' \in Page /\ page'.loaded = s /\ page'.events = page.events
          /\ page'.error
      BY <1>2, <1>6, <1>8 DEF Page
    <2>2. LoadsAreTraces'
      BY <1>1, <1>8 DEF TraceInv, LoadsAreTraces
    <2> QED
      BY <1>1, <1>2, <1>3, <1>6, <1>8, <2>1, <2>2, SelectedKeeps
  <1> QED
    BY <1>4, <1>5, <1>7, <1>8 DEF ApplyTraceQuery

\* Setting the events selects the last one, if any (setEvents).
LEMMA SetEventsShows ==
    ASSUME NEW p \in Page, NEW events \in Seq(Event)
    PROVE  SetEvents(p, events) \in Page /\ SetEvents(p, events).events = events
  <1>1. events # <<>> => Last(events) \in Event
    BY DEF Last
  <1> QED
    BY <1>1 DEF Page, SetEvents

\* The live events begin with none (selectLiveEvents).
LEMMA SelectLiveEventsKeeps ==
    ASSUME TraceInv, SelectLiveEvents
    PROVE  TraceInv'
  <1>1. /\ UNCHANGED <<trace, posting, overdue, late, connection, queue, navigation, asked, index, loads>>
        /\ page' = [SetEvents(page, <<>>) EXCEPT !.loaded = None, !.conversation = None]
        /\ query' = [session |-> None, conversation |-> None]
        /\ crossed' = IsCrossed'
    BY DEF SelectLiveEvents, agentVars, streamVars, indexVars
  <1>2. page \in Page
    BY Elements DEF TraceInv
  <1>3. page' \in Page /\ page'.events = <<>> /\ page'.loaded = None
    <2> DEFINE p == SetEvents(page, <<>>)
    <2>1. p \in Page /\ p.events = <<>>
      BY <1>2, EmptySeq, SetEventsShows
    <2>2. None \in Conversations
      BY DEF Conversations
    <2> HIDE DEF p
    <2>3. page' = [p EXCEPT !.loaded = None, !.conversation = None]
      BY <1>1 DEF p
    <2> QED
      BY <2>1, <2>2, <2>3 DEF Page
  <1>4. TraceTypeOK'
    BY <1>1, <1>3 DEF TraceInv, TraceTypeOK, Conversations, IsCrossed
  <1>5. PostsArePast' /\ LiveInOrder' /\ LoadsAreTraces' /\ OneTrace' /\ ShowsWhatIsLoaded' /\ CrossingIsNoticed'
    BY <1>1, <1>3 DEF TraceInv, PostsArePast, LiveInOrder, IsPosted, Precedes, LoadsAreTraces,
                      OneTrace, ShowsWhatIsLoaded, CrossingIsNoticed
  <1> QED
    BY <1>4, <1>5 DEF TraceInv

\* A load that moves on: what the others are stays as it is.
LEMMA LoadMoves ==
    ASSUME TraceInv, NEW i \in DOMAIN loads, NEW load \in Load,
           load.session = loads[i].session,
           loads' = [loads EXCEPT ![i] = load], trace' = trace,
           load.opened => load.served /\ load.ok,
           load.served /\ load.ok =>
             \E k \in 0..trace[load.session] : load.answer = TraceOf(load.session, k)
    PROVE  /\ loads' \in Seq(Load) /\ LoadsAreTraces'
           /\ DOMAIN loads' = DOMAIN loads /\ loads'[i] = load
           /\ \A j \in DOMAIN loads :
                loads'[j].session = loads[j].session /\ (j # i => loads'[j] = loads[j])
  <1>1. loads \in Seq(Load)
    BY Elements DEF TraceInv
  <1>2. /\ loads' \in Seq(Load) /\ DOMAIN loads' = DOMAIN loads
        /\ \A j \in DOMAIN loads : j # i => loads'[j] = loads[j]
        /\ loads'[i] = load
    BY <1>1
  <1>3. LoadsAreTraces'
    <2> SUFFICES ASSUME NEW j \in DOMAIN loads
                 PROVE  /\ loads'[j].opened => loads'[j].served /\ loads'[j].ok
                        /\ loads'[j].served /\ loads'[j].ok =>
                             \E k \in 0..trace[loads'[j].session] :
                               loads'[j].answer = TraceOf(loads'[j].session, k)
      BY <1>2 DEF LoadsAreTraces
    <2>1. CASE j # i
      BY <2>1, <1>2 DEF TraceInv, LoadsAreTraces
    <2>2. CASE j = i
      BY <2>2, <1>2
    <2> QED
      BY <2>1, <2>2
  <1> QED
    BY <1>2, <1>3

\* A load is answered with the trace as it is, or fails (loadSelectedSession).
LEMMA LoadServedKeeps ==
    ASSUME TraceInv, NEW i \in DOMAIN loads, LoadServed(i)
    PROVE  TraceInv'
  <1> DEFINE s == loads[i].session
             answer == TraceOf(s, trace[s])
             good == [loads[i] EXCEPT !.served = TRUE, !.answer = answer]
             bad == [loads[i] EXCEPT !.served = TRUE, !.ok = FALSE]
  <1>1. /\ UNCHANGED <<trace, posting, overdue, late, connection, queue, query, navigation, asked, index, page,
                        crossed>>
        /\ ~loads[i].served
        /\ \/ loads' = [loads EXCEPT ![i] = good]
           \/ loads' = [loads EXCEPT ![i] = bad]
    BY DEF LoadServed, agentVars, streamVars, indexVars
  <1>2. /\ loads \in Seq(Load) /\ loads[i] \in Load /\ s \in Sessions /\ trace[s] \in Nat
        /\ ~loads[i].opened
    BY <1>1, Elements DEF TraceInv, TraceTypeOK, LoadsAreTraces
  <1>3. answer \in Seq(Event) /\ trace[s] \in 0..trace[s]
    <2>1. answer \in Seq(Event)
      BY <1>2, TraceOfIsATrace
    <2>2. trace[s] \in 0..trace[s]
      BY <1>2
    <2> QED
      BY <2>1, <2>2
  <1>4. \E k \in 0..trace[s] : answer = TraceOf(s, k)
    BY <1>3
  <1> HIDE DEF answer
  <1>5. good \in Load /\ good.session = s /\ good.answer = answer /\ ~good.opened
    BY <1>2, <1>3 DEF Load
  <1>6. bad \in Load /\ bad.session = s /\ ~bad.ok /\ ~bad.opened
    BY <1>2 DEF Load
  <1>7. PICK load \in Load :
          /\ loads' = [loads EXCEPT ![i] = load]
          /\ load.session = s
          /\ ~load.opened
          /\ load.ok => load.answer = answer
    BY <1>1, <1>5, <1>6
  <1> HIDE DEF good, bad
  <1>8. /\ loads' \in Seq(Load) /\ LoadsAreTraces'
        /\ DOMAIN loads' = DOMAIN loads /\ loads'[i] = load
        /\ \A j \in DOMAIN loads :
             loads'[j].session = loads[j].session /\ (j # i => loads'[j] = loads[j])
    BY <1>1, <1>4, <1>7, LoadMoves
  <1>9. TraceTypeOK'
    BY <1>1, <1>8 DEF TraceInv, TraceTypeOK
  <1>10. PostsArePast' /\ LiveInOrder' /\ OneTrace'
    BY <1>1 DEF TraceInv, PostsArePast, LiveInOrder, IsPosted, Precedes, OneTrace
  <1>11. IsLoading(page.loaded)' <=> IsLoading(page.loaded)
    BY <1>1, <1>8 DEF IsLoading
  <1>12. ShowsWhatIsLoaded'
    BY <1>1, <1>11, Zenon DEF TraceInv, ShowsWhatIsLoaded
  <1>13. CrossingIsNoticed'
    BY <1>1, <1>7, <1>8 DEF TraceInv, CrossingIsNoticed, IsCrossed
  <1> QED
    BY <1>8, <1>9, <1>10, <1>12, <1>13 DEF TraceInv

\* The head of the answer names the run, which is still loading
\* (loadSelectedSession).
LEMMA LoadOpenedKeeps ==
    ASSUME TraceInv, NEW i \in DOMAIN loads, LoadOpened(i)
    PROVE  TraceInv'
  <1> DEFINE s == loads[i].session
             load == [loads[i] EXCEPT !.opened = TRUE]
  <1>1. /\ UNCHANGED <<trace, posting, overdue, late, connection, queue, query, navigation, asked, index>>
        /\ loads[i].served /\ loads[i].ok
        /\ page' = [page EXCEPT !.loaded = s]
        /\ loads' = [loads EXCEPT ![i] = load]
        /\ Crosses
    BY DEF LoadOpened, agentVars, streamVars, indexVars
  <1>2. page \in Page /\ loads[i] \in Load /\ s \in Sessions
    BY Elements DEF TraceInv
  <1>3. /\ page' \in Page /\ page'.loaded = s /\ page'.events = page.events
    BY <1>1, <1>2 DEF Page
  <1>4. /\ load \in Load /\ load.session = s /\ load.answer = loads[i].answer
        /\ load.served /\ load.ok
    BY <1>1, <1>2 DEF Load
  <1>5. \E k \in 0..trace[s] : load.answer = TraceOf(s, k)
    BY <1>1, <1>4 DEF TraceInv, LoadsAreTraces
  <1> HIDE DEF load
  <1>6. /\ loads' \in Seq(Load) /\ LoadsAreTraces'
        /\ DOMAIN loads' = DOMAIN loads /\ loads'[i] = load
    BY <1>1, <1>4, <1>5, LoadMoves
  <1>7. IsLoading(page.loaded)'
    BY <1>3, <1>4, <1>6 DEF IsLoading
  <1>8. TraceTypeOK'
    BY <1>1, <1>3, <1>6, CrossesIsBoolean DEF TraceInv, TraceTypeOK
  <1> QED
    BY <1>1, <1>2, <1>3, <1>6, <1>7, <1>8, SelectedKeeps

\* A load that has ended leaves the others as they are.
LEMMA LoadEnded ==
    ASSUME TraceInv, NEW i \in DOMAIN loads, loads' = RemoveAt(loads, i), trace' = trace
    PROVE  /\ loads' \in Seq(Load) /\ LoadsAreTraces'
           /\ \A j \in DOMAIN loads' : \E k \in DOMAIN loads : loads'[j] = loads[k]
  <1>1. loads \in Seq(Load)
    BY Elements DEF TraceInv
  <1>2. /\ loads' \in Seq(Load)
        /\ \A j \in DOMAIN loads' : \E k \in DOMAIN loads \ {i} : loads'[j] = loads[k]
    BY <1>1, RemoveAtKeeps
  <1>3. LoadsAreTraces'
    BY <1>2 DEF TraceInv, LoadsAreTraces
  <1> QED
    BY <1>2, <1>3

\* The answer is shown, whatever was selected meanwhile: under the name of its
\* session, unless another selection has crossed it (loadSelectedSession).
LEMMA SessionLoadedKeeps ==
    ASSUME TraceInv, NEW i \in DOMAIN loads, SessionLoaded(i)
    PROVE  TraceInv'
  <1> DEFINE s == loads[i].session
             answer == loads[i].answer
  <1>1. /\ UNCHANGED <<trace, posting, overdue, late, connection, queue, query, navigation, asked, index>>
        /\ loads[i].opened
        /\ page' = SetEvents(page, answer)
        /\ loads' = RemoveAt(loads, i)
        /\ crossed' = IF s = page.loaded THEN IsCrossed' ELSE crossed
    BY DEF SessionLoaded, agentVars, streamVars, indexVars
  <1>2. page \in Page /\ loads[i] \in Load /\ s \in Sessions /\ answer \in Seq(Event)
    BY Elements DEF TraceInv, Load
  <1>3. PICK k \in 0..trace[s] : answer = TraceOf(s, k)
    BY <1>1 DEF TraceInv, LoadsAreTraces
  <1>4. k \in Nat /\ trace[s] \in Nat
    BY <1>2 DEF TraceInv, TraceTypeOK
  <1>5. s # page.loaded => crossed
    BY <1>1 DEF TraceInv, CrossingIsNoticed, IsCrossed
  <1> HIDE DEF answer
  <1>6. page' \in Page /\ page'.events = answer /\ page'.loaded = page.loaded
    <2>1. page' \in Page /\ page'.events = answer
      BY <1>1, <1>2, SetEventsShows
    <2>2. page'.loaded = page.loaded
      BY <1>1, <1>2 DEF SetEvents, Page
    <2> QED
      BY <2>1, <2>2
  <1> HIDE DEF s
  <1>7. /\ loads' \in Seq(Load) /\ LoadsAreTraces'
        /\ \A j \in DOMAIN loads' : \E m \in DOMAIN loads : loads'[j] = loads[m]
    BY <1>1, LoadEnded
  <1>8. TraceTypeOK'
    <2>1. crossed' \in BOOLEAN
      BY <1>1 DEF TraceInv, TraceTypeOK, IsCrossed
    <2> QED
      BY <1>1, <1>6, <1>7, <2>1 DEF TraceInv, TraceTypeOK
  <1>9. s # None
    BY <1>2, ViewerAssumption
  <1>10. PostsArePast' /\ LiveInOrder'
    <2>1. ~(page.loaded = None /\ ~crossed)'
      BY <1>1, <1>5, <1>6, <1>9
    <2> QED
      BY <1>1, <2>1 DEF TraceInv, PostsArePast, LiveInOrder, IsPosted, Precedes
  <1>11. OneTrace'
    BY <1>1, <1>2, <1>3, <1>4, <1>6, TraceOfIsOneTrace DEF OneTrace, Precedes
  <1>12. ShowsWhatIsLoaded'
    <2>1. CASE s = page.loaded
      BY <1>1, <1>3, <1>6, <2>1, Zenon DEF ShowsWhatIsLoaded
    <2>2. CASE s # page.loaded
      BY <1>1, <1>5, <2>2 DEF ShowsWhatIsLoaded
    <2> QED
      BY <2>1, <2>2
  <1>13. CrossingIsNoticed'
    <2>1. CASE s = page.loaded
      BY <1>1, <2>1 DEF CrossingIsNoticed
    <2>2. CASE s # page.loaded
      BY <1>1, <1>5, <2>2 DEF CrossingIsNoticed
    <2> QED
      BY <2>1, <2>2
  <1> QED
    BY <1>7, <1>8, <1>10, <1>11, <1>12, <1>13 DEF TraceInv

\* A failed load shows an error (loadSelectedSession).
LEMMA SessionLoadFailedKeeps ==
    ASSUME TraceInv, NEW i \in DOMAIN loads, SessionLoadFailed(i)
    PROVE  TraceInv'
  <1>1. /\ UNCHANGED <<trace, posting, overdue, late, connection, queue, query, navigation, asked, index,
                        crossed>>
        /\ page' = [page EXCEPT !.error = TRUE]
        /\ loads' = RemoveAt(loads, i)
    BY DEF SessionLoadFailed, agentVars, streamVars, indexVars
  <1>2. page \in Page
    BY Elements DEF TraceInv
  <1>3. /\ page' \in Page /\ page'.events = page.events /\ page'.loaded = page.loaded
        /\ page'.error = TRUE
    BY <1>1, <1>2 DEF Page
  <1>4. /\ loads' \in Seq(Load) /\ LoadsAreTraces'
        /\ \A j \in DOMAIN loads' : \E k \in DOMAIN loads : loads'[j] = loads[k]
    BY <1>1, LoadEnded
  <1>5. TraceTypeOK'
    BY <1>1, <1>3, <1>4 DEF TraceInv, TraceTypeOK
  <1>6. PostsArePast' /\ LiveInOrder' /\ OneTrace'
    BY <1>1, <1>3 DEF TraceInv, PostsArePast, LiveInOrder, IsPosted, Precedes, OneTrace
  <1>7. ShowsWhatIsLoaded'
    BY <1>3 DEF ShowsWhatIsLoaded
  <1>8. CrossingIsNoticed'
    BY <1>1, <1>3, <1>4 DEF TraceInv, CrossingIsNoticed, IsCrossed
  <1> QED
    BY <1>4, <1>5, <1>6, <1>7, <1>8 DEF TraceInv

-----------------------------------------------------------------------------
(* The theorems. *)

\* Every step preserves the strengthening, action by action.
LEMMA TraceStep == TraceInv /\ [Next]_vars => TraceInv'
  <1> SUFFICES ASSUME TraceInv, [Next]_vars
               PROVE  TraceInv'
    OBVIOUS
  <1>1. ASSUME NEW s \in Sessions, \/ Emit(s) \/ Post(s) \/ PostFails(s) \/ PostTakenLate(s)
                                 \/ SelectTrace(s)
        PROVE  TraceInv'
    BY <1>1, AgentStepKeeps, SelectTraceKeeps
  <1>2. CASE Connect \/ Disconnect
    BY <1>2, ConnectionKeeps
  <1>3. CASE LiveEvent
    BY <1>3, LiveEventKeeps
  <1>4. ASSUME NEW i \in DOMAIN page.events, SelectEvent(i)
        PROVE  TraceInv'
    BY <1>4, SelectEventKeeps
  <1>5. CASE NavigationServed \/ NavigationFails
    BY <1>5, NavigationKeeps
  <1>6. CASE ApplyTraceQuery
    BY <1>6, ApplyTraceQueryKeeps
  <1>7. CASE SelectLiveEvents
    BY <1>7, SelectLiveEventsKeeps
  <1>8. ASSUME NEW i \in DOMAIN loads,
               \/ LoadServed(i) \/ LoadOpened(i)
               \/ SessionLoaded(i) \/ SessionLoadFailed(i)
        PROVE  TraceInv'
    BY <1>8, LoadServedKeeps, LoadOpenedKeeps, SessionLoadedKeeps, SessionLoadFailedKeeps
  <1>9. CASE UNCHANGED vars
    BY <1>9 DEF vars, TraceInv, TraceTypeOK, PostsArePast, LiveInOrder, IsPosted, Precedes,
                LoadsAreTraces, Precedes, OneTrace, ShowsWhatIsLoaded, IsLoading,
                CrossingIsNoticed, IsCrossed
  <1> QED
    BY <1>1, <1>2, <1>3, <1>4, <1>5, <1>6, <1>7, <1>8, <1>9 DEF Next

\* The strengthening is an invariant: what is shown live, queued and still to be
\* posted follow one another, and an answered load holds a prefix of its trace
\* (sinks.py, stream.py, app.ts).
THEOREM TraceInvHolds == Spec => []TraceInv
  <1>1. TraceInv /\ [Next]_vars => TraceInv'
    BY TraceStep
  <1> QED
    BY TraceInit, <1>1, PTL DEF Spec

\* The page never mixes two runs and, but for a crossed selection, never shows an
\* event twice or out of order (nextLiveEvents, setEvents).
THEOREM ShowsOneTrace == Spec => []OneTrace
  <1>1. TraceInv => OneTrace
    BY DEF TraceInv
  <1> QED
    BY <1>1, TraceInvHolds, PTL

\* What the header names is what is shown, a prefix of the trace file, but for a
\* crossed selection (selectTrace, loadSelectedSession).
THEOREM ShowsItsOwnName == Spec => []ShowsWhatIsLoaded
  <1>1. TraceInv => ShowsWhatIsLoaded
    BY DEF TraceInv
  <1> QED
    BY <1>1, TraceInvHolds, PTL
=============================================================================
