-------------------------- MODULE TraceProperties --------------------------
(***************************************************************************)
(* What the run viewer shows, whatever overtakes what.                     *)
(***************************************************************************)
EXTENDS TraceViewer

IsLoading(s) == \E i \in DOMAIN loads : loads[i].session = s

(* e may come before f in what the page is given: none twice, and an event *)
(* before an older one only if the agent had given up posting the older.   *)
Precedes(e, f) ==
  e.session = f.session =>
    e.step # f.step /\ (e.step < f.step \/ f.step \in late[f.session])

(* The events shown are always of one run, none of them twice: history and *)
(* live events, two live runs, lost posts and a reconnection never mix     *)
(* (nextLiveEvents).  They are in the order in which they happened, but    *)
(* for one whose post the agent gave up after 2 s and the server took      *)
(* later (LiveEventSink.emit).  Only when the header was changed while a   *)
(* trace was coming in can the live events be appended to a history        *)
(* (loadSelectedSession, selectLiveEvents).                                *)
OneTrace ==
  \A i, j \in DOMAIN page.events :
    i < j => /\ page.events[i].session = page.events[j].session
             /\ crossed \/ Precedes(page.events[i], page.events[j])

(* A run named in the header is what is shown, a prefix of its trace file  *)
(* without gaps, unless it is still being loaded or an error is shown: no  *)
(* live event and no load that comes back late leaves the header of one    *)
(* run over the events of another - but for a load whose answer has begun  *)
(* when the header is changed, which is where the page goes wrong          *)
(* (selectTrace, loadSelectedSession).                                     *)
ShowsWhatIsLoaded ==
  page.loaded # None /\ ~page.error /\ ~crossed /\ ~IsLoading(page.loaded) =>
    \E k \in 0..trace[page.loaded] : page.events = TraceOf(page.loaded, k)

-----------------------------------------------------------------------------
(* Why they hold: the strengthening that every step preserves. *)

Load == [session : Sessions, answer : Seq(Event), served : BOOLEAN, ok : BOOLEAN,
         opened : BOOLEAN]

Page == [events : Seq(Event), selected : Event \union {NoEvent},
         loaded : Sessions \union {None}, conversation : Conversations,
         error : BOOLEAN]

(* The variables keep their shapes. *)
TraceTypeOK ==
  /\ trace \in [Sessions -> Nat]
  /\ posting \in [Sessions -> BOOLEAN]
  /\ {overdue, late} \subseteq [Sessions -> SUBSET Nat]
  /\ connection \in {"up", "down"}
  /\ queue \in Seq(Event)
  /\ query \in [session : Sessions \union {None}, conversation : Conversations]
  /\ asked \in {"sent", "answered", "done"}
  /\ {navigation, index} \subseteq [Sessions -> Listing]
  /\ page \in Page
  /\ loads \in Seq(Load)
  /\ crossed \in BOOLEAN

(* What was given up is in the file, and not what the agent is posting.    *)
PostsArePast ==
  \A s \in Sessions :
    /\ overdue[s] \union late[s] \subseteq 1..trace[s]
    /\ posting[s] => trace[s] \in (1..trace[s]) \ (overdue[s] \union late[s])

(* An event on its way or shown live has been posted: it is in the file,   *)
(* and neither about to be posted nor overdue.                             *)
IsPosted(e) ==
  /\ e.step <= trace[e.session]
  /\ posting[e.session] => e.step < trace[e.session]
  /\ e.step \notin overdue[e.session]

(* What is shown live and what the broker holds follow one another in      *)
(* every run.                                                              *)
LiveInOrder ==
  /\ \A i \in DOMAIN queue : IsPosted(queue[i])
  /\ \A i, j \in DOMAIN queue : i < j => Precedes(queue[i], queue[j])
  /\ page.loaded = None /\ ~crossed =>
       \A i \in DOMAIN page.events :
         /\ IsPosted(page.events[i])
         /\ \A j \in DOMAIN queue : Precedes(page.events[i], queue[j])

(* A load that was answered holds a prefix of its trace; one whose answer  *)
(* has begun was answered.                                                 *)
LoadsAreTraces ==
  \A i \in DOMAIN loads :
    /\ loads[i].opened => loads[i].served /\ loads[i].ok
    /\ loads[i].served /\ loads[i].ok =>
         \E k \in 0..trace[loads[i].session] :
           loads[i].answer = TraceOf(loads[i].session, k)

(* The history variable misses no crossing. *)
CrossingIsNoticed == IsCrossed => crossed

TraceInv ==
  /\ TraceTypeOK
  /\ PostsArePast
  /\ LiveInOrder
  /\ LoadsAreTraces
  /\ CrossingIsNoticed
  /\ OneTrace
  /\ ShowsWhatIsLoaded
=============================================================================
