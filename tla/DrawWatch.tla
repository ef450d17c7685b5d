------------------------------ MODULE DrawWatch ------------------------------
(***************************************************************************)
(* One visitor's page that watches a commune's draw: it polls the public   *)
(* draw status through shared caches until there is nothing to wait for.   *)
(* A poll arms the next one from its own answer.  The listener that        *)
(* restarts a watch when the tab comes back looks at the handle of the     *)
(* last timer only, which a poll clears before it asks.                    *)
(*                                                                         *)
(* Abstracted: the lengths of the intervals and of the back-off, the page  *)
(* of the result that is fetched once one is announced (PublicResults),    *)
(* and the requests of a watch that was cancelled, whose answers are       *)
(* dropped.  MaxFailures bounds the requests that fail, and the number of  *)
(* Requests how many watches may run side by side.                         *)
(***************************************************************************)
EXTENDS Naturals, FiniteSets, DrawLifecycle

CONSTANTS Communes, Requests, MaxFailures, None

WatchAssumption == MaxFailures \in Nat /\ IsFiniteSet(Requests) /\ None \notin Communes

VARIABLES
  draw,      \* [commune -> its draw: status, published]
  copy,      \* [commune -> the public row the shared caches serve]
  at,        \* the commune in the page's address
  shown,     \* the row the page shows, or None
  loading, failed, hidden, polling,
  armed,     \* timers that will fire
  handle,    \* is the last timer's handle kept?
  asked,     \* requests in flight
  answer,    \* [request -> the row it will bring, None until it is served]
  failures

page == <<at, shown, loading, failed, hidden, polling, armed, handle, asked, answer, failures>>
vars == <<draw, copy, page>>

\* toPublicDrawPhase.
Phase(status) ==
  CASE status \in {"DRAFT", "READY"} -> "ACCEPTING"
    [] status = "LOCKED" -> "ENTRIES_CLOSED"
    [] status = "COMPLETED" -> "DRAWN"
    [] status = "CANCELLED" -> "CANCELLED"

Row(c) == [commune |-> c, phase |-> Phase(draw[c].status), resultsPublished |-> draw[c].published]

\* Faulty: a draw that was held has nothing more to say.
SettledWhenDrawn(row) == row.phase \in {"CANCELLED", "DRAWN"}

\* nextInterval is null: stop asking.
Settled(row) == row.phase = "CANCELLED" \/ (row.phase = "DRAWN" /\ row.resultsPublished)

\* toWatchPhase.
Stage(row) ==
  IF row = None THEN "UNAVAILABLE"
  ELSE CASE row.phase \in {"ACCEPTING", "ENTRIES_CLOSED"} -> "WAITING"
         [] row.phase = "DRAWN" -> IF row.resultsPublished THEN "COMPLETED" ELSE "DRAWING"
         [] row.phase = "CANCELLED" -> "UNAVAILABLE"

Init ==
  /\ draw = [c \in Communes |-> [status |-> "READY", published |-> FALSE]]
  /\ copy = [c \in Communes |-> [commune |-> c, phase |-> "ACCEPTING", resultsPublished |-> FALSE]]
  /\ at = None /\ shown = None
  /\ loading = TRUE /\ failed = FALSE /\ hidden = FALSE /\ polling = TRUE
  /\ armed = 0 /\ handle = FALSE
  /\ asked = {} /\ answer = [r \in Requests |-> None]
  /\ failures = 0

(***************************************************************************)
(* The draws, and the caches in front of their status.                     *)
(***************************************************************************)
Advance(c) ==
  /\ \E to \in CommuneDrawStatus :
       /\ CanTransitionCommuneDraw(draw[c].status, to)
       /\ draw' = [draw EXCEPT ![c].status = to]
  /\ UNCHANGED <<copy, page>>

Publish(c) ==
  /\ draw[c].status = "COMPLETED" /\ ~ draw[c].published
  /\ draw' = [draw EXCEPT ![c].published = TRUE]
  /\ UNCHANGED <<copy, page>>

\* A cached listing reaches the end of its life.
Revalidate(c) ==
  /\ copy' = [copy EXCEPT ![c] = Row(c)]
  /\ UNCHANGED <<draw, page>>

(***************************************************************************)
(* The watch.                                                              *)
(***************************************************************************)
\* poll, with the requests already in flight for this watch.
Poll(live) ==
  /\ handle' = FALSE
  /\ IF hidden' THEN polling' = FALSE /\ asked' = live
     ELSE /\ \E r \in Requests \ live : asked' = live \cup {r}
          /\ UNCHANGED polling

\* schedule(delay): the handle kept is that of the last timer armed.
Schedule == polling' = TRUE /\ handle' = TRUE /\ armed' = armed + 1

\* Another address restarts the watch; what was shown stays until an answer.
Navigate(c) ==
  /\ c # at /\ at' = c
  /\ armed' = 0 /\ answer' = [r \in Requests |-> None]
  /\ UNCHANGED hidden
  /\ Poll({})
  /\ UNCHANGED <<draw, copy, shown, loading, failed, failures>>

\* The retry button of the error page.
Refetch ==
  /\ failed /\ shown = None /\ ~ loading
  /\ loading' = TRUE /\ armed' = 0
  /\ answer' = [r \in Requests |-> None]
  /\ UNCHANGED hidden
  /\ Poll({})
  /\ UNCHANGED <<draw, copy, at, shown, failed, failures>>

Fire ==
  /\ armed > 0 /\ armed' = armed - 1
  /\ UNCHANGED hidden
  /\ Poll(asked)
  /\ UNCHANGED <<draw, copy, at, shown, loading, failed, answer, failures>>

Hide ==
  /\ ~ hidden /\ hidden' = TRUE
  /\ UNCHANGED <<draw, copy, at, shown, loading, failed, polling, armed, handle, asked, answer, failures>>

\* onVisibilityChange.
Show ==
  /\ hidden /\ hidden' = FALSE
  /\ armed + Cardinality(asked) < Cardinality(Requests)
  /\ IF at # None /\ ~ handle THEN Poll(asked) ELSE UNCHANGED <<handle, polling, asked>>
  /\ UNCHANGED <<draw, copy, at, shown, loading, failed, armed, answer, failures>>

\* A request reaches a cache or the server.
Serve(r) ==
  /\ r \in asked /\ answer[r] = None
  /\ answer' = [answer EXCEPT ![r] = copy[at]]
  /\ UNCHANGED <<draw, copy, at, shown, loading, failed, hidden, polling, armed, handle, asked, failures>>

Arrive(r) ==
  /\ r \in asked /\ answer[r] # None
  /\ shown' = answer[r] /\ failed' = FALSE /\ loading' = FALSE
  /\ asked' = asked \ {r} /\ answer' = [answer EXCEPT ![r] = None]
  /\ IF Settled(answer[r])
     THEN polling' = FALSE /\ UNCHANGED <<armed, handle>>
     ELSE Schedule
  /\ UNCHANGED <<draw, copy, at, hidden, failures>>

\* Faulty: a failure is the end of the watch.
FailForGood(r) ==
  /\ r \in asked /\ failures < MaxFailures
  /\ failures' = failures + 1 /\ failed' = TRUE /\ loading' = FALSE
  /\ asked' = asked \ {r} /\ answer' = [answer EXCEPT ![r] = None]
  /\ polling' = FALSE
  /\ UNCHANGED <<draw, copy, at, shown, hidden, armed, handle>>

\* A request fails: back off, and ask again.
Fail(r) ==
  /\ r \in asked /\ failures < MaxFailures
  /\ failures' = failures + 1 /\ failed' = TRUE /\ loading' = FALSE
  /\ asked' = asked \ {r} /\ answer' = [answer EXCEPT ![r] = None]
  /\ Schedule
  /\ UNCHANGED <<draw, copy, at, shown, hidden>>

Next ==
  \/ \E c \in Communes : Advance(c) \/ Publish(c) \/ Revalidate(c) \/ Navigate(c)
  \/ Refetch \/ Fire \/ Hide \/ Show
  \/ \E r \in Requests : Serve(r) \/ Arrive(r) \/ Fail(r)

Spec == Init /\ [][Next]_vars

\* Timers fire, caches expire, and a request is answered (or fails, at most
\* MaxFailures times).
FairSpec ==
  /\ Spec /\ WF_vars(Fire)
  /\ \A c \in Communes : WF_vars(Revalidate(c))
  /\ \A r \in Requests : WF_vars(Serve(r)) /\ WF_vars(Arrive(r))

-----------------------------------------------------------------------------
(***************************************************************************)
(* Properties.                                                             *)
(***************************************************************************)
TypeOK ==
  /\ at \in Communes \cup {None} /\ (shown = None \/ shown.commune \in Communes)
  /\ {loading, failed, hidden, polling, handle} \subseteq BOOLEAN
  /\ armed \in 0 .. Cardinality(Requests) /\ asked \subseteq Requests /\ handle => armed > 0
  /\ \A r \in Requests : r \notin asked => answer[r] = None
  /\ Stage(shown) \in {"WAITING", "DRAWING", "COMPLETED", "UNAVAILABLE"}

\* However tab and network interleave, a page in view that still has something
\* to wait for has a request on its way or a timer that will send one.
NeverForgotten ==
  at # None /\ ~ hidden /\ (shown = None \/ ~ Settled(shown)) => armed > 0 \/ asked # {}

\* The page never tells a visitor that it is watching when it will not ask
\* again.
SaysItWatches == at # None /\ ~ hidden /\ polling => armed > 0 \/ asked # {}

\* A visitor who keeps the page in view sees the announcement, whatever failed
\* before, came late or out of order.
AnnouncementArrives ==
  \A c \in Communes :
    (<>[](~ hidden /\ at = c) /\ <>(draw[c].published)) => <>[](Stage(shown) = "COMPLETED")

\* draw-watch.ts: a slow origin cannot accumulate overlapping requests.
OneRequestAtATime == Cardinality(asked) <= 1

\* public-ui.md: a published result is terminal; there is no retraction.
AnnouncedForGood ==
  [][at' = at /\ Stage(shown) = "COMPLETED" => Stage(shown') = "COMPLETED"]_vars

\* public-ui.md: it stops permanently once the draw is settled.
StopsForGood ==
  [][at' = at /\ shown # None /\ Settled(shown) /\ asked = {} => asked' = {}]_vars

\* public.ts: a settled answer belongs to the request it was fetched for, and a
\* page never shows another commune's.
ShowsItsCommune == ~ loading /\ shown # None => shown.commune = at
==============================================================================
