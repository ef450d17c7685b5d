---------------------------- MODULE StatusLookup ----------------------------
(***************************************************************************)
(* An applicant asks for the state of an application, with its reference   *)
(* and a mobile number, while its commune's draw is run, announced and     *)
(* amended.  A lookup passes two counters of failures, reads and verifies  *)
(* the application, and only then reads the draw, which decides how much   *)
(* of the application's status may be told.                                *)
(*                                                                         *)
(* Abstracted: whether the number given is the one on the application is   *)
(* one bit; one window of each counter; a counter stops at MaxCounted, so  *)
(* far above its limit that no verdict changes.  The application's place   *)
(* in the draw stands for the winners and the reserves of the result.      *)
(***************************************************************************)
EXTENDS Naturals, FiniteSets, DrawLifecycle

CONSTANTS
  Applications, Unknown,     \* references; one that names no application
  Visitors, Addresses,
  AddressOf,                 \* [Visitors -> Addresses]
  AddressLimit, ReferenceLimit, MaxCounted,
  None

TypedReferences == Applications \cup {Unknown}
Outcomes == {"SELECTED", "RESERVE", "NOT_SELECTED"}

LookupAssumption ==
  /\ Unknown \notin Applications /\ None \notin TypedReferences
  /\ IsFiniteSet(Visitors) /\ AddressOf \in [Visitors -> Addresses]
  /\ AddressLimit \in Nat /\ ReferenceLimit \in Nat /\ MaxCounted \in Nat
  /\ \A limit \in {AddressLimit, ReferenceLimit} : MaxCounted >= limit + Cardinality(Visitors)

VARIABLES
  draw,       \* status of the commune's draw, and whether its result is published
  app,        \* [application -> its status]
  abandoned,  \* winners who gave up their place
  promoted,   \* reserves who took one
  page,       \* [visitor -> the form, or what it shows]
  last,       \* [visitor -> [application -> the last answer, or None]]
  byAddress, byReference,   \* failures counted
  minted      \* [address -> references it has put into the second counter]

vars == <<draw, app, abandoned, promoted, page, last, byAddress, byReference, minted>>
limits == <<byAddress, byReference, minted>>

Form == [state |-> "form", ref |-> None, right |-> FALSE, read |-> None, answer |-> None]

Init ==
  /\ draw = [status |-> "READY", published |-> FALSE]
  /\ app \in [Applications -> {"PENDING", "ELIGIBLE", "INELIGIBLE"}]
  /\ abandoned = {} /\ promoted = {}
  /\ page = [v \in Visitors |-> Form]
  /\ last = [v \in Visitors |-> [a \in Applications |-> None]]
  /\ byAddress = [x \in Addresses |-> 0]
  /\ byReference = [r \in TypedReferences |-> 0]
  /\ minted = [x \in Addresses |-> {}]

(***************************************************************************)
(* The draw.                                                               *)
(***************************************************************************)
Lifecycle(to) ==
  /\ CanTransitionCommuneDraw(draw.status, to) /\ to # "COMPLETED"
  /\ draw' = [draw EXCEPT !.status = to]
  /\ UNCHANGED <<app, abandoned, promoted, page, last, limits>>

\* An execution writes an outcome onto every application of the pool.
Execute ==
  /\ CanTransitionCommuneDraw(draw.status, "COMPLETED")
  /\ draw' = [draw EXCEPT !.status = "COMPLETED"]
  /\ \E outcome \in [Applications -> Outcomes] :
       app' = [a \in Applications |-> IF app[a] = "ELIGIBLE" THEN outcome[a] ELSE app[a]]
  /\ UNCHANGED <<abandoned, promoted, page, last, limits>>

Publish ==
  /\ draw.status = "COMPLETED"
  /\ draw' = [draw EXCEPT !.published = TRUE]
  /\ UNCHANGED <<app, abandoned, promoted, page, last, limits>>

\* The application of a winner who gives up the place keeps its status.
Abandon(a) ==
  /\ app[a] = "SELECTED" /\ a \notin abandoned \cup promoted
  /\ abandoned' = abandoned \cup {a}
  /\ UNCHANGED <<draw, app, promoted, page, last, limits>>

Promote(a) ==
  /\ app[a] = "RESERVE" /\ Cardinality(promoted) < Cardinality(abandoned)
  /\ app' = [app EXCEPT ![a] = "SELECTED"] /\ promoted' = promoted \cup {a}
  /\ UNCHANGED <<draw, abandoned, page, last, limits>>

(***************************************************************************)
(* The lookup.                                                             *)
(***************************************************************************)
\* Faulty: an outcome may be told as soon as there is one, but for a reserve's.
PublicStatusOfWinners(status, resultsPublished) ==
  CASE status = "PENDING"    -> "SUBMITTED"
    [] status = "ELIGIBLE"   -> "IN_DRAW"
    [] status = "INELIGIBLE" -> "NOT_ELIGIBLE"
    [] status = "RESERVE"    -> IF resultsPublished THEN "RESERVE" ELSE "AWAITING_RESULTS"
    [] status \in {"SELECTED", "NOT_SELECTED"} -> status

ToPublicApplicationStatus(status, resultsPublished) ==
  CASE status = "PENDING"    -> "SUBMITTED"
    [] status = "ELIGIBLE"   -> "IN_DRAW"
    [] status = "INELIGIBLE" -> "NOT_ELIGIBLE"
    [] status \in Outcomes   -> IF resultsPublished THEN status ELSE "AWAITING_RESULTS"

Show(v, record) == page' = [page EXCEPT ![v] = record]

Count(counter) == IF counter < MaxCounted THEN counter + 1 ELSE counter
GiveBack(counter) == IF counter > 0 THEN counter - 1 ELSE 0

\* Both counters, the address first: a request over a limit goes no further.
Admit(v, ref) ==
  LET x == AddressOf[v] IN
  /\ byAddress' = [byAddress EXCEPT ![x] = Count(@)]
  /\ IF byAddress'[x] > AddressLimit
     THEN UNCHANGED <<byReference, minted>>
     ELSE /\ byReference' = [byReference EXCEPT ![ref] = Count(@)]
          /\ minted' = IF byReference'[ref] > ReferenceLimit
                       THEN [minted EXCEPT ![x] = @ \cup {ref}] ELSE minted

Refused(v, ref) ==
  byAddress'[AddressOf[v]] > AddressLimit \/ byReference'[ref] > ReferenceLimit

Submit(v) ==
  /\ page[v].state \in {"form", "failed"}
  /\ \E ref \in TypedReferences, right \in BOOLEAN :
       /\ ref = Unknown => ~ right
       /\ Admit(v, ref)
       /\ Show(v, IF Refused(v, ref) THEN [Form EXCEPT !.state = "failed"]
                  ELSE [Form EXCEPT !.state = "sent", !.ref = ref, !.right = right])
  /\ UNCHANGED <<draw, app, abandoned, promoted, last>>

\* The application and its number, or the one failure there is.
ReadApplication(v) ==
  /\ page[v].state = "sent"
  /\ IF page[v].right
     THEN /\ Show(v, [page[v] EXCEPT !.state = "verified", !.read = app[page[v].ref]])
          /\ UNCHANGED minted
     ELSE /\ Show(v, [Form EXCEPT !.state = "failed"])
          /\ minted' = [minted EXCEPT ![AddressOf[v]] = @ \cup {page[v].ref}]
  /\ UNCHANGED <<draw, app, abandoned, promoted, last, byAddress, byReference>>

\* Then the draw.  A lookup that succeeds costs nothing.
ReadDraw(v) ==
  /\ page[v].state = "verified"
  /\ LET answer == [status |-> ToPublicApplicationStatus(page[v].read, draw.published),
                    resultsPublished |-> draw.published]
     IN /\ Show(v, [page[v] EXCEPT !.state = "found", !.answer = answer])
        /\ last' = [last EXCEPT ![v][page[v].ref] = answer]
  /\ byAddress' = [byAddress EXCEPT ![AddressOf[v]] = GiveBack(@)]
  /\ byReference' = [byReference EXCEPT ![page[v].ref] = GiveBack(@)]
  /\ UNCHANGED <<draw, app, abandoned, promoted, minted>>

\* "Check another": the next person finds the form as it was.
CheckAnother(v) ==
  /\ page[v].state = "found"
  /\ Show(v, Form)
  /\ UNCHANGED <<draw, app, abandoned, promoted, last, limits>>

Next ==
  \/ \E to \in CommuneDrawStatus : Lifecycle(to)
  \/ Execute \/ Publish
  \/ \E a \in Applications : Abandon(a) \/ Promote(a)
  \/ \E v \in Visitors : Submit(v) \/ ReadApplication(v) \/ ReadDraw(v) \/ CheckAnother(v)

Spec == Init /\ [][Next]_vars

-----------------------------------------------------------------------------
(***************************************************************************)
(* Properties.                                                             *)
(***************************************************************************)
TypeOK ==
  /\ draw.status \in CommuneDrawStatus
  /\ draw.published => draw.status = "COMPLETED"
  /\ \A a \in Applications : app[a] \in Outcomes \cup {"PENDING", "ELIGIBLE", "INELIGIBLE"}
  /\ \A v \in Visitors :
       /\ page[v].state \in {"form", "sent", "verified", "found", "failed"}
       /\ page[v].state \in {"verified", "found"} => page[v].ref \in Applications
  /\ \A x \in Addresses : byAddress[x] <= MaxCounted /\ minted[x] \subseteq TypedReferences
  /\ \A r \in TypedReferences : byReference[r] <= MaxCounted

\* Whenever its two reads fall, a lookup tells an outcome only of a result that
\* is published; before, winners, reserves and the rest are told the same.
NoEarlyOutcome ==
  \A v \in Visitors, a \in Applications :
    last[v][a] # None /\ last[v][a].status \in Outcomes => draw.published

Rank(status) ==
  CASE status \in {"SUBMITTED", "NOT_ELIGIBLE", "IN_DRAW"} -> 0
    [] status = "AWAITING_RESULTS" -> 1
    [] status = "RESERVE" -> 2
    [] status \in {"SELECTED", "NOT_SELECTED"} -> 3

\* An applicant who asks again is never told less, nor something else, than
\* before: good news is not taken back.
AnswersNeverGoBack ==
  [][\A v \in Visitors, a \in Applications :
       LET old == last[v][a] new == last'[v][a] IN
       old # None => /\ old.resultsPublished => new.resultsPublished
                     /\ new.status = old.status \/ Rank(new.status) > Rank(old.status)]_vars

\* The second counter is keyed by what callers choose; one address cannot make
\* it grow by more than its own limit.
KeysAreBounded == \A x \in Addresses : Cardinality(minted[x]) <= AddressLimit

\* public-status.ts: SELECTED means that the application holds a place.
SelectedHoldsAPlace ==
  [][\A v \in Visitors :
       LET a == page[v].ref IN
       page[v].state = "sent" /\ page'[v].state = "verified" /\ draw.published =>
         (ToPublicApplicationStatus(app[a], TRUE) = "SELECTED" => a \notin abandoned)]_vars
==============================================================================
