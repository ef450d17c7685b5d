----------------------------- MODULE DrawConsole -----------------------------
(***************************************************************************)
(* One commune's draw on the pages of the administrators: what each page   *)
(* loaded, what it therefore offers, and what the server makes of it.  A   *)
(* page loads the draw, its pool and its result in three requests, keeps   *)
(* what it loaded until one of its own acts succeeds, and never hears of   *)
(* anybody else's.  The dialog that edits an allocation is apart: it loads *)
(* the draw itself and sends back the version it read.                     *)
(*                                                                         *)
(* Abstracted: the conditions a freeze and an execution check beyond the   *)
(* status of the draw (PoolFreeze, DrawCycle), which are met here; the     *)
(* steps inside the server's operations (DrawCycle, Reserves).  A request  *)
(* and its answer are one step: a view that grows old after it was loaded  *)
(* stands for one that was old when it arrived.                            *)
(***************************************************************************)
EXTENDS Integers, FiniteSets, DrawLifecycle

CONSTANTS
  Pages, National,       \* open pages; those of a national administrator
  Editors,               \* open dialogs that edit the allocation
  Winners, Positions,    \* 1 .. n: places won, and reserves
  Spots,                 \* allocations somebody may type
  Draw0,                 \* the draw at first
  MaxVersion,            \* changes of status and allocation before the freeze
  None, Loading

Reserves ==
  [Positions -> [status : {"WAITING", "CALLED", "ACCEPTED", "DECLINED"}, place : Winners \cup {None}]]

Draws == [status : CommuneDrawStatus, spots : Spots, version : Nat,
          pool : [spots : Spots] \cup {None}, published : BOOLEAN, abandoned : SUBSET Winners,
          reserve : Reserves]

\* A draw has a pool from its freeze on, and so many edits at most before.
IsDraw(d) ==
  /\ d \in Draws
  /\ d.pool # None <=> d.status \in {"LOCKED", "COMPLETED"}
  /\ d.version <= MaxVersion + (IF d.pool = None THEN 0 ELSE 1)

ConsoleAssumption ==
  /\ National \subseteq Pages
  /\ Winners \subseteq Nat \ {0} /\ Positions \subseteq Nat \ {0}
  /\ Spots \subseteq Nat \ {0} /\ MaxVersion \in Nat
  /\ None \notin [spots : Spots] /\ None \notin Spots
  /\ IsDraw(Draw0)

VARIABLES
  draw,        \* the rows: status, allocation, updatedAt, pool, result
  page,        \* what each page holds
  editor,      \* what each editing dialog holds
  last         \* the last act: what its dialog showed, what the server acted on

vars == <<draw, page, editor, last>>

Waiting == [status |-> "WAITING", place |-> None]

Blank == [draw |-> Loading, pool |-> Loading, result |-> Loading, live |-> None, dialog |-> None]

Init ==
  /\ draw = Draw0
  /\ page = [p \in Pages |-> Blank]
  /\ editor = [e \in Editors |-> None]
  /\ last = None

(***************************************************************************)
(* The server.                                                             *)
(***************************************************************************)
DrawView(d) == [status |-> d.status, spots |-> d.spots]
PoolView(d) == d.pool
ResultView(d) ==
  IF d.status # "COMPLETED" THEN None
  ELSE [published |-> d.published, abandoned |-> d.abandoned, reserve |-> d.reserve]

Holders(result, w) ==
  {r \in Positions : result.reserve[r].place = w /\ result.reserve[r].status # "DECLINED"}

NextWaiting(result) ==
  {r \in Positions : /\ result.reserve[r].status = "WAITING"
                     /\ \A s \in Positions : s < r => result.reserve[s].status # "WAITING"}

Vacant(result) == {w \in result.abandoned : Holders(result, w) = {}}

Answers(d, r, status) == [d EXCEPT !.reserve[r].status = status]

Decline(d, r) == Answers(d, r, "DECLINED")

\* What each request makes of the draw, or None when the server refuses it.
Transition(d, to, national) ==
  IF /\ CanTransitionCommuneDraw(d.status, to) /\ IsAdministrativelySettable(to)
     /\ national \/ to \in {"DRAFT", "READY"}
  THEN [d EXCEPT !.status = to, !.version = @ + 1] ELSE None

FreezePool(d) ==
  IF d.pool # None THEN d
  ELSE IF d.status = "READY"
       THEN [d EXCEPT !.status = "LOCKED", !.version = @ + 1, !.pool = [spots |-> d.spots]]
       ELSE None

ExecuteDraw(d) == IF d.status = "LOCKED" THEN [d EXCEPT !.status = "COMPLETED"] ELSE None

PublishResult(d) == IF d.status = "COMPLETED" THEN [d EXCEPT !.published = TRUE] ELSE None

AbandonWinner(d, w) == IF w \in d.abandoned THEN None ELSE [d EXCEPT !.abandoned = @ \cup {w}]

CallReserve(d, r, w) ==
  IF w \in Vacant(d) /\ r \in NextWaiting(d)
  THEN [d EXCEPT !.reserve[r] = [status |-> "CALLED", place |-> w]] ELSE None

AcceptReserve(d, r) == IF d.reserve[r].status = "CALLED" THEN Answers(d, r, "ACCEPTED") ELSE None
DeclineReserve(d, r) == IF d.reserve[r].status = "CALLED" THEN Decline(d, r) ELSE None

Served(d, ask, national) ==
  CASE ask.kind = "transition" -> Transition(d, ask.to, national)
    [] ask.kind # "transition" /\ ~ national -> None
    [] national /\ ask.kind = "freeze"  -> FreezePool(d)
    [] national /\ ask.kind = "execute" -> ExecuteDraw(d)
    [] national /\ ask.kind = "publish" -> PublishResult(d)
    [] national /\ ask.kind = "abandon" -> AbandonWinner(d, ask.place)
    [] national /\ ask.kind = "call"    -> CallReserve(d, ask.reserve, ask.place)
    [] national /\ ask.kind = "accept"  -> AcceptReserve(d, ask.reserve)
    [] national /\ ask.kind = "decline" -> DeclineReserve(d, ask.reserve)

(***************************************************************************)
(* The page of one draw.                                                   *)
(***************************************************************************)
HoldOn(p, record) == page' = [page EXCEPT ![p] = record]

\* Each of the three answers arrives when it will; none waits for another.
Load(p, part) ==
  /\ page[p][part] = Loading
  /\ HoldOn(p, [page[p] EXCEPT ![part] =
       CASE part = "draw" -> DrawView(draw)
         [] part = "pool" -> PoolView(draw)
         [] part = "result" -> ResultView(draw)])
  /\ UNCHANGED <<draw, editor, last>>

\* The operator reloads the page.
Refresh(p) ==
  /\ HoldOn(p, Blank)
  /\ UNCHANGED <<draw, editor, last>>

CurrentResult(v) ==
  IF v.live # None THEN v.live ELSE IF v.result = Loading THEN None ELSE v.result

Called(result) == {r \in Positions : result.reserve[r].status = "CALLED"}

First(set) == CHOOSE x \in set : \A y \in set : x <= y

\* The bar above the reserves: one button, for the one thing there is to do.
OfferedForReserves(result) ==
  IF Called(result) # {}
  THEN {[kind |-> k, reserve |-> First(Called(result))] : k \in {"accept", "decline"}}
  ELSE {[kind |-> "call", reserve |-> r] : r \in {s \in NextWaiting(result) : Vacant(result) # {}}}

OfferedForResult(result) ==
  (IF result.published THEN {} ELSE {[kind |-> "publish"]})
  \cup {[kind |-> "abandon", place |-> w] : w \in Winners \ result.abandoned}
  \cup OfferedForReserves(result)

Executable(v) == v.draw.status = "LOCKED" /\ CurrentResult(v) = None

\* The buttons of a page whose draw is loaded.
Offered(v, national) ==
  {[kind |-> "transition", to |-> s] : s \in
     {t \in CommuneDrawStatus :
        /\ CanTransitionCommuneDraw(v.draw.status, t) /\ IsAdministrativelySettable(t)
        /\ national \/ t \in {"DRAFT", "READY"}}}
  \cup (IF national /\ v.draw.status = "READY" /\ v.pool = None THEN {[kind |-> "freeze"]} ELSE {})
  \cup (IF national /\ Executable(v) THEN {[kind |-> "execute"]} ELSE {})
  \cup (IF national /\ CurrentResult(v) # None THEN OfferedForResult(CurrentResult(v)) ELSE {})

OpenDialog(p) ==
  /\ page[p].draw # Loading /\ page[p].dialog = None
  /\ \E ask \in Offered(page[p], p \in National) : HoldOn(p, [page[p] EXCEPT !.dialog = ask])
  /\ UNCHANGED <<draw, editor, last>>

Dismiss(p) ==
  /\ page[p].dialog # None
  /\ HoldOn(p, [page[p] EXCEPT !.dialog = None])
  /\ UNCHANGED <<draw, editor, last>>

\* The place a call is for is looked up when it is confirmed.
Request(v) ==
  IF v.dialog.kind = "call"
  THEN [kind |-> "call", reserve |-> v.dialog.reserve, place |-> First(Vacant(CurrentResult(v)))]
  ELSE v.dialog

IsFresh(v) ==
  /\ v.draw = DrawView(draw) /\ v.pool = PoolView(draw)
  /\ CurrentResult(v) = ResultView(draw)

\* What the dialog put before the operator, and the same of the server's draw.
Facts(v, ask) ==
  CASE ask.kind = "freeze"  -> [spots |-> v.draw.spots]
    [] ask.kind = "execute" -> [spots |-> v.draw.spots,
                                pool |-> IF v.pool \in {None, Loading} THEN draw.pool ELSE v.pool]
    [] ask.kind \in {"accept", "decline"} -> [place |-> CurrentResult(v).reserve[ask.reserve].place]
    [] OTHER -> None

Truth(ask) ==
  CASE ask.kind = "freeze"  -> [spots |-> draw.spots]
    [] ask.kind = "execute" -> [spots |-> draw.spots, pool |-> draw.pool]
    [] ask.kind \in {"accept", "decline"} -> [place |-> draw.reserve[ask.reserve].place]
    [] OTHER -> None

\* A refusal leaves the dialog with its error; a success closes it and reloads
\* the page, or, in the panel of the result, shows the answer at once.
Confirm(p) ==
  LET v == page[p] IN
  /\ v.draw # Loading /\ v.dialog # None
  /\ v.dialog.kind = "transition" => draw.version < MaxVersion
  /\ LET ask == Request(v)
         next == Served(draw, ask, p \in National)
     IN /\ draw' = IF next = None THEN draw ELSE next
        /\ last' = [kind |-> ask.kind, accepted |-> next # None, fresh |-> IsFresh(v),
                    shown |-> Facts(v, ask), acted |-> Truth(ask)]
        /\ HoldOn(p, IF next = None THEN v
                     ELSE IF ask.kind \in {"abandon", "call", "accept", "decline"}
                     THEN [v EXCEPT !.dialog = None, !.live = ResultView(next)]
                     ELSE Blank)
  /\ UNCHANGED editor

(***************************************************************************)
(* The dialog that edits an allocation.                                    *)
(***************************************************************************)
Edit(e, record) == editor' = [editor EXCEPT ![e] = record]

OpenEditor(e) ==
  /\ editor[e] = None
  /\ Edit(e, [view |-> Loading, typed |-> None, seeded |-> FALSE, seen |-> None,
              failed |-> FALSE])
  /\ UNCHANGED <<draw, page, last>>

\* The input takes the value of the first answer, and of no later one.
LoadEditor(e) ==
  /\ editor[e] # None
  /\ editor[e].view = Loading
  /\ Edit(e, IF editor[e].seeded THEN [editor[e] EXCEPT !.view = draw]
             ELSE [editor[e] EXCEPT !.view = draw, !.typed = draw.spots, !.seeded = TRUE,
                                   !.seen = draw.spots])
  /\ UNCHANGED <<draw, page, last>>

Type(e) ==
  /\ editor[e] # None
  /\ editor[e].view # Loading
  /\ AllowsSpotChanges(editor[e].view.status)
  /\ \E n \in Spots : Edit(e, [editor[e] EXCEPT !.typed = n])
  /\ UNCHANGED <<draw, page, last>>

AcceptsVersion(version) == version = draw.version

Submit(e) ==
  /\ editor[e] # None
  /\ editor[e].view # Loading
  /\ AllowsSpotChanges(editor[e].view.status)
  /\ draw.version < MaxVersion
  /\ LET accepted == AllowsSpotChanges(draw.status) /\ AcceptsVersion(editor[e].view.version) IN
     /\ draw' = IF accepted THEN [draw EXCEPT !.spots = editor[e].typed, !.version = @ + 1] ELSE draw
     /\ Edit(e, IF accepted THEN None ELSE [editor[e] EXCEPT !.failed = TRUE])
     /\ last' = [kind |-> "edit", accepted |-> accepted,
                 fresh |-> editor[e].view.version = draw.version,
                 shown |-> [spots |-> editor[e].seen], acted |-> [spots |-> draw.spots]]
  /\ UNCHANGED page

\* "Try again", beside the error.
Retry(e) ==
  /\ editor[e] # None
  /\ editor[e].failed /\ editor[e].view # Loading
  /\ Edit(e, [editor[e] EXCEPT !.view = Loading])
  /\ UNCHANGED <<draw, page, last>>

CloseEditor(e) ==
  /\ editor[e] # None
  /\ Edit(e, None)
  /\ UNCHANGED <<draw, page, last>>

Next ==
  \/ \E p \in Pages :
       \/ \E part \in {"draw", "pool", "result"} : Load(p, part)
       \/ Refresh(p) \/ OpenDialog(p) \/ Dismiss(p) \/ Confirm(p)
  \/ \E e \in Editors :
       OpenEditor(e) \/ LoadEditor(e) \/ Type(e) \/ Submit(e) \/ Retry(e) \/ CloseEditor(e)

Spec == Init /\ [][Next]_vars

-----------------------------------------------------------------------------
(***************************************************************************)
(* Properties.                                                             *)
(***************************************************************************)
TypeOK ==
  /\ IsDraw(draw)
  /\ \A e \in Editors : editor[e] # None => editor[e].typed \in Spots \cup {None}

\* However old the page, a draw is executed on the allocation and on the pool
\* that its confirmation named: both were final before it could be offered.
ExecutesAsShown == last # None /\ last.kind = "execute" /\ last.accepted => last.shown = last.acted

\* A reserve's answer, given on whatever page, is for the place that page said
\* the reserve was called for.
AnswersForThePlaceShown ==
  last # None /\ last.kind \in {"accept", "decline"} /\ last.accepted => last.shown = last.acted

\* dialogs.tsx: a confirmation lists the facts the server will act on.  For a
\* freeze, the allocation that becomes final.
FreezesAsShown == last # None /\ last.kind = "freeze" /\ last.accepted => last.shown = last.acted

\* AdminCommunes: a conflict is not answered by sending the old value again.
\* An edit replaces an allocation its operator had before their eyes.
NoBlindOverwrite == last # None /\ last.kind = "edit" /\ last.accepted => last.shown = last.acted
==============================================================================
