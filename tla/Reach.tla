-------------------------------- MODULE Reach --------------------------------
(***************************************************************************)
(* What administrators reach.  Every record of a commune, every request    *)
(* for a correction and every event of the trail is filed under a place,   *)
(* and every read intersects the reader's reach, as stored when the        *)
(* request was authenticated, with what was asked for.  An import has no   *)
(* place of its own: its rows have, and its events are filed under the     *)
(* reach of whoever uploaded it, as it is when the event is recorded.      *)
(*                                                                         *)
(* Abstracted: one record of each kind for a commune; what requests,       *)
(* imports and draws do (Corrections, LegacyImport, DrawCycle).  Accounts  *)
(* are moved, never disabled (AdminAccounts).                              *)
(***************************************************************************)
EXTENDS Naturals, FiniteSets

CONSTANTS
  Communes, Wilayas, WilayaOf,
  Admins, AppointedTo,   \* the accounts, and their reach at first
  Movable,               \* accounts that may be given another reach
  Readers,               \* accounts that open the listings
  Batches,
  National, None

Places == {National} \cup Wilayas \cup Communes

ReachAssumption ==
  /\ None \notin Places /\ National \notin Wilayas \cup Communes
  /\ Wilayas \cap Communes = {} /\ WilayaOf \in [Communes -> Wilayas]
  /\ AppointedTo \in [Admins -> Places] /\ Movable \subseteq Admins
  \* The bootstrap script's account; uploads have identifiers of their own.
  /\ \E a \in Admins : AppointedTo[a] = National
  /\ Batches \cap Communes = {}

VARIABLES
  place,    \* [account -> its reach: role, wilaya and commune]
  known,    \* [account -> the reach its request in progress was authenticated with]
  request,  \* [commune -> the request to correct its record: author, filed, status]
  batch,    \* [upload -> uploader, the communes its rows name, status]
  trail,    \* the events, told apart by what they are about and where they are filed
  page      \* [reader -> what it shows: items, asked by whom with which reach]

vars == <<place, known, request, batch, trail, page>>

\* scopeOfCommune, and NATIONAL_SCOPE.
ScopeOfCommune(c) == [wilaya |-> WilayaOf[c], commune |-> c]
NationalScope == [wilaya |-> None, commune |-> None]

\* uploaderScope: a reach, as a place to file under.
UploaderScope(p) ==
  IF p = National THEN NationalScope
  ELSE IF p \in Wilayas THEN [wilaya |-> p, commune |-> None]
  ELSE ScopeOfCommune(p)

\* communeScopeFilter and auditVisibility.
Within(p, filed) ==
  CASE p = National -> TRUE
    [] p \in Wilayas -> filed.wilaya = p
    [] p \in Communes -> filed.commune = p

\* intersectFilters.
IntersectFilters(ceiling, requested, items) ==
  {i \in items : Within(ceiling, i.filed) /\ Within(requested, i.filed)}

\* importRowScope: the rows of an import that an account is shown.
ImportRowScope(a, p, b) ==
  IF batch[b].uploader = a THEN batch[b].lands
  ELSE {c \in batch[b].lands : Within(p, ScopeOfCommune(c))}

\* batchVisibility.
BatchVisibility(a, p, b) ==
  p = National \/ batch[b].uploader = a \/ ImportRowScope(a, p, b) # {}

NoPage == [items |-> {}, reach |-> None, asked |-> None]

Init ==
  /\ place = AppointedTo
  /\ known = [a \in Admins |-> None]
  /\ request = [c \in Communes |-> None]
  /\ batch = [b \in Batches |-> None]
  /\ trail = {}
  /\ page = [r \in Readers |-> NoPage]

Entry(about, filed) == [about |-> about, filed |-> filed]
Record(about, filed) == trail' = trail \cup {Entry(about, filed)}

\* requireAuthenticatedUser: the account, as it is stored now.
Authenticate(a) ==
  /\ known[a] = None
  /\ known' = [known EXCEPT ![a] = place[a]]
  /\ UNCHANGED <<place, request, batch, trail, page>>

\* The request ends, whatever it did.
Answer(a) == known' = [known EXCEPT ![a] = None]

Finds(a, filed) == known[a] # None /\ Within(known[a], filed)

(***************************************************************************)
(* Reading.                                                                *)
(***************************************************************************)
RecordsOfCommunes == {Entry(c, ScopeOfCommune(c)) : c \in Communes}

Requests == {Entry(c, request[c].filed) : c \in {d \in Communes : request[d] # None}}

Items(kind) ==
  CASE kind = "commune" -> RecordsOfCommunes
    [] kind = "request" -> Requests
    [] kind = "event"   -> trail

List(a, kind, requested) ==
  /\ known[a] # None
  /\ page' = [page EXCEPT ![a] = [items |-> IntersectFilters(known[a], requested, Items(kind)),
                                  reach |-> known[a], asked |-> requested]]
  /\ Answer(a)
  /\ UNCHANGED <<place, request, batch, trail>>

(***************************************************************************)
(* Acting: every record is found through the reach first.                  *)
(***************************************************************************)
WorkOnDraw(a, c) ==
  /\ Finds(a, ScopeOfCommune(c))
  /\ Record(c, ScopeOfCommune(c))
  /\ Answer(a)
  /\ UNCHANGED <<place, request, batch, page>>

RequestCorrection(a, c) ==
  /\ Finds(a, ScopeOfCommune(c))
  /\ request[c] = None
  /\ request' = [request EXCEPT ![c] =
       [author |-> a, filed |-> ScopeOfCommune(c), status |-> "PENDING"]]
  /\ Record(c, ScopeOfCommune(c))
  /\ Answer(a)
  /\ UNCHANGED <<place, batch, page>>

\* Faulty: a withdrawal is filed where its author belongs.
WithdrawFromHome(a, c) ==
  /\ request[c] # None /\ request[c].status = "PENDING" /\ request[c].author = a
  /\ Finds(a, request[c].filed)
  /\ request' = [request EXCEPT ![c].status = "CANCELLED"]
  /\ Record(c, UploaderScope(known[a]))
  /\ Answer(a)
  /\ UNCHANGED <<place, batch, page>>

Withdraw(a, c) ==
  /\ request[c] # None /\ request[c].status = "PENDING" /\ request[c].author = a
  /\ Finds(a, request[c].filed)
  /\ request' = [request EXCEPT ![c].status = "CANCELLED"]
  /\ Record(c, request[c].filed)
  /\ Answer(a)
  /\ UNCHANGED <<place, batch, page>>

\* A national decision, never one's own.
Review(a, c) ==
  /\ known[a] = National
  /\ request[c] # None /\ request[c].status = "PENDING" /\ request[c].author # a
  /\ \E status \in {"APPROVED", "REJECTED"} : request' = [request EXCEPT ![c].status = status]
  /\ Record(c, request[c].filed)
  /\ Answer(a)
  /\ UNCHANGED <<place, batch, page>>

\* Rows that overreach are staged with an issue, and keep their commune.
Upload(a, b, lands) ==
  /\ known[a] # None /\ batch[b] = None
  /\ batch' = [batch EXCEPT ![b] =
       [uploader |-> a, lands |-> lands, status |-> "READY_FOR_REVIEW",
        refused |-> {c \in lands : ~ Within(known[a], ScopeOfCommune(c))}]]
  /\ Record(b, UploaderScope(known[a]))
  /\ Answer(a)
  /\ UNCHANGED <<place, request, page>>

\* The batch, and then its uploader, as stored now.  A refused row stops the
\* import, not its approval.
Settle(a, b, from, to) ==
  /\ known[a] = National
  /\ batch[b] # None /\ batch[b].status = from
  /\ to = "IMPORTED" \/ batch[b].uploader # a
  /\ to = "IMPORTED" => batch[b].refused = {}
  /\ batch' = [batch EXCEPT ![b].status = to]
  /\ Record(b, UploaderScope(place[batch[b].uploader]))
  /\ Answer(a)
  /\ UNCHANGED <<place, request, page>>

\* AdminAccountService: never oneself, and never the last national reach.
ChangeScope(a, other, p) ==
  /\ known[a] = National /\ other # a /\ place[other] # p
  /\ place[other] = National => \E o \in Admins \ {other} : place[o] = National
  /\ place' = [place EXCEPT ![other] = p]
  /\ Record(None, NationalScope)
  /\ Answer(a)
  /\ UNCHANGED <<request, batch, page>>

Next ==
  \E a \in Admins :
    \/ Authenticate(a)
    \/ \E c \in Communes :
         WorkOnDraw(a, c) \/ RequestCorrection(a, c) \/ Withdraw(a, c) \/ Review(a, c)
    \/ \E b \in Batches :
         \/ \E lands \in SUBSET Communes : Upload(a, b, lands)
         \/ \E to \in {"APPROVED", "REJECTED"} : Settle(a, b, "READY_FOR_REVIEW", to)
         \/ Settle(a, b, "APPROVED", "IMPORTED")
    \/ \E other \in Movable, p \in Places : ChangeScope(a, other, p)
    \/ /\ a \in Readers
       /\ \E kind \in {"commune", "request", "event"}, p \in Places : List(a, kind, p)

Spec == Init /\ [][Next]_vars

-----------------------------------------------------------------------------
(***************************************************************************)
(* Properties.                                                             *)
(***************************************************************************)
TypeOK ==
  /\ place \in [Admins -> Places] /\ known \in [Admins -> Places \cup {None}]
  /\ \E a \in Admins : place[a] = National
  /\ \A c \in Communes : request[c] # None =>
       request[c].author \in Admins /\ request[c].filed = ScopeOfCommune(c)
  /\ \A b \in Batches : batch[b] # None =>
       /\ batch[b].uploader \in Admins /\ batch[b].refused \subseteq batch[b].lands
       /\ batch[b].status = "IMPORTED" => batch[b].refused = {}

\* Whatever a listing is asked for, it shows nothing outside the reach it was
\* asked with, and a filter only takes away from what it shows without one.
FilterOnlyNarrows ==
  \A r \in Readers : \A i \in page[r].items :
    Within(page[r].reach, i.filed) /\ Within(page[r].asked, i.filed)

\* However accounts are moved, an event about a commune is in the trail of
\* everybody who reaches that commune, whoever acted.
TrailReachesTerritory ==
  \A e \in trail : e.about \in Communes =>
    \A p \in Places : Within(p, ScopeOfCommune(e.about)) => Within(p, e.filed)

\* Reaches nest: what is in the trail of a commune is in its wilaya's, and an
\* import shown to a commune is shown to its wilaya, with as many rows.
ReachesNest ==
  \A c \in Communes :
    /\ \A e \in trail : Within(c, e.filed) => Within(WilayaOf[c], e.filed)
    /\ \A b \in Batches, a \in Admins : batch[b] # None =>
         /\ ImportRowScope(a, c, b) \subseteq ImportRowScope(a, WilayaOf[c], b)
         /\ BatchVisibility(a, c, b) => BatchVisibility(a, WilayaOf[c], b)

\* Whoever uploaded an import sees it whole, wherever its rows lie and wherever
\* the uploader was moved since: somebody can always say what was wrong with it.
UploaderSeesItWhole ==
  \A b \in Batches : batch[b] # None =>
    LET a == batch[b].uploader IN
    BatchVisibility(a, place[a], b) /\ ImportRowScope(a, place[a], b) = batch[b].lands

\* legacy-import.service: an import is filed under its uploader's reach because
\* that is its actual coverage: an accepted row is not outside.
FiledWhereItTouches ==
  \A e \in trail, b \in Batches :
    e.about = b /\ batch[b].refused = {} =>
      \A c \in batch[b].lands :
        \/ e.filed.wilaya = None
        \/ e.filed.wilaya = WilayaOf[c] /\ e.filed.commune \in {None, c}

\* routes/admin: withdrawing needs authorship, and no elevated role.
AuthorMayWithdraw ==
  \A c \in Communes :
    request[c] # None /\ request[c].status = "PENDING" =>
      Within(place[request[c].author], request[c].filed)
==============================================================================
