------------------------------ MODULE DrawCycle ------------------------------
(***************************************************************************)
(* The life of the draw years and commune draws, from configuration to the *)
(* public announcement, under concurrent requests.                         *)
(*                                                                         *)
(* Every HTTP handler of the server that changes these records reads first *)
(* and writes in a transaction later.  A handler is therefore two steps    *)
(* here: Begin... takes what the handler reads outside its transaction     *)
(* into request[c], and a later step is the transaction that commits.      *)
(* Between the two, any other request may commit.  An execution reads and  *)
(* claims in one transaction and is a single step.                         *)
(*                                                                         *)
(* Abstracted: who is asking (roles and scopes only narrow what a client   *)
(* may ask for), the audit rows written along, the weights, and the facts  *)
(* about people that can make a freeze, an execution or a publication be   *)
(* refused: a refusal writes nothing, so it is the step Refuse.            *)
(***************************************************************************)
EXTENDS Integers, FiniteSets, DrawLifecycle

CONSTANTS
  Years,          \* draw years
  Draws,          \* commune draws: one per commune and year
  YearOf,         \* the draw year of each commune draw
  Applications,   \* applications citizens may file
  DrawOf,         \* the commune draw each of them is filed in
  Pairs,          \* the applications that carry two pilgrims
  Clients,        \* requests the server works on at the same time
  MaxSpots,       \* bound on an allocation
  MaxRevision     \* bound on administrative edits of one commune draw

ASSUME ConfigurationAssumption ==
  /\ YearOf \in [Draws -> Years]
  /\ DrawOf \in [Applications -> Draws]
  /\ Pairs \subseteq Applications
  /\ MaxSpots \in Nat
  /\ MaxRevision \in Nat

VARIABLES
  drawYear,       \* draw_years.status
  communeDraw,    \* commune_draws: status, allocated_spots, updated_at
  application,    \* applications.status
  pools,          \* draw_pools with their entries
  results,        \* draw_results with their winners and reserves
  publications,   \* result_publications, by commune draw
  request         \* what each handler at work has read so far

vars == <<drawYear, communeDraw, application, pools, results, publications, request>>

------------------------------------------------------------------------------
(* Rows.  A row that does not exist yet is "ABSENT".  The revision of a      *)
(* commune draw stands for its updated_at column: every write moves it.     *)

Spots == 1 .. MaxSpots

NoCommuneDraw == [status |-> "ABSENT", spots |-> 0, revision |-> 0]

CommuneDrawRow == [status : CommuneDrawStatus, spots : Spots, revision : Nat]

ApplicationStatus == {"ABSENT", "ELIGIBLE", "SELECTED", "RESERVE", "NOT_SELECTED"}

Pool == [draw : Draws, spots : Spots, entries : SUBSET Applications]

Result == [draw : Draws, winners : SUBSET Applications, reserves : SUBSET Applications]

(* Handlers at work.  Keep in a PATCH means the field is not in the body.   *)

Idle == [op |-> "idle"]
Keep == "KEEP"

YearPatch == [op : {"yearPatch"}, year : Years, status : DrawYearStatus]
DrawPatch == [op : {"drawPatch"}, draw : Draws, status : CommuneDrawStatus \cup {Keep},
              spots : 0 .. MaxSpots, expected : Nat]
Freeze    == [op : {"freeze"}, draw : Draws, spots : Spots,
              entries : SUBSET Applications, validated : BOOLEAN]
Publish   == [op : {"publish"}, draw : Draws, status : CommuneDrawStatus]
Register  == [op : {"register"}, application : Applications, checked : BOOLEAN]

Request == {Idle} \cup YearPatch \cup DrawPatch \cup Freeze \cup Publish \cup Register

------------------------------------------------------------------------------
Has(table, d) == \E row \in table : row.draw = d

Pilgrims(entries) == Cardinality(entries) + Cardinality(entries \cap Pairs)

EligibleFor(d) == {a \in Applications : DrawOf[a] = d /\ application[a] = "ELIGIBLE"}

\* A lottery over pool p may end in result r: both quotas filled exactly, from
\* the pool, nobody twice.
Drawn(p, r) ==
  /\ r.winners \cup r.reserves \subseteq p.entries
  /\ r.winners \cap r.reserves = {}
  /\ Pilgrims(r.winners) = p.spots
  /\ Pilgrims(r.reserves) = p.spots

Starts(c, req) ==
  /\ request[c] = Idle
  /\ request' = [request EXCEPT ![c] = req]

Ends(c) == request' = [request EXCEPT ![c] = Idle]

\* Every write to a commune draw moves its updated_at.
WriteDraw(d, status, spots) ==
  communeDraw' = [communeDraw EXCEPT
    ![d] = [status |-> status, spots |-> spots, revision |-> @.revision + 1]]

Init ==
  /\ drawYear = [y \in Years |-> "ABSENT"]
  /\ communeDraw = [d \in Draws |-> NoCommuneDraw]
  /\ application = [a \in Applications |-> "ABSENT"]
  /\ pools = {}
  /\ results = {}
  /\ publications = {}
  /\ request = [c \in Clients |-> Idle]

------------------------------------------------------------------------------
(* Draw years                                                               *)

CreateDrawYear(y) ==
  /\ drawYear[y] = "ABSENT"
  /\ drawYear' = [drawYear EXCEPT ![y] = "DRAFT"]
  /\ UNCHANGED <<communeDraw, application, pools, results, publications, request>>

BeginYearPatch(c, y, status) ==
  /\ CanTransitionDrawYear(drawYear[y], status)
  /\ Starts(c, [op |-> "yearPatch", year |-> y, status |-> status])
  /\ UNCHANGED <<drawYear, communeDraw, application, pools, results, publications>>

\* draw_years_single_open_registration_idx
OnlyOpenYear(y, status) ==
  status = "REGISTRATION_OPEN" => \A o \in Years \ {y} : drawYear[o] # "REGISTRATION_OPEN"

\* The transition was judged on the status read before: the update itself is
\* by id only.
CommitYearPatch(c) ==
  LET req == request[c] IN
  /\ req.op = "yearPatch"
  /\ OnlyOpenYear(req.year, req.status)
  /\ drawYear' = [drawYear EXCEPT ![req.year] = req.status]
  /\ Ends(c)
  /\ UNCHANGED <<communeDraw, application, pools, results, publications>>

------------------------------------------------------------------------------
(* Commune draws                                                            *)

CreateCommuneDraw(d, spots) ==
  /\ drawYear[YearOf[d]] # "ABSENT"
  /\ communeDraw[d].status = "ABSENT"
  /\ WriteDraw(d, "DRAFT", spots)
  /\ UNCHANGED <<drawYear, application, pools, results, publications, request>>

\* May the row as it is read now be changed this way?
PatchAllowed(row, status, spots) ==
  /\ row.status # "ABSENT"
  /\ status # Keep \/ spots # 0
  /\ spots # 0 => AllowsSpotChanges(row.status)
  /\ status # Keep =>
       /\ IsAdministrativelySettable(status)
       /\ status = row.status \/ CanTransitionCommuneDraw(row.status, status)

\* The caller proves which version an allocation change was made from; it may
\* have been read long ago.
BeginDrawPatch(c, d, status, spots, expected) ==
  /\ communeDraw[d].revision < MaxRevision
  /\ expected <= communeDraw[d].revision
  /\ spots = 0 => expected = 0
  /\ PatchAllowed(communeDraw[d], status, spots)
  /\ Starts(c, [op |-> "drawPatch", draw |-> d, status |-> status,
                spots |-> spots, expected |-> expected])
  /\ UNCHANGED <<drawYear, communeDraw, application, pools, results, publications>>

\* Faulty: the version is asked for and never compared.
VersionIgnored(req) == req.spots # 0 => communeDraw[req.draw].revision >= req.expected

\* Conditional on updated_at for an allocation, unconditional for a status.
VersionHolds(req) == req.spots # 0 => communeDraw[req.draw].revision = req.expected

CommitDrawPatch(c) ==
  LET req == request[c]
      row == communeDraw[req.draw]
  IN
  /\ req.op = "drawPatch"
  /\ VersionHolds(req)
  /\ WriteDraw(req.draw,
               IF req.status = Keep THEN row.status ELSE req.status,
               IF req.spots = 0 THEN row.spots ELSE req.spots)
  /\ Ends(c)
  /\ UNCHANGED <<drawYear, application, pools, results, publications>>

------------------------------------------------------------------------------
(* Registration                                                             *)

\* activeDrawYear(): the year is fixed for the rest of the request.
BeginRegister(c, a) ==
  /\ drawYear[YearOf[DrawOf[a]]] = "REGISTRATION_OPEN"
  /\ Starts(c, [op |-> "register", application |-> a, checked |-> FALSE])
  /\ UNCHANGED <<drawYear, communeDraw, application, pools, results, publications>>

\* assertCommuneIsDrawing(): reads outside the transaction that will insert.
CheckCommuneIsDrawing(c) ==
  LET req == request[c] IN
  /\ req.op = "register"
  /\ ~ req.checked
  /\ AcceptsRegistrations(communeDraw[DrawOf[req.application]].status)
  /\ request' = [request EXCEPT ![c].checked = TRUE]
  /\ UNCHANGED <<drawYear, communeDraw, application, pools, results, publications>>

\* Faulty: the verdict is not stored with the application.
RegisterUnjudged(c) ==
  /\ request[c].op = "register"
  /\ request[c].checked
  /\ application[request[c].application] = "ABSENT"
  /\ application' = [application EXCEPT ![request[c].application] = "PENDING"]
  /\ Ends(c)
  /\ UNCHANGED <<drawYear, communeDraw, pools, results, publications>>

CommitRegister(c) ==
  LET req == request[c] IN
  /\ req.op = "register"
  /\ req.checked
  /\ application[req.application] = "ABSENT"
  /\ application' = [application EXCEPT ![req.application] = "ELIGIBLE"]
  /\ Ends(c)
  /\ UNCHANGED <<drawYear, communeDraw, pools, results, publications>>

------------------------------------------------------------------------------
(* Freezing                                                                 *)

\* validate(), first read: the commune draw with its year.
BeginFreeze(c, d) ==
  /\ drawYear[YearOf[d]] = "REGISTRATION_CLOSED"
  /\ communeDraw[d].status = "READY"
  /\ Starts(c, [op |-> "freeze", draw |-> d, spots |-> communeDraw[d].spots,
                entries |-> {}, validated |-> FALSE])
  /\ UNCHANGED <<drawYear, communeDraw, application, pools, results, publications>>

\* validate(), second read: no pool yet, and the applications it will hold.
ReadCandidates(c) ==
  LET req == request[c]
      candidates == EligibleFor(req.draw)
  IN
  /\ req.op = "freeze"
  /\ ~ req.validated
  /\ ~ Has(pools, req.draw)
  /\ candidates # {}
  /\ request' = [request EXCEPT ![c].entries = candidates, ![c].validated = TRUE]
  /\ UNCHANGED <<drawYear, communeDraw, application, pools, results, publications>>

\* One transaction: claim READY -> LOCKED, insert under UNIQUE(commune_draw_id)
\* the pool as validated.
CommitFreeze(c) ==
  LET req == request[c] IN
  /\ req.op = "freeze"
  /\ req.validated
  /\ communeDraw[req.draw].status = "READY"
  /\ ~ Has(pools, req.draw)
  /\ WriteDraw(req.draw, "LOCKED", communeDraw[req.draw].spots)
  /\ pools' = pools \cup {[draw |-> req.draw, spots |-> req.spots, entries |-> req.entries]}
  /\ Ends(c)
  /\ UNCHANGED <<drawYear, application, results, publications>>

------------------------------------------------------------------------------
(* Execution                                                                *)

\* Faulty: forgets the applications that were not drawn.
FinalizeDrawn(p, r) ==
  application' = [a \in Applications |->
    CASE a \in r.winners  -> "SELECTED"
      [] a \in r.reserves -> "RESERVE"
      [] OTHER -> application[a]]

Finalize(p, r) ==
  application' = [a \in Applications |->
    CASE a \in r.winners  -> "SELECTED"
      [] a \in r.reserves -> "RESERVE"
      [] a \in p.entries \ (r.winners \cup r.reserves) -> "NOT_SELECTED"
      [] OTHER -> application[a]]

\* Faulty: a completed draw may be drawn again, into a second result.
ExecuteAgain(d) ==
  /\ communeDraw[d].status \in {"LOCKED", "COMPLETED"}
  /\ \E p \in pools, r \in Result :
       /\ p.draw = d
       /\ r.draw = d
       /\ Drawn(p, r)
       /\ results' = results \cup {r}
       /\ Finalize(p, r)
  /\ WriteDraw(d, "COMPLETED", communeDraw[d].spots)
  /\ UNCHANGED <<drawYear, pools, publications, request>>

\* One transaction: claim LOCKED -> COMPLETED, draw from the frozen pool, insert
\* under UNIQUE(commune_draw_id), settle every pooled application.  What it records
\* of the people (archive, exclusion, ledger) is no state of this module.
Execute(d) ==
  /\ communeDraw[d].status = "LOCKED"
  /\ ~ Has(results, d)
  /\ \E p \in pools, r \in Result :
       /\ p.draw = d
       /\ r.draw = d
       /\ Drawn(p, r)
       /\ results' = results \cup {r}
       /\ Finalize(p, r)
  /\ WriteDraw(d, "COMPLETED", communeDraw[d].spots)
  /\ UNCHANGED <<drawYear, pools, publications, request>>

------------------------------------------------------------------------------
(* Publication                                                              *)

\* The controller resolves the commune draw through the caller's scope first.
BeginPublish(c, d) ==
  /\ communeDraw[d].status # "ABSENT"
  /\ Starts(c, [op |-> "publish", draw |-> d, status |-> communeDraw[d].status])
  /\ UNCHANGED <<drawYear, communeDraw, application, pools, results, publications>>

\* The integrity rules judge the status as the controller read it.
CommitPublish(c) ==
  LET req == request[c] IN
  /\ req.op = "publish"
  /\ req.draw \notin publications
  /\ Has(results, req.draw)
  /\ req.status = "COMPLETED"
  /\ publications' = publications \cup {req.draw}
  /\ Ends(c)
  /\ UNCHANGED <<drawYear, communeDraw, application, pools, results>>

------------------------------------------------------------------------------
\* A handler answers without having written: a lost claim, a unique index, a
\* fact this module abstracts, an already settled outcome, a crash.
Refuse(c) ==
  /\ request[c] # Idle
  /\ Ends(c)
  /\ UNCHANGED <<drawYear, communeDraw, application, pools, results, publications>>

ClientStep(c) ==
  \/ \E y \in Years, s \in DrawYearStatus : BeginYearPatch(c, y, s)
  \/ CommitYearPatch(c)
  \/ \E d \in Draws, s \in CommuneDrawStatus \cup {Keep}, n \in 0 .. MaxSpots,
        v \in 0 .. MaxRevision : BeginDrawPatch(c, d, s, n, v)
  \/ CommitDrawPatch(c)
  \/ \E a \in Applications : BeginRegister(c, a)
  \/ CheckCommuneIsDrawing(c)
  \/ CommitRegister(c)
  \/ \E d \in Draws : BeginFreeze(c, d)
  \/ ReadCandidates(c)
  \/ CommitFreeze(c)
  \/ \E d \in Draws : BeginPublish(c, d)
  \/ CommitPublish(c)
  \/ Refuse(c)

Next ==
  \/ \E y \in Years : CreateDrawYear(y)
  \/ \E d \in Draws, n \in Spots : CreateCommuneDraw(d, n)
  \/ \E d \in Draws : Execute(d)
  \/ \E c \in Clients : ClientStep(c)

Spec == Init /\ [][Next]_vars

------------------------------------------------------------------------------
(* What holds however requests interleave.                                  *)

\* Every row and every request has the shape its table or handler gives it.
TypeOK ==
  /\ drawYear \in [Years -> DrawYearStatus \cup {"ABSENT"}]
  /\ communeDraw \in [Draws -> CommuneDrawRow \cup {NoCommuneDraw}]
  /\ application \in [Applications -> ApplicationStatus]
  /\ pools \subseteq Pool
  /\ results \subseteq Result
  /\ publications \subseteq Draws
  /\ request \in [Clients -> Request]

\* A commune draw that says LOCKED has its pool, and one that says COMPLETED
\* has its result: administrators, whose patches may be judged on a status that
\* is long gone, can never bring about either.
StatusIsBacked ==
  \A d \in Draws :
    /\ communeDraw[d].status \in {"LOCKED", "COMPLETED"} => Has(pools, d)
    /\ communeDraw[d].status = "COMPLETED" => Has(results, d)

\* The allocation of a locked or completed commune draw never moves, although
\* an allocation patch is judged before its transaction begins: the version it
\* must match cannot have survived the freeze.
FrozenAllocation ==
  [][\A d \in Draws :
       communeDraw[d].status \in {"LOCKED", "COMPLETED"}
         => communeDraw'[d].spots = communeDraw[d].spots]_vars

\* The status of an application tells the lottery's outcome exactly: a result
\* settles every application of its pool and no other, and what is pooled stays
\* ELIGIBLE until then, also when patches and registrations are in flight.
OutcomesFinalized ==
  /\ \A p \in pools : \A a \in p.entries :
       ~ Has(results, p.draw) => application[a] = "ELIGIBLE"
  /\ \A p \in pools, r \in results : p.draw = r.draw =>
       \A a \in p.entries :
         /\ application[a] = "SELECTED" <=> a \in r.winners
         /\ application[a] = "RESERVE" <=> a \in r.reserves
         /\ application[a] \in {"SELECTED", "RESERVE", "NOT_SELECTED"}
  /\ \A a \in Applications :
       application[a] \in {"SELECTED", "RESERVE", "NOT_SELECTED"}
         => \E p \in pools : a \in p.entries /\ Has(results, p.draw)

\* Whoever reads only pools, results and publications sees a lottery whose
\* terms are fixed once, drawn once from those terms, and announced after that.
Promise == INSTANCE DrawPromise WITH
  terms <- pools, outcomes <- results, announced <- publications

KeepsPromise == Promise!Spec

------------------------------------------------------------------------------
(* What the documentation says of the system.  It holds when requests come  *)
(* one after the other; two requests at a time can break each of them.      *)

\* There is never a pool whose commune draw can still change.
PoolLocksDraw ==
  \A p \in pools : communeDraw[p.draw].status \in {"LOCKED", "COMPLETED"}

\* A pool records the allocation as it stood when the draw was frozen, so the
\* two agree for ever.
TermsAgree == \A p \in pools : communeDraw[p.draw].spots = p.spots

\* A year whose registration closed is never open again.
NoRouteBack ==
  [][\A y \in Years :
       drawYear[y] = "REGISTRATION_CLOSED" => drawYear'[y] # "REGISTRATION_OPEN"]_vars

\* When a pool is written it holds every application that is eligible then.
PoolHoldsEveryEligible ==
  [][\A p \in pools' \ pools : \A a \in Applications :
       DrawOf[a] = p.draw /\ application[a] = "ELIGIBLE" => a \in p.entries]_vars

==============================================================================
