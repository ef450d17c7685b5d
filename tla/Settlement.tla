------------------------------ MODULE Settlement ------------------------------
(***************************************************************************)
(* What one draw leaves behind about people, and its announcement: the     *)
(* execution writes the result, the archive, the lifetime exclusion, the   *)
(* final statuses and the ledger at once; reserves take abandoned places;  *)
(* registers are imported and the ledger corrected; and whoever publishes  *)
(* the result counts it all first, one statement after the other, each     *)
(* seeing what was committed when it ran.                                  *)
(*                                                                         *)
(* Abstracted: the draw itself (Lottery), the calling of reserves          *)
(* (Reserves), the orders, hashes and random values of a result.           *)
(***************************************************************************)
EXTENDS Naturals, FiniteSets, FiniteSetsExt

CONSTANTS
  Travellers,     \* the one or two people of each entry of the frozen pool
  Allocated,      \* its allocation, in pilgrims
  Publishers,     \* publishing requests served at a time
  None

Entries == DOMAIN Travellers
People == UNION {Travellers[e] : e \in Entries}

Results == [winners : SUBSET Entries, reserves : SUBSET Entries]

\* A pool is frozen with finitely many applications, each one person's or two people's,
\* and nobody is in two of them.
PoolAssumption ==
  /\ IsFiniteSet(Entries)
  /\ None \notin Results
  /\ \A e \in Entries : IsFiniteSet(Travellers[e]) /\ Cardinality(Travellers[e]) \in {1, 2}
  /\ \A e, f \in Entries : e # f => Travellers[e] \cap Travellers[f] = {}
  /\ Allocated \in Nat \ {0}

VARIABLES
  status,         \* commune_draws.status
  result,         \* draw_results with its winners and reserves
  outcome,        \* applications.status
  archive,        \* winner_archive.source of this result, by person
  excluded,       \* participants whose has_won_hajj is set
  ledger,         \* participation_history of the draw's commune and year
  abandoned,      \* winner_abandonments
  promoted,       \* draw_reserves that are ACCEPTED
  publication,    \* result_publications
  announced,      \* DRAW_RESULT_PUBLISHED rows of the trail
  counts          \* what each publishing request has counted

drawn == <<status, result, outcome>>
settled == <<archive, excluded, ledger, abandoned, promoted>>
public == <<publication, announced, counts>>
vars == <<drawn, settled, public>>

Pilgrims(entries) == MapThenSumSet(LAMBDA e : Cardinality(Travellers[e]), entries)

PeopleOf(entries) == UNION {Travellers[e] : e \in entries}

Row(won, source) == [won |-> won, source |-> source]
NoRow == [won |-> FALSE, source |-> "NONE"]

Idle == [at |-> "idle"]

Init ==
  /\ status = "LOCKED"
  /\ result = None
  /\ outcome = [e \in Entries |-> "ELIGIBLE"]
  /\ archive = [p \in People |-> "NONE"]
  /\ excluded = {}
  /\ ledger = [p \in People |-> NoRow]
  /\ abandoned = {} /\ promoted = {}
  /\ publication = None
  /\ announced = 0
  /\ counts = [c \in Publishers |-> Idle]

------------------------------------------------------------------------------
(* The execution: one transaction, claimed by the status it changes.        *)

\* What is counted from the rows before the commit.
Complete(winners, reserves) ==
  /\ Pilgrims(winners) = Allocated
  /\ Pilgrims(reserves) = Allocated
  /\ Cardinality({p \in People : archive'[p] = "DRAW"}) = Allocated
  /\ Cardinality({e \in Entries : outcome'[e] # "ELIGIBLE"}) = Cardinality(Entries)
  /\ Cardinality({p \in People : ledger'[p] # NoRow}) >= Cardinality(Entries)

\* Faulty: reserves are recorded as winners of the year.
WonOrReserve(winners, reserves) == PeopleOf(winners \cup reserves)

WonThisYear(winners, reserves) == PeopleOf(winners)

Execute(winners, reserves) ==
  /\ status = "LOCKED"
  /\ winners \cap reserves = {}
  \* DUPLICATE_HISTORY_YEAR
  /\ \A p \in People : ledger[p] = NoRow
  /\ status' = "COMPLETED"
  /\ result' = [winners |-> winners, reserves |-> reserves]
  /\ archive' = [p \in People |-> IF p \in PeopleOf(winners) THEN "DRAW" ELSE "NONE"]
  /\ excluded' = excluded \cup PeopleOf(winners)
  /\ outcome' = [e \in Entries |->
       IF e \in winners THEN "SELECTED" ELSE IF e \in reserves THEN "RESERVE" ELSE "NOT_SELECTED"]
  /\ ledger' = [p \in People |-> Row(p \in WonThisYear(winners, reserves), "APPLICATION")]
  /\ Complete(winners, reserves)
  /\ UNCHANGED <<abandoned, promoted, public>>

------------------------------------------------------------------------------
(* What happens to the same people afterwards, or before.                   *)

RecordAbandonment(w) ==
  /\ status = "COMPLETED"
  /\ w \in result.winners \ abandoned
  /\ abandoned' = abandoned \cup {w}
  /\ UNCHANGED <<drawn, archive, excluded, ledger, promoted, public>>

\* Faulty: the ledger keeps saying that a promoted reserve lost.
PromoteSilently(r) ==
  /\ status = "COMPLETED"
  /\ r \in result.reserves \ promoted
  /\ Cardinality(promoted) < Cardinality(abandoned)
  /\ PeopleOf({r}) \cap excluded = {}
  /\ promoted' = promoted \cup {r}
  /\ archive' = [p \in People |-> IF p \in Travellers[r] THEN "RESERVE_REPLACEMENT" ELSE archive[p]]
  /\ excluded' = excluded \cup Travellers[r]
  /\ outcome' = [outcome EXCEPT ![r] = "SELECTED"]
  /\ UNCHANGED <<status, result, ledger, abandoned, public>>

\* A reserve that was called for an abandoned place accepts it.
PromoteReserve(r) ==
  /\ status = "COMPLETED"
  /\ r \in result.reserves \ promoted
  /\ Cardinality(promoted) < Cardinality(abandoned)
  /\ PeopleOf({r}) \cap excluded = {}
  /\ promoted' = promoted \cup {r}
  /\ archive' = [p \in People |-> IF p \in Travellers[r] THEN "RESERVE_REPLACEMENT" ELSE archive[p]]
  /\ excluded' = excluded \cup Travellers[r]
  /\ outcome' = [outcome EXCEPT ![r] = "SELECTED"]
  /\ ledger' = [p \in People |->
       IF p \in Travellers[r] THEN [ledger[p] EXCEPT !.won = TRUE] ELSE ledger[p]]
  /\ UNCHANGED <<status, result, abandoned, public>>

\* A register of this very year says the person took part and lost.
ImportYear(p) ==
  /\ ledger[p] = NoRow
  /\ ledger' = [ledger EXCEPT ![p] = Row(FALSE, "IMPORT")]
  /\ UNCHANGED <<drawn, archive, excluded, abandoned, promoted, public>>

Correct(p, won) ==
  /\ ledger[p] # NoRow
  /\ ledger' = [ledger EXCEPT ![p] = Row(won, "ADMIN_CORRECTION")]
  /\ UNCHANGED <<drawn, archive, excluded, abandoned, promoted, public>>

------------------------------------------------------------------------------
(* The announcement.                                                        *)

\* What one statement of gatherFacts finds, if it runs now.
PromotedNow == Pilgrims(promoted)
ArchivedNow == {p \in People : archive[p] # "NONE"}
ExcludedNow == ArchivedNow \cap excluded
RecordedNow == {p \in People : ledger[p].source = "APPLICATION"}

FactsNow ==
  [status |-> status, promoted |-> PromotedNow, archived |-> Cardinality(ArchivedNow),
   excluded |-> Cardinality(ExcludedNow), recorded |-> Cardinality(RecordedNow)]

ArchiveAddsUp(facts) == facts.archived = Pilgrims(result.winners) + facts.promoted

AssessResultIntegrity(facts) ==
  IF facts.status # "COMPLETED" THEN {"DRAW_NOT_COMPLETED"}
  ELSE IF result = None THEN {"RESULT_MISSING"}
  ELSE {issue \in {"RESERVE_ALLOCATION_MISMATCH", "ALLOCATION_MISMATCH", "WINNER_ARCHIVE_MISMATCH",
                   "WINNER_EXCLUSION_MISSING", "PARTICIPATION_HISTORY_INCOMPLETE"} :
    CASE issue = "RESERVE_ALLOCATION_MISMATCH" -> Pilgrims(result.reserves) # Pilgrims(result.winners)
      [] issue = "ALLOCATION_MISMATCH" -> Pilgrims(result.winners) # Allocated
      [] issue = "WINNER_ARCHIVE_MISMATCH" -> ~ ArchiveAddsUp(facts)
      [] issue = "WINNER_EXCLUSION_MISSING" -> facts.excluded # facts.archived
      [] OTHER -> facts.recorded < Cardinality(People)}

\* result_publications_totals_check
TotalsCheck(participants) ==
  LET winnerCount == Cardinality(result.winners) IN
  /\ winnerCount > 0
  /\ winnerCount <= participants /\ participants <= 2 * winnerCount
  /\ winnerCount <= Cardinality(Entries)

Publishable(facts) == AssessResultIntegrity(facts) = {} /\ TotalsCheck(facts.archived)

\* The controller's read of the commune draw.
ReadDraw(c) ==
  /\ counts[c] = Idle
  /\ counts' = [counts EXCEPT ![c] = [at |-> "draw", status |-> status]]
  /\ UNCHANGED <<drawn, settled, publication, announced>>

\* An earlier announcement is the answer, without any check.
FindPublication(c) ==
  /\ counts[c].at = "draw"
  /\ publication # None
  /\ counts' = [counts EXCEPT ![c] = Idle]
  /\ UNCHANGED <<drawn, settled, publication, announced>>

CountPromoted(c) ==
  /\ counts[c].at = "draw"
  /\ publication = None
  /\ counts' = [counts EXCEPT ![c] =
       [at |-> "promoted", status |-> counts[c].status, promoted |-> PromotedNow]]
  /\ UNCHANGED <<drawn, settled, publication, announced>>

CountArchive(c) ==
  /\ counts[c].at = "promoted"
  /\ counts' = [counts EXCEPT ![c] =
       [at |-> "archive", status |-> counts[c].status, promoted |-> counts[c].promoted,
        archived |-> Cardinality(ArchivedNow), excluded |-> Cardinality(ExcludedNow)]]
  /\ UNCHANGED <<drawn, settled, publication, announced>>

CountLedger(c) ==
  /\ counts[c].at = "archive"
  /\ counts' = [counts EXCEPT ![c] =
       [at |-> "counted", status |-> counts[c].status, promoted |-> counts[c].promoted,
        archived |-> counts[c].archived, excluded |-> counts[c].excluded,
        recorded |-> Cardinality(RecordedNow)]]
  /\ UNCHANGED <<drawn, settled, publication, announced>>

\* The second of two inserts meets the unique index, and its audit row is undone.
Publish(c) ==
  /\ counts[c].at = "counted"
  /\ Publishable(counts[c])
  /\ IF publication # None THEN UNCHANGED <<publication, announced>>
     ELSE /\ publication' = [winners |-> Cardinality(result.winners), participants |-> counts[c].archived]
          /\ announced' = announced + 1
  /\ counts' = [counts EXCEPT ![c] = Idle]
  /\ UNCHANGED <<drawn, settled>>

\* RESULT_NOT_PUBLISHABLE, or the database's refusal of the totals.
RefusePublication(c) ==
  /\ counts[c].at = "counted"
  /\ ~ Publishable(counts[c])
  /\ counts' = [counts EXCEPT ![c] = Idle]
  /\ UNCHANGED <<drawn, settled, publication, announced>>

Next ==
  \/ \E winners, reserves \in SUBSET Entries : Execute(winners, reserves)
  \/ \E e \in Entries : RecordAbandonment(e) \/ PromoteReserve(e)
  \/ \E p \in People : ImportYear(p) \/ (\E won \in BOOLEAN : Correct(p, won))
  \/ \E c \in Publishers :
       \/ ReadDraw(c) \/ FindPublication(c)
       \/ CountPromoted(c) \/ CountArchive(c) \/ CountLedger(c)
       \/ Publish(c) \/ RefusePublication(c)

Spec == Init /\ [][Next]_vars

\* Somebody keeps trying to run the draw, and to correct whatever record can be corrected.
Execution == \E winners, reserves \in SUBSET Entries : Execute(winners, reserves)

FairSpec ==
  /\ Spec
  /\ WF_vars(Execution)
  /\ \A p \in People, won \in BOOLEAN : WF_vars(Correct(p, won))

------------------------------------------------------------------------------
TypeOK ==
  /\ status \in {"LOCKED", "COMPLETED"}
  /\ status = "COMPLETED" <=> result # None
  /\ archive \in [People -> {"NONE", "DRAW", "RESERVE_REPLACEMENT"}]
  /\ \A p \in People : ledger[p].source \in {"NONE", "APPLICATION", "IMPORT", "ADMIN_CORRECTION"}
  /\ result # None => promoted \subseteq result.reserves /\ abandoned \subseteq result.winners

Corrected == {p \in People : ledger[p].source = "ADMIN_CORRECTION"}

\* For everybody nobody has corrected, application, archive, exclusion and ledger tell
\* one story of the year: won by the draw, won by a replacement, or lost.
OneStory == status = "COMPLETED" => \A e \in Entries : \A p \in Travellers[e] \ Corrected :
  LET won == e \in result.winners \cup promoted IN
  /\ outcome[e] = "SELECTED" <=> won
  /\ archive[p] # "NONE" <=> won
  /\ won => p \in excluded
  /\ ledger[p] = Row(won, "APPLICATION")

\* The gate raises no false alarm: whatever was abandoned, replaced or published, a
\* completed draw whose ledger was left alone counts up.
NoFalseAlarm == status = "COMPLETED" /\ Corrected = {} => AssessResultIntegrity(FactsNow) = {}

\* What result-publication.service.ts says of its count of the ledger: it is exact.
LedgerCountIsExact ==
  status = "COMPLETED" => (FactsNow.recorded = Cardinality({p \in People : ledger[p] # NoRow}))

\* What result-publication.service.ts says of its transaction: a result cannot pass the
\* checks and then be published against a state that changed underneath them.
PublishedAsVerified == [][publication' # publication => AssessResultIntegrity(FactsNow) = {}]_vars

\* What the migration says of its check: it refuses only what no real draw can produce.
TotalsOfARealDraw == AssessResultIntegrity(FactsNow) = {} => Publishable(FactsNow)

\* A draw that refuses because of a competing record is drawn once administrators have
\* dealt with it.
EventuallyDrawn == <>(status = "COMPLETED")

==============================================================================
