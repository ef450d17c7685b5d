----------------------------- MODULE LegacyImport -----------------------------
(***************************************************************************)
(* The life of an import batch (LegacyImportService): uploaded, staged     *)
(* chunk by chunk by a process that may die, reviewed by somebody else,    *)
(* and imported in one transaction, while draws are executed and the       *)
(* ledger is corrected.  The import reads (plan) before it writes, and the *)
(* rest of the system may commit in between: it is two steps.              *)
(*                                                                         *)
(* Abstracted: reading and hashing the file, the scope of who may ask, the *)
(* audit rows, the links from staged rows to what they produced.           *)
(***************************************************************************)
EXTENDS ImportRules

CONSTANTS
  Batches,        \* uploads
  File,           \* the lines of each upload
  Checksum,       \* the hash of its bytes
  Chunk,          \* rows stored by one statement
  Admins,         \* national administrators, who upload and decide
  Pooled,         \* people in the frozen pool of this year's draw
  MaxCorrections  \* bound on corrections of the ledger

ASSUME BatchAssumption ==
  /\ DOMAIN File = Batches
  /\ \A b \in Batches :
       /\ Len(File[b]) \in Nat /\ DOMAIN File[b] = 1 .. Len(File[b])
       /\ \A i \in DOMAIN File[b] :
            /\ DOMAIN File[b][i] = Columns
            /\ \A c \in Columns : File[b][i][c] \in Cells[c]
  /\ DOMAIN Checksum = Batches
  /\ Chunk \in Nat \ {0}
  /\ Pooled \subseteq People
  /\ Null \notin Admins
  /\ MaxCorrections \in Nat

VARIABLES
  batch,          \* import_batches, and how many of their import_rows are stored
  working,        \* batches whose upload request is still being served
  plan,           \* what each import at work has decided to write
  registered,     \* participants
  excluded,       \* participants whose has_won_hajj is set
  archived,       \* winner_archive: the year each person won a draw of this system
  legacy,         \* legacy_winners: the year each person won a draw of a register
  ledger,         \* participation_history
  corrections     \* corrections made

people == <<registered, excluded, archived, legacy, ledger, corrections>>

vars == <<batch, working, plan, registered, excluded, archived, legacy, ledger, corrections>>

------------------------------------------------------------------------------
Absent == [status |-> "ABSENT"]

Status == {"UPLOADED", "VALIDATING", "READY_FOR_REVIEW", "APPROVED", "REJECTED", "IMPORTED",
           "FAILED"}

ImportBatchTransitions == [s \in Status |->
  CASE s = "UPLOADED"         -> {"VALIDATING"}
    [] s = "VALIDATING"       -> {"READY_FOR_REVIEW", "FAILED"}
    [] s = "READY_FOR_REVIEW" -> {"APPROVED", "REJECTED"}
    [] s = "APPROVED"         -> {"IMPORTED"}
    [] OTHER                  -> {}]

\* knownParticipants(): what the database says of everybody now.
Known == [p \in People |->
  IF p \notin registered THEN Unknown
  ELSE [registered |-> TRUE, hasWon |-> p \in excluded,
        wins |-> {archived[p], legacy[p]} \ {NoYear},
        history |-> ledger[p], commune |-> HomeCommune]]

Init ==
  /\ batch = [b \in Batches |-> Absent]
  /\ working = {}
  /\ plan = <<>>
  /\ registered = Pooled
  /\ excluded = {}
  /\ archived = [p \in People |-> NoYear]
  /\ legacy = [p \in People |-> NoYear]
  /\ ledger = [p \in People |-> [y \in Years |-> "none"]]
  /\ corrections = 0

------------------------------------------------------------------------------
(* Upload and staging                                                       *)

\* import_batches_source_checksum_key
Upload(b, admin) ==
  /\ batch[b] = Absent
  /\ \A o \in Batches : batch[o] # Absent => Checksum[o] # Checksum[b]
  /\ batch' = [batch EXCEPT ![b] =
       [status |-> "UPLOADED", uploader |-> admin, approver |-> Null, rows |-> <<>>, stored |-> 0]]
  /\ working' = working \cup {b}
  /\ UNCHANGED <<plan, people>>

BeginValidation(b) ==
  /\ b \in working
  /\ batch[b].status = "UPLOADED"
  /\ batch' = [batch EXCEPT ![b].status = "VALIDATING"]
  /\ UNCHANGED <<working, plan, people>>

\* The three passes of checks, the last against the database as it is now.
Check(b) ==
  /\ b \in working
  /\ batch[b].status = "VALIDATING"
  /\ batch[b].rows = <<>>
  /\ batch' = [batch EXCEPT ![b].rows = StageFile(File[b], Known)]
  /\ UNCHANGED <<working, plan, people>>

\* createMany, a chunk at a time and not in one transaction.
StoreChunk(b) ==
  LET left == Len(batch[b].rows) - batch[b].stored IN
  /\ b \in working
  /\ batch[b].status = "VALIDATING"
  /\ left > 0
  /\ batch' = [batch EXCEPT ![b].stored = @ + (IF left < Chunk THEN left ELSE Chunk)]
  /\ UNCHANGED <<working, plan, people>>

\* Faulty: the review opens while rows are still being stored.
ReadyWhenChecked(b) ==
  /\ b \in working
  /\ batch[b].status = "VALIDATING"
  /\ batch[b].rows # <<>>
  /\ batch' = [batch EXCEPT ![b].status = "READY_FOR_REVIEW"]
  /\ working' = working \ {b}
  /\ UNCHANGED <<plan, people>>

FinishStaging(b) ==
  /\ b \in working
  /\ batch[b].status = "VALIDATING"
  /\ batch[b].rows # <<>>
  /\ batch[b].stored = Len(batch[b].rows)
  /\ batch' = [batch EXCEPT ![b].status = "READY_FOR_REVIEW"]
  /\ working' = working \ {b}
  /\ UNCHANGED <<plan, people>>

\* Any error of the transition or of staging: fail(), then the request ends.
FailStaging(b) ==
  /\ b \in working
  /\ batch[b].status \in {"UPLOADED", "VALIDATING"}
  /\ batch' = [batch EXCEPT ![b].status = "FAILED"]
  /\ working' = working \ {b}
  /\ UNCHANGED <<plan, people>>

\* The process serving the upload dies.
Crash(b) ==
  /\ b \in working
  /\ working' = working \ {b}
  /\ UNCHANGED <<batch, plan, people>>

------------------------------------------------------------------------------
(* Review: never by the uploader, and conditional on READY_FOR_REVIEW.       *)

Decide(b, admin, status, approver) ==
  /\ batch[b] # Absent
  /\ batch[b].status = "READY_FOR_REVIEW"
  /\ admin # batch[b].uploader
  /\ batch' = [batch EXCEPT ![b].status = status, ![b].approver = approver]
  /\ UNCHANGED <<working, plan, people>>

Approve(b, admin) == Decide(b, admin, "APPROVED", admin)

Reject(b, admin) == Decide(b, admin, "REJECTED", Null)

------------------------------------------------------------------------------
(* The import                                                               *)

\* The stored rows judged again against the database alone.
Rechecked(b) == [i \in DOMAIN batch[b].rows |->
  [batch[b].rows[i] EXCEPT !.issues = DetectDatabaseConflicts(batch[b].rows[i], Known)]]

WritableRows(b) == Writable(batch[b].rows) \cap Writable(Rechecked(b))

\* What a row will write, and whether its person was found.
FactOf(row) ==
  [person |-> row.values.nationalId, year |-> row.values.year, outcome |-> OutcomeOf(row),
   found |-> row.values.nationalId \in registered]

\* The claim holds the batch's row until the end; a row that blocks, now or when it
\* was staged, ends the import before anything is written.
PlanImport(b) ==
  /\ batch[b] # Absent
  /\ batch[b].status = "APPROVED"
  /\ b \notin DOMAIN plan
  /\ Importable(batch[b].rows)
  /\ Importable(Rechecked(b))
  /\ plan' = [o \in DOMAIN plan \cup {b} |->
       IF o = b THEN {FactOf(batch[b].rows[i]) : i \in WritableRows(b)} ELSE plan[o]]
  /\ UNCHANGED <<batch, working, people>>

Winners(facts) == {f.person : f \in {g \in facts : g.outcome = "won"}}

\* UNIQUE(national_id), UNIQUE(participant_id, draw_year), and UNIQUE(participant_id)
\* of the legacy winners.
ConstraintsHold(facts) ==
  /\ \A f \in facts : f.found \/ f.person \notin registered
  /\ \A f \in facts : ledger[f.person][f.year] = "none"
  /\ \A p \in Winners(facts) : legacy[p] = NoYear

\* Faulty: the flag is set again where it is set.
ExcludeAgain(facts) == excluded' = excluded \cup Winners(facts)

\* writeLegacyWinners(): a compare-and-set, its count checked.
Exclude(facts) ==
  /\ Winners(facts) \cap excluded = {}
  /\ excluded' = excluded \cup Winners(facts)

Stop(b) == plan' = [o \in DOMAIN plan \ {b} |-> plan[o]]

\* Participants, ledger, legacy winners, exclusion, status: all of it or none.
WriteImport(b) ==
  LET facts == plan[b]
      written(p, y) == {f \in facts : f.person = p /\ f.year = y}
  IN
  /\ b \in DOMAIN plan
  /\ ConstraintsHold(facts)
  /\ Exclude(facts)
  /\ registered' = registered \cup {f.person : f \in facts}
  /\ ledger' = [p \in People |-> [y \in Years |->
       IF written(p, y) = {} THEN ledger[p][y]
       ELSE (CHOOSE f \in written(p, y) : TRUE).outcome]]
  /\ legacy' = [p \in People |->
       IF p \in Winners(facts)
       THEN CHOOSE y \in Years : \E f \in written(p, y) : f.outcome = "won"
       ELSE legacy[p]]
  /\ batch' = [batch EXCEPT ![b].status = "IMPORTED"]
  /\ Stop(b)
  /\ UNCHANGED <<working, archived, corrections>>

\* A constraint, a count that is short, a crash: rolled back, and still APPROVED.
RollBack(b) ==
  /\ b \in DOMAIN plan
  /\ Stop(b)
  /\ UNCHANGED <<batch, working, people>>

------------------------------------------------------------------------------
(* The rest of the system, as far as it touches these people.               *)

\* The draw of the last year is executed: everybody in its pool has no record of
\* that year yet, the winners are in no archive, and are excluded whatever they were.
ExecuteDraw(winners) ==
  /\ \A p \in Pooled : ledger[p][LastYear] = "none"
  /\ \A p \in winners : archived[p] = NoYear
  /\ archived' = [p \in People |-> IF p \in winners THEN LastYear ELSE archived[p]]
  /\ excluded' = excluded \cup winners
  /\ ledger' = [p \in People |->
       IF p \in Pooled
       THEN [ledger[p] EXCEPT ![LastYear] = IF p \in winners THEN "won" ELSE "lost"]
       ELSE ledger[p]]
  /\ UNCHANGED <<batch, working, plan, registered, legacy, corrections>>

\* An administrator corrects a year of the ledger.  Nobody is excluded by it.
CorrectByHand(p, y, outcome) ==
  /\ corrections < MaxCorrections
  /\ ledger[p][y] # "none"
  /\ ledger' = [ledger EXCEPT ![p][y] = outcome]
  /\ corrections' = corrections + 1
  /\ UNCHANGED <<batch, working, plan, registered, excluded, archived, legacy>>

\* ParticipantService, at a registration.
RegisterParticipant(p) ==
  /\ p \notin registered
  /\ registered' = registered \cup {p}
  /\ UNCHANGED <<batch, working, plan, excluded, archived, legacy, ledger, corrections>>

------------------------------------------------------------------------------
Staging(b) == BeginValidation(b) \/ Check(b) \/ StoreChunk(b) \/ FinishStaging(b)

Importing(b) == PlanImport(b) \/ WriteImport(b) \/ RollBack(b)

Next ==
  \/ \E b \in Batches :
       \/ \E a \in Admins : Upload(b, a) \/ Approve(b, a) \/ Reject(b, a)
       \/ Staging(b) \/ FailStaging(b) \/ Crash(b)
       \/ Importing(b)
  \/ \E winners \in SUBSET Pooled : ExecuteDraw(winners)
  \/ \E p \in People, y \in Years, o \in Outcomes \ {"none"} : CorrectByHand(p, y, o)
  \/ \E p \in People : RegisterParticipant(p)

\* A request being served goes on to its end unless its process dies; nothing makes
\* an administrator act, a draw run or a process live.
Fairness == \A b \in Batches : WF_vars(Staging(b))

Spec == Init /\ [][Next]_vars /\ Fairness

------------------------------------------------------------------------------
TypeOK ==
  /\ \A b \in Batches : batch[b] # Absent =>
       /\ batch[b].status \in Status
       /\ batch[b].uploader \in Admins
       /\ batch[b].approver \in Admins \cup {Null}
       /\ Len(batch[b].rows) \in {0, Len(File[b])}
       /\ batch[b].stored \in 0 .. Len(File[b])
  /\ working \subseteq {b \in Batches : batch[b] # Absent}
  /\ \A b \in DOMAIN plan : batch[b].status = "APPROVED"
  /\ registered \subseteq People
  /\ excluded \subseteq registered
  /\ archived \in [People -> {NoYear} \cup Years]
  /\ legacy \in [People -> {NoYear} \cup Years]
  /\ ledger \in [People -> [Years -> Outcomes]]

\* Whoever decides on a batch judges the whole register, wherever staging was
\* interrupted, and is not the one who brought it.
ReviewedWhole ==
  \A b \in Batches :
    batch[b] # Absent /\ batch[b].status \in {"READY_FOR_REVIEW", "APPROVED", "REJECTED", "IMPORTED"}
      => /\ batch[b].stored = Len(File[b])
         /\ batch[b].approver # batch[b].uploader

\* An imported register is in the ledger line for line, and each of its wins has been
\* spent: recorded as a legacy win of that year by somebody now excluded, or as a win
\* the ledger already knew.
ImportedWhole ==
  \A b \in Batches : batch[b] # Absent /\ batch[b].status = "IMPORTED" =>
    \A i \in DOMAIN batch[b].rows :
      LET v == batch[b].rows[i].values IN
      /\ v.nationalId \in registered
      /\ ledger[v.nationalId][v.year] # "none"
      /\ legacy[v.nationalId] = v.year => v.nationalId \in excluded
      /\ v.won = "yes" /\ corrections = 0 =>
           ledger[v.nationalId][v.year] = "won" /\ v.nationalId \in excluded

\* An import spends an entitlement that was still there: nobody who is excluded, for
\* whatever reason and since whenever, becomes a legacy winner.
SpendsOnlyOnce ==
  [][\A p \in People : legacy'[p] # legacy[p] =>
       p \notin excluded /\ archived[p] = NoYear]_vars

\* The ledger is never overwritten but by an administrator: an import and a draw add
\* years to it and change none.
NeverOverwrites ==
  [][corrections' = corrections =>
       \A p \in People, y \in Years :
         ledger[p][y] # "none" => ledger'[p][y] = ledger[p][y]]_vars

\* A register is judged whole by somebody who did not bring it, and is in the ledger
\* line for line once it is imported.
WholeRegister == TypeOK /\ ReviewedWhole /\ ImportedWhole

\* An import spends an entitlement that was still there, whatever happened since it
\* was planned, and writes over no year the ledger holds.
SpendsAndKeeps == SpendsOnlyOnce /\ NeverOverwrites

------------------------------------------------------------------------------
(* What docs/legacy-import.md says, and the system does not keep.            *)

\* One win per person for life, in both tables of winners taken together.
OneWinPerLife == \A p \in People : archived[p] = NoYear \/ legacy[p] = NoYear

\* A transition that is not in the table cannot happen.
OnlyTableTransitions ==
  [][\A b \in Batches : batch[b] # Absent /\ batch'[b] # batch[b] =>
       batch'[b].status \in {batch[b].status} \cup ImportBatchTransitions[batch[b].status]]_vars

==============================================================================
