------------------------------ MODULE ImportRules ------------------------------
(***************************************************************************)
(* The rules a register of past draws is judged by (lib/import-validation, *)
(* lib/import-template): each line on its own, the lines of a file against *)
(* each other, and each line against what the database knows of the person *)
(* it names.  Pure operators: LegacyImport stages with them and judges     *)
(* again with them inside the transaction that imports.                    *)
(*                                                                         *)
(* Abstracted: a cell is blank, unreadable, or one of a few values.  The   *)
(* four name columns are one, every name being checked the same way.       *)
(***************************************************************************)
EXTENDS Integers, Sequences, FiniteSets

CONSTANTS
  People,         \* the national identities a file may name
  Communes,       \* communes that exist
  Allowed,        \* communes the uploader administers
  LastYear        \* referenceDrawYear(); years count from 1

Null == "null"
Blank == "blank"
Garbage == "garbage"

\* An identity, and a commune, is told from what stands for none.
ASSUME ImportAssumption ==
  /\ Allowed \subseteq Communes
  /\ LastYear \in Nat \ {0}
  /\ (People \cup Communes) \cap {Null, Blank, Garbage, "implausible"} = {}

Years == 1 .. LastYear
NoYear == 0
BadYear == -1

\* What a cell may say.  "A" is how the registry writes the person, up to case and
\* spacing, and "B" something else; a stated date of registration is told by the age
\* it gives the person.
Cells == [
  nationalId   |-> {Blank, Garbage} \cup People,
  name         |-> {Blank, Garbage, "formula", "A", "B"},
  dob          |-> {Blank, Garbage, "implausible", "A", "B"},
  phone        |-> {Blank, Garbage, "A", "B"},
  commune      |-> {Blank, Garbage} \cup Communes,
  year         |-> {NoYear, BadYear, LastYear + 1} \cup Years,
  participated |-> {Blank, Garbage, "yes", "no"},
  won          |-> {Blank, Garbage, "yes", "no"},
  gender       |-> {Blank, Garbage, "MALE", "FEMALE"},
  registered   |-> {Blank, Garbage, "minor", "under45", "adult"}]

Columns == DOMAIN Cells

\* A line of a well kept register.
HomeCommune == CHOOSE c \in Allowed : TRUE

Line(person, year, outcome) ==
  [nationalId |-> person, name |-> "A", dob |-> "A", phone |-> "A",
   commune |-> HomeCommune, year |-> year,
   participated |-> IF outcome = "stayed" THEN "no" ELSE "yes",
   won |-> IF outcome = "won" THEN "yes" ELSE "no",
   gender |-> "FEMALE", registered |-> "adult"]

Required == {"nationalId", "name", "dob", "commune", "year", "participated", "won"}

IssueCodes == {"MISSING_NATIONAL_ID", "INVALID_NATIONAL_ID", "MISSING_NAME", "INVALID_NAME",
  "MISSING_DOB", "INVALID_DOB", "MISSING_COMMUNE_CODE", "UNKNOWN_COMMUNE",
  "MISSING_DRAW_YEAR", "INVALID_DRAW_YEAR", "FUTURE_DRAW_YEAR", "MISSING_PARTICIPATION",
  "INVALID_PARTICIPATION", "MISSING_OUTCOME", "INVALID_OUTCOME", "WON_WITHOUT_PARTICIPATION",
  "FORMULA_CELL", "OUT_OF_SCOPE_COMMUNE", "DUPLICATE_ROW_IN_FILE",
  "CONFLICTING_DUPLICATE_IN_FILE", "CONFLICTING_CHRONOLOGY_IN_FILE", "IDENTITY_CONFLICT",
  "ALREADY_RECORDED", "CONFLICTS_WITH_EXISTING_HISTORY", "ALREADY_A_WINNER",
  "CONTRADICTS_WINNER_CHRONOLOGY", "MISSING_GENDER_FOR_NEW_PARTICIPANT",
  "MISSING_PHONE_NUMBER_FOR_NEW_PARTICIPANT", "INVALID_PHONE_NUMBER", "PHONE_NUMBER_DIFFERS",
  "INSUFFICIENT_HISTORICAL_AGE_EVIDENCE", "INSUFFICIENT_HISTORICAL_GENDER_EVIDENCE",
  "INSUFFICIENT_HISTORICAL_MAHRAM_EVIDENCE", "INVALID_REGISTERED_AT",
  "UNDER_MINIMUM_AGE_AT_REGISTRATION", "INVALID_GENDER"}

Warnings == {"INVALID_PHONE_NUMBER", "PHONE_NUMBER_DIFFERS", "DUPLICATE_ROW_IN_FILE",
  "ALREADY_RECORDED", "INSUFFICIENT_HISTORICAL_AGE_EVIDENCE",
  "INSUFFICIENT_HISTORICAL_GENDER_EVIDENCE", "INSUFFICIENT_HISTORICAL_MAHRAM_EVIDENCE"}

ConflictCodes == {"CONFLICTING_DUPLICATE_IN_FILE", "CONFLICTING_CHRONOLOGY_IN_FILE",
  "IDENTITY_CONFLICT", "CONFLICTS_WITH_EXISTING_HISTORY", "ALREADY_A_WINNER",
  "CONTRADICTS_WINNER_CHRONOLOGY", "OUT_OF_SCOPE_COMMUNE"}

------------------------------------------------------------------------------
(* One line on its own: the issues its cells raise, and the values kept.     *)

Kept(cell) == IF cell \in {Blank, Garbage, "implausible"} THEN Null ELSE cell

Missing(cell, code) == IF cell = Blank THEN {code} ELSE {}
Invalid(cell, code) == IF cell = Garbage THEN {code} ELSE {}

StageNationalId(cell) ==
  Missing(cell, "MISSING_NATIONAL_ID") \cup Invalid(cell, "INVALID_NATIONAL_ID")

\* A formula is kept as it is: refusing it is not the name's business.
StageName(cell) ==
  Missing(cell, "MISSING_NAME") \cup Invalid(cell, "INVALID_NAME")

FormulaIssues(cell) == IF cell = "formula" THEN {"FORMULA_CELL"} ELSE {}

StageDob(cell) ==
  Missing(cell, "MISSING_DOB") \cup
  IF cell \in {Garbage, "implausible"} THEN {"INVALID_DOB"} ELSE {}

StagePhone(cell) == Invalid(cell, "INVALID_PHONE_NUMBER")

StageCommune(cell) ==
  CASE cell = Blank -> {"MISSING_COMMUNE_CODE"}
    [] cell = Garbage -> {"UNKNOWN_COMMUNE"}
    [] cell \in Communes \ Allowed -> {"OUT_OF_SCOPE_COMMUNE"}
    [] OTHER -> {}

StageDrawYear(cell) ==
  CASE cell = NoYear -> {"MISSING_DRAW_YEAR"}
    [] cell = BadYear -> {"INVALID_DRAW_YEAR"}
    [] cell > LastYear -> {"FUTURE_DRAW_YEAR"}
    [] OTHER -> {}

\* Neither may be inferred: a blank is an error, never a no.
StageOutcome(participated, won) ==
  Missing(participated, "MISSING_PARTICIPATION") \cup
  Invalid(participated, "INVALID_PARTICIPATION") \cup
  Missing(won, "MISSING_OUTCOME") \cup Invalid(won, "INVALID_OUTCOME") \cup
  IF participated = "no" /\ won = "yes" THEN {"WON_WITHOUT_PARTICIPATION"} ELSE {}

StageGender(cell) ==
  Missing(cell, "INSUFFICIENT_HISTORICAL_GENDER_EVIDENCE") \cup Invalid(cell, "INVALID_GENDER")

StageRegisteredAt(cell) ==
  Missing(cell, "INSUFFICIENT_HISTORICAL_AGE_EVIDENCE") \cup
  Invalid(cell, "INVALID_REGISTERED_AT")

AgeIssues(line) ==
  IF Kept(line.dob) = Null THEN {}
  ELSE IF line.registered = "minor" THEN {"UNDER_MINIMUM_AGE_AT_REGISTRATION"}
  ELSE IF line.registered = "under45" /\ line.gender = "FEMALE"
       THEN {"INSUFFICIENT_HISTORICAL_MAHRAM_EVIDENCE"} ELSE {}

\* The file carries every column, so an empty cell is a gap.
StageRow(line) ==
  [values |-> [c \in Columns |->
     CASE c = "year" -> IF line.year \in Years THEN line.year ELSE NoYear
       [] OTHER -> Kept(line[c])],
   issues |-> FormulaIssues(line.name) \cup StageNationalId(line.nationalId)
     \cup StageName(line.name) \cup StageDob(line.dob) \cup StagePhone(line.phone)
     \cup StageCommune(line.commune) \cup StageDrawYear(line.year)
     \cup StageOutcome(line.participated, line.won) \cup StageGender(line.gender)
     \cup StageRegisteredAt(line.registered) \cup AgeIssues(line)]

------------------------------------------------------------------------------
(* The lines of a file against each other: row i of the staged rows.         *)

SamePerson(rows, i, j) ==
  rows[i].values.nationalId # Null /\ rows[i].values.nationalId = rows[j].values.nationalId

SameYear(rows, i, j) ==
  /\ SamePerson(rows, i, j)
  /\ rows[i].values.year # NoYear
  /\ rows[i].values.year = rows[j].values.year

SameClaim(a, b) ==
  \A c \in {"participated", "won", "commune"} : a.values[c] = b.values[c]

\* Repeats that all agree are consolidated into the first; one that does not makes
\* all of them a question.
DetectDuplicateYears(rows, i) ==
  LET repeats == {j \in DOMAIN rows : SameYear(rows, i, j)}
      first == CHOOSE j \in repeats : \A k \in repeats : j <= k
  IN
  IF Cardinality(repeats) < 2 THEN {}
  ELSE IF \E j \in repeats : ~ SameClaim(rows[j], rows[first])
       THEN {"CONFLICTING_DUPLICATE_IN_FILE"}
  ELSE IF i = first THEN {} ELSE {"DUPLICATE_ROW_IN_FILE"}

\* Faulty: a second win is seen, a draw entered after the win is not.
ChronologyOfWins(rows, i) ==
  LET wins == {j \in DOMAIN rows : SamePerson(rows, i, j) /\ rows[j].values.won = "yes"
                                   /\ rows[j].values.year # NoYear}
  IN IF Cardinality(wins) > 1 /\ i \in wins THEN {"CONFLICTING_CHRONOLOGY_IN_FILE"} ELSE {}

\* Two wins, or a draw entered after the win, cannot have happened.
DetectChronology(rows, i) ==
  LET wins == {j \in DOMAIN rows : SamePerson(rows, i, j) /\ rows[j].values.won = "yes"
                                   /\ rows[j].values.year # NoYear}
      contradicts ==
        IF Cardinality(wins) > 1 THEN i \in wins
        ELSE \E w \in wins : /\ rows[i].values.year > rows[w].values.year
                             /\ rows[i].values.participated = "yes"
  IN IF contradicts THEN {"CONFLICTING_CHRONOLOGY_IN_FILE"} ELSE {}

------------------------------------------------------------------------------
(* A row against the database: what it knows of each person, by identity.    *)

Outcomes == {"none", "stayed", "lost", "won"}

Unknown == [registered |-> FALSE]

\* A ledger year in the words of a row, all of them in the one commune.
OutcomeOf(row) ==
  IF row.values.participated = "no" THEN "stayed"
  ELSE IF row.values.won = "yes" THEN "won" ELSE "lost"

CheckNewParticipant(row) ==
  (IF row.values.gender = Null THEN {"MISSING_GENDER_FOR_NEW_PARTICIPANT"} ELSE {}) \cup
  (IF row.values.phone = Null THEN {"MISSING_PHONE_NUMBER_FOR_NEW_PARTICIPANT"} ELSE {})

\* The identity the registry holds of everybody it knows is "A".
CheckIdentity(row) ==
  (IF row.values.name \notin {Null, "A"} \/ row.values.dob \notin {Null, "A"}
   THEN {"IDENTITY_CONFLICT"} ELSE {}) \cup
  (IF row.values.phone \notin {Null, "A"} THEN {"PHONE_NUMBER_DIFFERS"} ELSE {})

CheckExistingHistory(row, person) ==
  LET year == row.values.year
      agrees ==
        /\ row.values.participated \in {"yes", "no"}
        /\ row.values.won \in {"yes", "no"}
        /\ ~ (row.values.participated = "no" /\ row.values.won = "yes")
        /\ person.history[year] = OutcomeOf(row)
        /\ row.values.commune = person.commune
  IN
  IF year = NoYear THEN {}
  ELSE IF person.history[year] = "none" THEN {}
  ELSE IF agrees THEN {"ALREADY_RECORDED"} ELSE {"CONFLICTS_WITH_EXISTING_HISTORY"}

\* The latest year the ledger or either table of winners names.
WinningYear(person) ==
  LET years == person.wins \cup {y \in Years : person.history[y] = "won"}
  IN IF years = {} THEN NoYear ELSE CHOOSE y \in years : \A z \in years : z <= y

CheckWinnerCoherence(row, person) ==
  IF ~ person.hasWon THEN {}
  ELSE IF row.values.won = "yes" THEN {"ALREADY_A_WINNER"}
  ELSE IF WinningYear(person) # NoYear /\ row.values.year > WinningYear(person)
       THEN {"CONTRADICTS_WINNER_CHRONOLOGY"} ELSE {}

DetectDatabaseConflicts(row, known) ==
  LET id == row.values.nationalId IN
  IF id = Null THEN {}
  ELSE IF ~ known[id].registered THEN CheckNewParticipant(row)
  ELSE CheckIdentity(row) \cup CheckExistingHistory(row, known[id])
       \cup CheckWinnerCoherence(row, known[id])

------------------------------------------------------------------------------
ResolveRowStatus(issues) ==
  IF issues = {} THEN "VALID"
  ELSE IF issues \subseteq Warnings THEN "WARNING"
  ELSE IF issues \ Warnings \subseteq ConflictCodes THEN "CONFLICT" ELSE "INVALID"

\* The staged rows of a file, with everything found about each.
StageFile(file, known) ==
  LET rows == [i \in DOMAIN file |-> StageRow(file[i])] IN
  [i \in DOMAIN file |->
     [rows[i] EXCEPT !.issues = @ \cup DetectDuplicateYears(rows, i)
        \cup DetectChronology(rows, i) \cup DetectDatabaseConflicts(rows[i], known)]]

Blocks(row) == ResolveRowStatus(row.issues) \in {"CONFLICT", "INVALID"}

Importable(rows) == \A i \in DOMAIN rows : ~ Blocks(rows[i])

\* The rows an import writes: neither recorded already nor a repeat.
Writable(rows) ==
  {i \in DOMAIN rows : rows[i].issues \cap {"ALREADY_RECORDED", "DUPLICATE_ROW_IN_FILE"} = {}}

==============================================================================
