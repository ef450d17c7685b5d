-------------------------- MODULE LegacyImportProofs --------------------------
(***************************************************************************)
(* Proofs about LegacyImport, for any registers, people and number of      *)
(* batches at a time: an import spends what was there to spend, writes     *)
(* over nothing, and leaves no line of its register behind; about the      *)
(* verdicts it rests on (ImportVerdicts); and about the reader of the      *)
(* files it is given (ImportFile).                                         *)
(***************************************************************************)
EXTENDS ImportVerdicts, ImportFile, FiniteSetTheorems, SequenceTheorems, Induction, TLAPS

\* What a register's lines say, once read.
Values == {StageRow(File[b][i]).values : b \in Batches, i \in UNION {DOMAIN File[o] : o \in Batches}}

StagedRow == [values : Values, issues : SUBSET IssueCodes]

BatchRow(b) ==
  [status : Status, uploader : Admins, approver : Admins \cup {Null},
   rows : {<<>>} \cup [DOMAIN File[b] -> StagedRow], stored : 0 .. Len(File[b])]

Fact == [person : People, year : Years, outcome : Outcomes \ {"none"}, found : BOOLEAN]

\* The shape of the tables, of the uploads at work and of the imports at work.
TypeInv ==
  /\ batch \in [Batches -> {Absent} \cup UNION {BatchRow(b) : b \in Batches}]
  /\ \A b \in Batches : batch[b] = Absent \/ batch[b] \in BatchRow(b)
  /\ working \subseteq {b \in Batches : batch[b] # Absent}
  /\ DOMAIN plan \subseteq Batches
  /\ \A b \in DOMAIN plan : batch[b] # Absent /\ batch[b].status = "APPROVED" /\ plan[b] \subseteq Fact
  /\ registered \subseteq People /\ Pooled \subseteq registered
  /\ excluded \subseteq registered
  /\ archived \in [People -> {NoYear} \cup Years]
  /\ legacy \in [People -> {NoYear} \cup Years]
  /\ ledger \in [People -> [Years -> Outcomes]]
  /\ corrections \in Nat

\* Whoever any table calls a winner is excluded, as long as nobody corrects the ledger by hand.
WinnersExcluded == \A p \in People :
  /\ archived[p] # NoYear \/ legacy[p] # NoYear => p \in excluded
  /\ corrections = 0 => \A y \in Years : ledger[p][y] = "won" => p \in excluded

\* A batch is under review when its rows are stored, has an approver once it is approved, and
\* that is not who brought it.
WholeBatch(b, upload) ==
  /\ upload.stored <= Len(upload.rows)
  /\ upload.status \in {"UPLOADED", "VALIDATING", "READY_FOR_REVIEW"} => upload.approver = Null
  /\ upload.approver # upload.uploader
  /\ upload.status \in {"READY_FOR_REVIEW", "APPROVED", "REJECTED", "IMPORTED"} =>
       upload.stored = Len(File[b])

StagedWhole == \A b \in Batches : batch[b] # Absent => WholeBatch(b, batch[b])

\* A ledger has the year a line is about.
InLedger(v, known, book) ==
  v.nationalId \in known /\ v.year \in Years /\ book[v.nationalId][v.year] # "none"

Checked(b) == [i \in DOMAIN File[b] |-> StageRow(File[b][i])]

\* A stored row says what its line says, carries the issues found in the file, and is called
\* recorded only when the ledger has its year.
AsRead(b, i, row, known, book) ==
  /\ row.values = Checked(b)[i].values
  /\ Checked(b)[i].issues \cup DetectDuplicateYears(Checked(b), i) \subseteq row.issues
  /\ "DUPLICATE_ROW_IN_FILE" \in row.issues =>
       "DUPLICATE_ROW_IN_FILE" \in DetectDuplicateYears(Checked(b), i)
  /\ "ALREADY_RECORDED" \in row.issues => InLedger(row.values, known, book)

StagedAsRead == \A b \in Batches : batch[b] # Absent =>
  \A i \in DOMAIN batch[b].rows : AsRead(b, i, batch[b].rows[i], registered, ledger)

\* A line is spoken for by a fact, or by the ledger, in the line's own words as long as nobody
\* has corrected it.
SpokenFor(row, facts, known, book, corrected) ==
  /\ row.values.nationalId \in People
  /\ row.values.year \in Years
  /\ row.values.won = "yes" => OutcomeOf(row) = "won"
  /\ \/ \E f \in facts : /\ f.person = row.values.nationalId /\ f.year = row.values.year
                         /\ f.outcome = OutcomeOf(row)
     \/ /\ InLedger(row.values, known, book)
        /\ corrected = 0 => book[row.values.nationalId][row.values.year] = OutcomeOf(row)

OneOutcome(facts) == \A f, g \in facts : f.person = g.person /\ f.year = g.year => f.outcome = g.outcome

\* An import at work is about to write all of its register, and one fact a year of a person.
PlansWhole == \A b \in DOMAIN plan :
  /\ \A i \in DOMAIN batch[b].rows :
       SpokenFor(batch[b].rows[i], plan[b], registered, ledger, corrections)
  /\ OneOutcome(plan[b])

\* An imported batch is in the ledger in its own words.
ImportsWhole == \A b \in Batches : batch[b] # Absent /\ batch[b].status = "IMPORTED" =>
  \A i \in DOMAIN batch[b].rows :
    SpokenFor(batch[b].rows[i], {}, registered, ledger, corrections)

IInv == TypeInv /\ WinnersExcluded /\ StagedWhole /\ StagedAsRead /\ PlansWhole /\ ImportsWhole

------------------------------------------------------------------------------
(* One line.                                                                *)

\* What a line says of a person is what its cells say, where they can be read.
LEMMA LineRead == \A line :
  LET v == StageRow(line).values
  IN /\ v.nationalId = Kept(line.nationalId)
     /\ v.participated = Kept(line.participated)
     /\ v.won = Kept(line.won)
     /\ v.year = IF line.year \in Years THEN line.year ELSE NoYear
  BY DEF StageRow, Columns, Cells

LEMMA LinesRead ==
  ASSUME NEW b \in Batches, NEW i \in DOMAIN File[b]
  PROVE  LET line == File[b][i]
             v == StageRow(line).values
         IN /\ v.nationalId = Kept(line.nationalId)
            /\ v.participated = Kept(line.participated)
            /\ v.won = Kept(line.won)
            /\ v.year = IF line.year \in Years THEN line.year ELSE NoYear
  BY LineRead

\* A row that does not block has nothing but warnings.
LEMMA NotBlocked == \A row : ~ Blocks(row) => row.issues \subseteq Warnings
  BY DEF Blocks, ResolveRowStatus

IsLine(line) == DOMAIN line = Columns /\ \A c \in Columns : line[c] \in Cells[c]

\* A line that raises nothing but warnings can be read: whom it is about, of which year, and
\* what it says became of them.
LEMMA AnyReadableLine ==
  ASSUME NEW line, IsLine(line), StageRow(line).issues \subseteq Warnings
  PROVE  LET v == StageRow(line).values IN
         /\ v.nationalId \in People /\ v.nationalId # Null
         /\ v.year \in Years /\ v.year # NoYear
         /\ v.participated \in {"yes", "no"} /\ v.won \in {"yes", "no"}
         /\ v.won = "yes" => v.participated = "yes"
  <1> DEFINE v == StageRow(line).values
  <1>1. /\ StageNationalId(line.nationalId) \subseteq Warnings
        /\ StageDrawYear(line.year) \subseteq Warnings
        /\ StageOutcome(line.participated, line.won) \subseteq Warnings
    BY DEF StageRow
  <1>2. /\ line.nationalId \in {Blank, Garbage} \cup People
        /\ line.year \in {NoYear, BadYear, LastYear + 1} \cup Years
        /\ line.participated \in {Blank, Garbage, "yes", "no"}
        /\ line.won \in {Blank, Garbage, "yes", "no"}
    BY DEF IsLine, Columns, Cells
  <1>3. line.nationalId \in People
    <2>1. "MISSING_NATIONAL_ID" \notin Warnings /\ "INVALID_NATIONAL_ID" \notin Warnings
      BY DEF Warnings
    <2> QED
      BY <1>1, <1>2, <2>1 DEF StageNationalId, Missing, Invalid
  <1>4. line.year \in Years
    <2>1. /\ "MISSING_DRAW_YEAR" \notin Warnings /\ "INVALID_DRAW_YEAR" \notin Warnings
          /\ "FUTURE_DRAW_YEAR" \notin Warnings
      BY DEF Warnings
    <2>2. line.year # NoYear /\ line.year # BadYear
      BY <1>1, <2>1 DEF StageDrawYear, NoYear, BadYear
    <2>3. LastYear + 1 > LastYear /\ LastYear + 1 # NoYear /\ LastYear + 1 # BadYear
      BY ImportAssumption DEF NoYear, BadYear
    <2>4. line.year # LastYear + 1
      BY <1>1, <2>1, <2>3 DEF StageDrawYear
    <2> QED
      BY <1>2, <2>2, <2>4
  <1>5. /\ line.participated \in {"yes", "no"} /\ line.won \in {"yes", "no"}
        /\ line.won = "yes" => line.participated = "yes"
    <2>1. /\ "MISSING_PARTICIPATION" \notin Warnings /\ "INVALID_PARTICIPATION" \notin Warnings
          /\ "MISSING_OUTCOME" \notin Warnings /\ "INVALID_OUTCOME" \notin Warnings
          /\ "WON_WITHOUT_PARTICIPATION" \notin Warnings
      BY DEF Warnings
    <2>2. line.participated # Blank /\ line.participated # Garbage
      BY <1>1, <2>1 DEF StageOutcome, Missing, Invalid, Blank, Garbage
    <2>3. line.won # Blank /\ line.won # Garbage
      BY <1>1, <2>1 DEF StageOutcome, Missing, Invalid, Blank, Garbage
    <2>4. ~ (line.participated = "no" /\ line.won = "yes")
      BY <1>1, <2>1 DEF StageOutcome
    <2> QED
      BY <1>2, <2>2, <2>3, <2>4
  <1>6. \A p \in People : Kept(p) = p /\ p # Null
    BY ImportAssumption DEF Kept
  <1>7. Kept("yes") = "yes" /\ Kept("no") = "no"
    BY DEF Kept, Blank, Garbage
  <1>8. \A y \in Years : y # NoYear
    BY ImportAssumption DEF Years, NoYear
  <1>9. /\ v.nationalId = Kept(line.nationalId) /\ v.participated = Kept(line.participated)
        /\ v.won = Kept(line.won) /\ v.year = IF line.year \in Years THEN line.year ELSE NoYear
    BY LineRead
  <1> HIDE DEF v
  <1>10. /\ v.nationalId \in People /\ v.nationalId # Null
         /\ v.year \in Years /\ v.year # NoYear
         /\ v.participated \in {"yes", "no"} /\ v.won \in {"yes", "no"}
         /\ v.won = "yes" => v.participated = "yes"
    BY <1>3, <1>4, <1>5, <1>6, <1>7, <1>8, <1>9
  <1> QED
    BY <1>10 DEF v

LEMMA ReadableLine ==
  ASSUME NEW b \in Batches, NEW i \in DOMAIN File[b], StageRow(File[b][i]).issues \subseteq Warnings
  PROVE  LET v == StageRow(File[b][i]).values IN
         /\ v.nationalId \in People /\ v.nationalId # Null
         /\ v.year \in Years /\ v.year # NoYear
         /\ v.participated \in {"yes", "no"} /\ v.won \in {"yes", "no"}
         /\ v.won = "yes" => v.participated = "yes"
  <1>1. IsLine(File[b][i])
    BY BatchAssumption DEF IsLine
  <1> QED
    BY <1>1, AnyReadableLine

------------------------------------------------------------------------------
(* The lines of a file.                                                     *)

Repeats(rows, i) == {j \in DOMAIN rows : SameYear(rows, i, j)}
FirstOf(S) == CHOOSE j \in S : \A k \in S : j <= k

\* The check of repeated years, in these words.
LEMMA DuplicateYears == \A rows, i :
  DetectDuplicateYears(rows, i) =
    IF Cardinality(Repeats(rows, i)) < 2 THEN {}
    ELSE IF \E j \in Repeats(rows, i) : ~ SameClaim(rows[j], rows[FirstOf(Repeats(rows, i))])
         THEN {"CONFLICTING_DUPLICATE_IN_FILE"}
    ELSE IF i = FirstOf(Repeats(rows, i)) THEN {} ELSE {"DUPLICATE_ROW_IN_FILE"}
  BY DEF DetectDuplicateYears, Repeats, FirstOf

\* Lines that repeat each other have the same repeats, and the same first one.
LEMMA RepeatsShared ==
  ASSUME NEW rows, NEW i, NEW j, SameYear(rows, i, j)
  PROVE  Repeats(rows, i) = Repeats(rows, j) /\ FirstOf(Repeats(rows, i)) = FirstOf(Repeats(rows, j))
  <1>1. Repeats(rows, i) = Repeats(rows, j)
    BY DEF Repeats, SameYear, SamePerson
  <1> QED
    BY <1>1, Zenon

\* The first of some lines is one of them.
LEMMA FirstIsOne ==
  ASSUME NEW n \in Nat, NEW S \in SUBSET (1 .. n), S # {}
  PROVE  FirstOf(S) \in S
  <1>1. S \in SUBSET Nat
    OBVIOUS
  <1>2. PICK x \in S : TRUE
    OBVIOUS
  <1>3. \E j \in S : \A k \in S : j <= k
    BY <1>1, <1>2, LeastNumber
  <1> QED
    BY <1>3, Zenon DEF FirstOf

\* A line called a duplicate repeats a line that is called nothing and says the same.
LEMMA DuplicateOfFirst ==
  ASSUME NEW rows, NEW n \in Nat, DOMAIN rows = 1 .. n, NEW i \in 1 .. n,
         "DUPLICATE_ROW_IN_FILE" \in DetectDuplicateYears(rows, i)
  PROVE  \E f \in 1 .. n : /\ SameYear(rows, i, f) /\ SameClaim(rows[i], rows[f])
                           /\ DetectDuplicateYears(rows, f) = {}
  <1> DEFINE first == FirstOf(Repeats(rows, i))
  <1>1. /\ ~ (Cardinality(Repeats(rows, i)) < 2)
        /\ \A j \in Repeats(rows, i) : SameClaim(rows[j], rows[first])
    <2>1. PICK S, d, m : S = Repeats(rows, i) /\ d = FirstOf(Repeats(rows, i)) /\ m = Cardinality(S)
      OBVIOUS
    <2>2. DetectDuplicateYears(rows, i) =
            IF m < 2 THEN {}
            ELSE IF \E j \in S : ~ SameClaim(rows[j], rows[d])
                 THEN {"CONFLICTING_DUPLICATE_IN_FILE"}
            ELSE IF i = d THEN {} ELSE {"DUPLICATE_ROW_IN_FILE"}
      BY <2>1, DuplicateYears, Zenon
    <2>3. ~ (m < 2) /\ \A j \in S : SameClaim(rows[j], rows[d])
      BY <2>2
    <2> QED
      BY <2>1, <2>3
  <1>2. Repeats(rows, i) \in SUBSET (1 .. n)
    BY DEF Repeats
  <1>3. Repeats(rows, i) # {}
    <2>1. Cardinality({}) = 0
      BY FS_EmptySet
    <2> QED
      BY <1>1, <2>1
  <1>4. first \in Repeats(rows, i)
    BY <1>2, <1>3, FirstIsOne
  <1>5. SameYear(rows, i, first)
    BY <1>4 DEF Repeats
  <1>6. Repeats(rows, first) = Repeats(rows, i) /\ FirstOf(Repeats(rows, first)) = first
    BY <1>5, RepeatsShared, Zenon
  <1>7. i \in Repeats(rows, i)
    BY <1>5 DEF Repeats, SameYear, SamePerson
  <1>8. DetectDuplicateYears(rows, first) = {}
    <2> HIDE DEF first
    <2>1. PICK S : S = Repeats(rows, i) /\ S = Repeats(rows, first)
      BY <1>6
    <2>2. DetectDuplicateYears(rows, first) =
            IF Cardinality(S) < 2 THEN {}
            ELSE IF \E j \in S : ~ SameClaim(rows[j], rows[first])
                 THEN {"CONFLICTING_DUPLICATE_IN_FILE"}
            ELSE IF first = first THEN {} ELSE {"DUPLICATE_ROW_IN_FILE"}
      BY <1>6, <2>1, DuplicateYears, Zenon
    <2> QED
      BY <1>1, <2>1, <2>2
  <1> QED
    BY <1>1, <1>2, <1>4, <1>5, <1>7, <1>8

\* Of two lines about the same year of a person, one is called something.
LEMMA RepeatsAreCalled ==
  ASSUME NEW rows, NEW n \in Nat, DOMAIN rows = 1 .. n, NEW i \in 1 .. n, NEW j \in 1 .. n,
         SameYear(rows, i, j), i # j
  PROVE  \/ DetectDuplicateYears(rows, i) # {} /\ DetectDuplicateYears(rows, i) \subseteq
              {"DUPLICATE_ROW_IN_FILE", "CONFLICTING_DUPLICATE_IN_FILE"}
         \/ DetectDuplicateYears(rows, j) # {} /\ DetectDuplicateYears(rows, j) \subseteq
              {"DUPLICATE_ROW_IN_FILE", "CONFLICTING_DUPLICATE_IN_FILE"}
  <1>1. Repeats(rows, i) = Repeats(rows, j) /\ FirstOf(Repeats(rows, i)) = FirstOf(Repeats(rows, j))
    BY RepeatsShared, Zenon
  <1>2. i \in Repeats(rows, i) /\ j \in Repeats(rows, i) /\ Repeats(rows, i) \in SUBSET (1 .. n)
    BY DEF Repeats, SameYear, SamePerson
  <1>3. IsFiniteSet(Repeats(rows, i))
    <2>1. IsFiniteSet(1 .. n)
      BY FS_Interval
    <2> QED
      BY <1>2, <2>1, FS_Subset
  <1>4. ~ (Cardinality(Repeats(rows, i)) < 2)
    <2>1. Cardinality(Repeats(rows, i)) \in Nat
      BY <1>3, FS_CardinalityType
    <2>2. Cardinality(Repeats(rows, i)) # 0
      BY <1>2, <1>3, FS_EmptySet
    <2>3. Cardinality(Repeats(rows, i)) # 1
      BY <1>2, <1>3, FS_Singleton
    <2> QED
      BY <2>1, <2>2, <2>3
  <1>5. PICK S, first : /\ S = Repeats(rows, i) /\ S = Repeats(rows, j)
                        /\ first = FirstOf(Repeats(rows, i)) /\ first = FirstOf(Repeats(rows, j))
    BY <1>1
  <1>6. \A k \in {i, j} :
          DetectDuplicateYears(rows, k) =
            IF Cardinality(S) < 2 THEN {}
            ELSE IF \E l \in S : ~ SameClaim(rows[l], rows[first])
                 THEN {"CONFLICTING_DUPLICATE_IN_FILE"}
            ELSE IF k = first THEN {} ELSE {"DUPLICATE_ROW_IN_FILE"}
    BY <1>5, DuplicateYears, Zenon
  <1>7. ~ (Cardinality(S) < 2)
    BY <1>4, <1>5
  <1>8. PICK k \in {i, j} : k # first
    OBVIOUS
  <1>9. DetectDuplicateYears(rows, k) = {"DUPLICATE_ROW_IN_FILE"}
        \/ DetectDuplicateYears(rows, k) = {"CONFLICTING_DUPLICATE_IN_FILE"}
    BY <1>6, <1>7, <1>8
  <1> QED
    BY <1>8, <1>9

------------------------------------------------------------------------------
(* A line against the database.                                             *)

\* A line alone is never called a repeat, nor recorded.
LEMMA AloneIsNeither == \A line :
  /\ "DUPLICATE_ROW_IN_FILE" \notin StageRow(line).issues
  /\ "ALREADY_RECORDED" \notin StageRow(line).issues
  BY DEF StageRow, FormulaIssues, StageNationalId, StageName, StageDob, StagePhone, StageCommune,
         StageDrawYear, StageOutcome, StageGender, StageRegisteredAt, AgeIssues, Missing, Invalid

\* The lines of a file against each other are never called recorded.
LEMMA FileIsNotRecord == \A rows, i :
  /\ "ALREADY_RECORDED" \notin DetectDuplicateYears(rows, i)
  /\ DetectChronology(rows, i) \subseteq {"CONFLICTING_CHRONOLOGY_IN_FILE"}
  BY DEF DetectDuplicateYears, DetectChronology

\* What the database makes of a row: it calls it recorded just when the ledger has the year in
\* the row's own words, and blocks it when the ledger has it in others.
LEMMA JudgedByDatabase ==
  ASSUME NEW row, NEW known, NEW id, id = row.values.nationalId
  PROVE  LET year == row.values.year
             codes == DetectDatabaseConflicts(row, known)
         IN /\ "DUPLICATE_ROW_IN_FILE" \notin codes
            /\ "ALREADY_RECORDED" \in codes =>
                 id # Null /\ known[id].registered /\ year # NoYear
                 /\ known[id].history[year] # "none"
            /\ codes \subseteq Warnings /\ id # Null /\ known[id].registered /\ year # NoYear
               /\ known[id].history[year] # "none" =>
                 "ALREADY_RECORDED" \in codes /\ known[id].history[year] = OutcomeOf(row)
  <1> DEFINE year == row.values.year
             codes == DetectDatabaseConflicts(row, known)
             history == CheckExistingHistory(row, known[id])
  <1>1. /\ CheckNewParticipant(row) \subseteq
             {"MISSING_GENDER_FOR_NEW_PARTICIPANT", "MISSING_PHONE_NUMBER_FOR_NEW_PARTICIPANT"}
        /\ CheckIdentity(row) \subseteq {"IDENTITY_CONFLICT", "PHONE_NUMBER_DIFFERS"}
    BY DEF CheckNewParticipant, CheckIdentity
  <1>2. CheckWinnerCoherence(row, known[id]) \subseteq
          {"ALREADY_A_WINNER", "CONTRADICTS_WINNER_CHRONOLOGY"}
    BY DEF CheckWinnerCoherence
  <1>3. IF id = Null THEN codes = {}
        ELSE IF ~ known[id].registered THEN codes = CheckNewParticipant(row)
        ELSE codes = CheckIdentity(row) \cup history \cup CheckWinnerCoherence(row, known[id])
    BY DEF DetectDatabaseConflicts
  <1>4. /\ history \in {{}, {"ALREADY_RECORDED"}, {"CONFLICTS_WITH_EXISTING_HISTORY"}}
        /\ "ALREADY_RECORDED" \in history => year # NoYear /\ known[id].history[year] # "none"
        /\ year # NoYear /\ known[id].history[year] # "none" =>
             \/ history = {"CONFLICTS_WITH_EXISTING_HISTORY"}
             \/ history = {"ALREADY_RECORDED"} /\ known[id].history[year] = OutcomeOf(row)
    BY DEF CheckExistingHistory
  <1>5. "CONFLICTS_WITH_EXISTING_HISTORY" \notin Warnings
    BY DEF Warnings
  <1> HIDE DEF codes, history
  <1> QED
    BY <1>1, <1>2, <1>3, <1>4, <1>5 DEF codes

\* What staging makes of a line of a register.
LEMMA StagedLine ==
  ASSUME NEW b \in Batches, NEW known, NEW i \in DOMAIN File[b]
  PROVE  LET row == StageFile(File[b], known)[i]
             codes == DetectDatabaseConflicts(Checked(b)[i], known)
         IN /\ row.values = Checked(b)[i].values
            /\ row.issues = Checked(b)[i].issues \cup DetectDuplicateYears(Checked(b), i)
                              \cup DetectChronology(Checked(b), i) \cup codes
            /\ DOMAIN row = {"values", "issues"}
  BY DEF StageFile, Checked, StageRow

\* Every issue a row may be called is a code.
LEMMA IssuesAreCodes ==
  /\ \A line : StageRow(line).issues \subseteq IssueCodes
  /\ \A rows, i : DetectDuplicateYears(rows, i) \cup DetectChronology(rows, i) \subseteq IssueCodes
  /\ \A row, known : DetectDatabaseConflicts(row, known) \subseteq IssueCodes
  <1>1. \A line : StageRow(line).issues \subseteq IssueCodes
    <2> TAKE line
    <2>1. FormulaIssues(line.name) \cup StageName(line.name) \cup StageDob(line.dob)
            \cup StagePhone(line.phone) \subseteq IssueCodes
      BY DEF FormulaIssues, StageName, StageDob, StagePhone, Missing, Invalid, IssueCodes
    <2>2. StageNationalId(line.nationalId) \cup StageCommune(line.commune)
            \cup StageDrawYear(line.year) \subseteq IssueCodes
      BY DEF StageNationalId, StageCommune, StageDrawYear, Missing, Invalid, IssueCodes
    <2>3. StageOutcome(line.participated, line.won) \subseteq IssueCodes
      BY DEF StageOutcome, Missing, Invalid, IssueCodes
    <2>4. StageGender(line.gender) \cup StageRegisteredAt(line.registered)
            \cup AgeIssues(line) \subseteq IssueCodes
      BY DEF StageGender, StageRegisteredAt, AgeIssues, Missing, Invalid, IssueCodes
    <2> QED
      BY <2>1, <2>2, <2>3, <2>4 DEF StageRow
  <1>2. \A rows, i : DetectDuplicateYears(rows, i) \cup DetectChronology(rows, i) \subseteq IssueCodes
    BY DEF DetectDuplicateYears, DetectChronology, IssueCodes
  <1>3. \A row, known : DetectDatabaseConflicts(row, known) \subseteq IssueCodes
    <2>1. \A row : CheckNewParticipant(row) \cup CheckIdentity(row) \subseteq IssueCodes
      BY DEF CheckNewParticipant, CheckIdentity, IssueCodes
    <2>2. \A row, person : CheckExistingHistory(row, person) \subseteq IssueCodes
      BY DEF CheckExistingHistory, IssueCodes
    <2>3. \A row, person : CheckWinnerCoherence(row, person) \subseteq IssueCodes
      BY DEF CheckWinnerCoherence, IssueCodes
    <2> QED
      BY <2>1, <2>2, <2>3 DEF DetectDatabaseConflicts
  <1> QED
    BY <1>1, <1>2, <1>3

\* What the database says of a person is what its tables hold.
LEMMA KnownIsLedger ==
  ASSUME TypeInv
  PROVE  \A p \in People : /\ Known[p].registered <=> p \in registered
                           /\ p \in registered => Known[p].history = ledger[p]
  BY DEF Known, Unknown, TypeInv

\* A stored row is one of its register's lines.
LEMMA StoredRow ==
  ASSUME TypeInv, NEW b \in Batches, batch[b] # Absent, NEW i \in DOMAIN batch[b].rows
  PROVE  /\ DOMAIN batch[b].rows = DOMAIN File[b]
         /\ i \in DOMAIN File[b]
         /\ batch[b].rows[i] \in StagedRow
  <1>1. batch[b].rows \in {<<>>} \cup [DOMAIN File[b] -> StagedRow]
    BY DEF TypeInv, BatchRow
  <1>2. batch[b].rows # <<>>
    OBVIOUS
  <1> QED
    BY <1>1, <1>2

\* A line names somebody the register may be about, or nobody; and a year that was, or none.
LEMMA WhatLinesName ==
  ASSUME NEW b \in Batches, NEW i \in DOMAIN File[b]
  PROVE  /\ Checked(b)[i].values.nationalId \in People \cup {Null}
         /\ Checked(b)[i].values.year \in Years \cup {NoYear}
  <1>1. File[b][i].nationalId \in {Blank, Garbage} \cup People
    BY BatchAssumption DEF Columns, Cells
  <1> QED
    BY <1>1, LinesRead DEF Checked, Kept

\* Staging stores what the lines say and what was found of them, by the tables as they are.
LEMMA StagedFresh ==
  ASSUME TypeInv, NEW b \in Batches, NEW i \in DOMAIN File[b]
  PROVE  LET row == StageFile(File[b], Known)[i] IN
         row \in StagedRow /\ AsRead(b, i, row, registered, ledger)
  <1>1. PICK known, row, line, codes :
          /\ known = Known /\ row = StageFile(File[b], Known)[i] /\ line = Checked(b)[i]
          /\ codes = DetectDatabaseConflicts(Checked(b)[i], Known)
    OBVIOUS
  <1>2. /\ row.values = line.values
        /\ row.issues = line.issues \cup DetectDuplicateYears(Checked(b), i)
                          \cup DetectChronology(Checked(b), i) \cup codes
        /\ DOMAIN row = {"values", "issues"}
    BY <1>1, StagedLine
  <1>3. line = StageRow(File[b][i])
    BY <1>1 DEF Checked
  <1>4. line.values \in Values
    BY <1>3 DEF Values
  <1>5. row.issues \subseteq IssueCodes
    BY <1>1, <1>2, <1>3, IssuesAreCodes
  <1>6. row \in StagedRow
    BY <1>1, <1>2, <1>4, <1>5 DEF StagedRow, StageFile
  <1>7. /\ "DUPLICATE_ROW_IN_FILE" \notin line.issues /\ "ALREADY_RECORDED" \notin line.issues
        /\ "DUPLICATE_ROW_IN_FILE" \notin codes
        /\ "ALREADY_RECORDED" \in codes =>
             /\ line.values.nationalId # Null /\ Known[line.values.nationalId].registered
             /\ line.values.year # NoYear
             /\ Known[line.values.nationalId].history[line.values.year] # "none"
    BY <1>1, <1>3, AloneIsNeither, JudgedByDatabase
  <1>8. /\ "ALREADY_RECORDED" \notin DetectDuplicateYears(Checked(b), i)
        /\ DetectChronology(Checked(b), i) \subseteq {"CONFLICTING_CHRONOLOGY_IN_FILE"}
    BY FileIsNotRecord
  <1>9. /\ line.values.nationalId \in People \cup {Null}
        /\ line.values.year \in Years \cup {NoYear}
    BY <1>1, WhatLinesName
  <1>10. "ALREADY_RECORDED" \in row.issues => InLedger(row.values, registered, ledger)
    BY <1>2, <1>7, <1>8, <1>9, KnownIsLedger DEF InLedger
  <1> QED
    BY <1>1, <1>2, <1>6, <1>7, <1>8, <1>10 DEF AsRead

------------------------------------------------------------------------------
(* The plan of an import.                                                   *)

\* The rows of an import judged again are the stored rows, called what the database finds now.
LEMMA JudgedAgain ==
  ASSUME TypeInv, NEW b \in Batches, batch[b] # Absent, NEW i \in DOMAIN batch[b].rows
  PROVE  /\ DOMAIN Rechecked(b) = DOMAIN batch[b].rows
         /\ Rechecked(b)[i].values = batch[b].rows[i].values
         /\ Rechecked(b)[i].issues = DetectDatabaseConflicts(batch[b].rows[i], Known)
  <1>1. batch[b].rows[i] \in StagedRow
    BY StoredRow
  <1> QED
    BY <1>1 DEF Rechecked, StagedRow

MayImport(b) ==
  batch[b] # Absent /\ Importable(batch[b].rows) /\ Importable(Rechecked(b))

\* A line an import lets through names somebody, a year and an outcome; when the ledger has the
\* year already, it has it in the line's words; and the line is called recorded, or a repeat,
\* only when it is.
LEMMA LineLetThrough ==
  ASSUME TypeInv, StagedAsRead, NEW b \in Batches, MayImport(b), NEW i \in DOMAIN batch[b].rows
  PROVE  LET row == batch[b].rows[i]
             v == row.values
             called == row.issues \cup Rechecked(b)[i].issues
             repeats == DetectDuplicateYears(Checked(b), i)
         IN /\ v = Checked(b)[i].values
            /\ v.nationalId \in People /\ v.nationalId # Null
            /\ v.year \in Years /\ v.year # NoYear
            /\ OutcomeOf(row) \in Outcomes \ {"none"}
            /\ v.won = "yes" => OutcomeOf(row) = "won"
            /\ repeats \subseteq Warnings
            /\ "DUPLICATE_ROW_IN_FILE" \in called => "DUPLICATE_ROW_IN_FILE" \in repeats
            /\ "DUPLICATE_ROW_IN_FILE" \in repeats => "DUPLICATE_ROW_IN_FILE" \in called
            /\ "ALREADY_RECORDED" \in called => InLedger(v, registered, ledger)
            /\ InLedger(v, registered, ledger) => ledger[v.nationalId][v.year] = OutcomeOf(row)
            /\ InLedger(v, registered, ledger) => "ALREADY_RECORDED" \in called
  <1>1. PICK row, v, codes, repeats :
          /\ row = batch[b].rows[i] /\ v = row.values /\ codes = Rechecked(b)[i].issues
          /\ repeats = DetectDuplicateYears(Checked(b), i)
    OBVIOUS
  <1>2. /\ i \in DOMAIN File[b]
        /\ codes = DetectDatabaseConflicts(row, Known)
        /\ DOMAIN Rechecked(b) = DOMAIN batch[b].rows
    BY <1>1, StoredRow, JudgedAgain DEF MayImport
  <1>3. /\ row.issues \subseteq Warnings
        /\ codes \subseteq Warnings
    <2>1. ~ Blocks(batch[b].rows[i]) /\ ~ Blocks(Rechecked(b)[i])
      BY <1>2 DEF MayImport, Importable
    <2> QED
      BY <1>1, <2>1, NotBlocked
  <1>4. /\ v = Checked(b)[i].values
        /\ Checked(b)[i].issues \cup repeats \subseteq row.issues
        /\ "DUPLICATE_ROW_IN_FILE" \in row.issues => "DUPLICATE_ROW_IN_FILE" \in repeats
        /\ "ALREADY_RECORDED" \in row.issues => InLedger(v, registered, ledger)
    BY <1>1 DEF StagedAsRead, AsRead, MayImport
  <1>5. Checked(b)[i] = StageRow(File[b][i])
    BY <1>2 DEF Checked
  <1>6. /\ v.nationalId \in People /\ v.nationalId # Null
        /\ v.year \in Years /\ v.year # NoYear
        /\ v.participated \in {"yes", "no"} /\ v.won \in {"yes", "no"}
        /\ v.won = "yes" => v.participated = "yes"
    BY <1>2, <1>3, <1>4, <1>5, ReadableLine
  <1>7. /\ OutcomeOf(row) \in Outcomes \ {"none"}
        /\ v.won = "yes" => OutcomeOf(row) = "won"
    BY <1>1, <1>6 DEF OutcomeOf, Outcomes
  <1>8. /\ "DUPLICATE_ROW_IN_FILE" \notin codes
        /\ "ALREADY_RECORDED" \in codes =>
             Known[v.nationalId].registered /\ Known[v.nationalId].history[v.year] # "none"
        /\ Known[v.nationalId].registered /\ Known[v.nationalId].history[v.year] # "none" =>
             "ALREADY_RECORDED" \in codes /\ Known[v.nationalId].history[v.year] = OutcomeOf(row)
    BY <1>1, <1>2, <1>3, <1>6, JudgedByDatabase
  <1>9. /\ Known[v.nationalId].registered <=> v.nationalId \in registered
        /\ v.nationalId \in registered => Known[v.nationalId].history = ledger[v.nationalId]
    BY <1>6, KnownIsLedger
  <1>10. /\ "ALREADY_RECORDED" \in codes => InLedger(v, registered, ledger)
         /\ InLedger(v, registered, ledger) =>
              ledger[v.nationalId][v.year] = OutcomeOf(row) /\ "ALREADY_RECORDED" \in codes
    BY <1>6, <1>8, <1>9 DEF InLedger
  <1> QED
    BY <1>1, <1>3, <1>4, <1>6, <1>7, <1>8, <1>10

\* An import writes the rows the ledger does not have and that repeat no other.
LEMMA WhatIsWritten ==
  ASSUME TypeInv, StagedAsRead, NEW b \in Batches, MayImport(b), NEW i \in DOMAIN batch[b].rows
  PROVE  i \in WritableRows(b) <=>
           /\ ~ InLedger(batch[b].rows[i].values, registered, ledger)
           /\ "DUPLICATE_ROW_IN_FILE" \notin DetectDuplicateYears(Checked(b), i)
  <1>1. DOMAIN Rechecked(b) = DOMAIN batch[b].rows
    BY JudgedAgain DEF MayImport
  <1>2. i \in WritableRows(b) <=>
          (batch[b].rows[i].issues \cup Rechecked(b)[i].issues)
            \cap {"ALREADY_RECORDED", "DUPLICATE_ROW_IN_FILE"} = {}
    BY <1>1 DEF WritableRows, Writable
  <1> QED
    BY <1>2, LineLetThrough

Planned(b) == {FactOf(batch[b].rows[i]) : i \in WritableRows(b)}

\* A line an import does not write as such is a repeat of one it writes in the same words, or is
\* in the ledger in the line's words.
LEMMA PlanSpeaks ==
  ASSUME TypeInv, StagedAsRead, NEW b \in Batches, MayImport(b), NEW i \in DOMAIN batch[b].rows
  PROVE  SpokenFor(batch[b].rows[i], Planned(b), registered, ledger, corrections)
  <1>1. PICK row, v : row = batch[b].rows[i] /\ v = row.values
    OBVIOUS
  <1>2. /\ v = Checked(b)[i].values
        /\ v.nationalId \in People /\ v.nationalId # Null /\ v.year \in Years /\ v.year # NoYear
        /\ v.won = "yes" => OutcomeOf(row) = "won"
        /\ InLedger(v, registered, ledger) => ledger[v.nationalId][v.year] = OutcomeOf(row)
    BY <1>1, LineLetThrough
  <1>3. CASE InLedger(v, registered, ledger)
    BY <1>1, <1>2, <1>3 DEF SpokenFor
  <1>4. CASE ~ InLedger(v, registered, ledger)
    <2>1. \E f \in DOMAIN batch[b].rows :
            /\ "DUPLICATE_ROW_IN_FILE" \notin DetectDuplicateYears(Checked(b), f)
            /\ Checked(b)[f].values.nationalId = v.nationalId
            /\ Checked(b)[f].values.year = v.year
            /\ Checked(b)[f].values.participated = v.participated
            /\ Checked(b)[f].values.won = v.won
      <3>1. CASE "DUPLICATE_ROW_IN_FILE" \notin DetectDuplicateYears(Checked(b), i)
        BY <1>2, <3>1
      <3>2. CASE "DUPLICATE_ROW_IN_FILE" \in DetectDuplicateYears(Checked(b), i)
        <4>1. /\ DOMAIN batch[b].rows = DOMAIN File[b]
              /\ DOMAIN Checked(b) = DOMAIN File[b]
          BY StoredRow DEF Checked, MayImport
        <4>2. PICK n \in Nat : DOMAIN File[b] = 1 .. n
          BY BatchAssumption
        <4>3. PICK f \in 1 .. n : /\ SameYear(Checked(b), i, f)
                                  /\ SameClaim(Checked(b)[i], Checked(b)[f])
                                  /\ DetectDuplicateYears(Checked(b), f) = {}
          BY <3>2, <4>1, <4>2, DuplicateOfFirst
        <4>4. /\ Checked(b)[f].values.nationalId = v.nationalId
              /\ Checked(b)[f].values.year = v.year
          BY <1>2, <4>3 DEF SameYear, SamePerson
        <4>5. /\ Checked(b)[f].values["participated"] = v["participated"]
              /\ Checked(b)[f].values["won"] = v["won"]
          BY <1>2, <4>3 DEF SameClaim
        <4> QED
          BY <4>1, <4>2, <4>3, <4>4, <4>5
      <3> QED
        BY <3>1, <3>2
    <2>2. PICK f \in DOMAIN batch[b].rows :
            /\ "DUPLICATE_ROW_IN_FILE" \notin DetectDuplicateYears(Checked(b), f)
            /\ Checked(b)[f].values.nationalId = v.nationalId
            /\ Checked(b)[f].values.year = v.year
            /\ Checked(b)[f].values.participated = v.participated
            /\ Checked(b)[f].values.won = v.won
      BY <2>1
    <2>3. batch[b].rows[f].values = Checked(b)[f].values
      BY LineLetThrough
    <2>4. ~ InLedger(batch[b].rows[f].values, registered, ledger)
      BY <1>4, <2>2, <2>3 DEF InLedger
    <2>5. f \in WritableRows(b)
      BY <2>2, <2>4, WhatIsWritten
    <2>6. /\ FactOf(batch[b].rows[f]) \in Planned(b)
          /\ FactOf(batch[b].rows[f]).person = v.nationalId
          /\ FactOf(batch[b].rows[f]).year = v.year
          /\ FactOf(batch[b].rows[f]).outcome = OutcomeOf(row)
      BY <1>1, <2>2, <2>3, <2>5 DEF Planned, FactOf, OutcomeOf
    <2> QED
      BY <1>1, <1>2, <2>6 DEF SpokenFor
  <1> QED
    BY <1>3, <1>4

\* Two lines an import writes are not about the same year of the same person.
LEMMA WrittenApart ==
  ASSUME TypeInv, StagedAsRead, NEW b \in Batches, MayImport(b),
         NEW i \in WritableRows(b), NEW j \in WritableRows(b),
         batch[b].rows[i].values.nationalId = batch[b].rows[j].values.nationalId,
         batch[b].rows[i].values.year = batch[b].rows[j].values.year
  PROVE  i = j
  <1> SUFFICES ASSUME i # j
               PROVE  FALSE
    OBVIOUS
  <1>1. i \in DOMAIN batch[b].rows /\ j \in DOMAIN batch[b].rows
    BY DEF WritableRows, Writable
  <1>2. \A k \in {i, j} :
          /\ batch[b].rows[k].values = Checked(b)[k].values
          /\ batch[b].rows[k].values.nationalId # Null
          /\ batch[b].rows[k].values.year # NoYear
          /\ DetectDuplicateYears(Checked(b), k) \subseteq Warnings
          /\ "DUPLICATE_ROW_IN_FILE" \notin DetectDuplicateYears(Checked(b), k)
    BY <1>1, LineLetThrough, WhatIsWritten
  <1>3. SameYear(Checked(b), i, j)
    BY <1>2 DEF SameYear, SamePerson
  <1>4. DOMAIN batch[b].rows = DOMAIN File[b] /\ DOMAIN Checked(b) = DOMAIN File[b]
    BY <1>1, StoredRow DEF Checked, MayImport
  <1>5. PICK n \in Nat : DOMAIN File[b] = 1 .. n
    BY BatchAssumption
  <1>6. \E k \in {i, j} : /\ DetectDuplicateYears(Checked(b), k) # {}
                          /\ DetectDuplicateYears(Checked(b), k) \subseteq
                               {"DUPLICATE_ROW_IN_FILE", "CONFLICTING_DUPLICATE_IN_FILE"}
    BY <1>1, <1>3, <1>4, <1>5, RepeatsAreCalled
  <1>7. "CONFLICTING_DUPLICATE_IN_FILE" \notin Warnings
    BY DEF Warnings
  <1> QED
    BY <1>2, <1>6, <1>7

\* What an import plans is one fact for each year of a person.
LEMMA PlanIsTyped ==
  ASSUME TypeInv, StagedAsRead, NEW b \in Batches, MayImport(b)
  PROVE  Planned(b) \subseteq Fact /\ OneOutcome(Planned(b))
  <1>1. Planned(b) \subseteq Fact
    <2>1. \A i \in WritableRows(b) : FactOf(batch[b].rows[i]) \in Fact
      <3> TAKE i \in WritableRows(b)
      <3>1. i \in DOMAIN batch[b].rows
        BY DEF WritableRows, Writable
      <3> QED
        BY <3>1, LineLetThrough DEF FactOf, Fact
    <2> QED
      BY <2>1 DEF Planned
  <1>2. OneOutcome(Planned(b))
    <2> SUFFICES ASSUME NEW i \in WritableRows(b), NEW j \in WritableRows(b),
                        FactOf(batch[b].rows[i]).person = FactOf(batch[b].rows[j]).person,
                        FactOf(batch[b].rows[i]).year = FactOf(batch[b].rows[j]).year
                 PROVE  FactOf(batch[b].rows[i]).outcome = FactOf(batch[b].rows[j]).outcome
      BY DEF OneOutcome, Planned
    <2>1. i = j
      BY WrittenApart DEF FactOf
    <2> QED
      BY <2>1
  <1> QED
    BY <1>1, <1>2

------------------------------------------------------------------------------
(* What may happen to the ledger and to a batch.                            *)

\* People are only added, years are only added, and what is written changes by hand only.
Grows(known, book, corrected, known2, book2, corrected2) ==
  /\ known \subseteq known2
  /\ corrected2 = 0 => corrected = 0
  /\ \A p \in People, y \in Years : book[p][y] # "none" =>
       book2[p][y] # "none" /\ (corrected2 = corrected => book2[p][y] = book[p][y])

\* A line that is spoken for stays so.
LEMMA SpokenForLater ==
  ASSUME NEW known, NEW book, NEW corrected, NEW known2, NEW book2, NEW corrected2,
         Grows(known, book, corrected, known2, book2, corrected2),
         NEW row, NEW facts, SpokenFor(row, facts, known, book, corrected)
  PROVE  SpokenFor(row, facts, known2, book2, corrected2)
  BY DEF Grows, SpokenFor, InLedger

\* A row stays called what it was called for a reason.
LEMMA AsReadLater ==
  ASSUME NEW known, NEW book, NEW corrected, NEW known2, NEW book2, NEW corrected2,
         Grows(known, book, corrected, known2, book2, corrected2), known \subseteq People,
         NEW b, NEW i, NEW row, AsRead(b, i, row, known, book)
  PROVE  AsRead(b, i, row, known2, book2)
  BY DEF Grows, AsRead, InLedger

\* A step that touches no batch, and the ledger only by adding to it or by hand, keeps every
\* promise about batches.
LEMMA LedgerGrows ==
  ASSUME IInv, UNCHANGED <<batch, plan>>,
         Grows(registered, ledger, corrections, registered', ledger', corrections')
  PROVE  StagedWhole' /\ StagedAsRead' /\ PlansWhole' /\ ImportsWhole'
  <1>1. PICK known, book, corrected, known2, book2, corrected2 :
          /\ known = registered /\ book = ledger /\ corrected = corrections
          /\ known2 = registered' /\ book2 = ledger' /\ corrected2 = corrections'
    OBVIOUS
  <1>2. Grows(known, book, corrected, known2, book2, corrected2) /\ known \subseteq People
    BY <1>1 DEF IInv, TypeInv
  <1>3. StagedWhole'
    BY DEF IInv, StagedWhole
  <1>4. StagedAsRead'
    BY <1>1, <1>2, AsReadLater DEF IInv, StagedAsRead
  <1>5. PlansWhole'
    BY <1>1, <1>2, SpokenForLater DEF IInv, PlansWhole
  <1>6. ImportsWhole'
    BY <1>1, <1>2, SpokenForLater DEF IInv, ImportsWhole
  <1> QED
    BY <1>3, <1>4, <1>5, <1>6

\* A step that changes one batch that is neither imported nor about to be.
LEMMA OneBatch ==
  ASSUME IInv, NEW b \in Batches, NEW upload \in BatchRow(b),
         batch' = [batch EXCEPT ![b] = upload],
         batch[b] # Absent => batch[b].status \notin {"APPROVED", "IMPORTED"},
         upload # Absent, upload.status # "IMPORTED", WholeBatch(b, upload),
         \A i \in DOMAIN upload.rows : AsRead(b, i, upload.rows[i], registered, ledger),
         working' \subseteq working \cup {b},
         UNCHANGED <<plan, people>>
  PROVE  IInv'
  <1>1. /\ batch'[b] = upload
        /\ \A o \in Batches \ {b} : batch'[o] = batch[o]
        /\ b \notin DOMAIN plan
    BY DEF IInv, TypeInv
  <1>2. TypeInv'
    <2>1. \A o \in Batches : batch'[o] = Absent \/ batch'[o] \in BatchRow(o)
      BY <1>1 DEF IInv, TypeInv
    <2>2. batch' \in [Batches -> {Absent} \cup UNION {BatchRow(o) : o \in Batches}]
      BY DEF IInv, TypeInv
    <2>3. working' \subseteq {o \in Batches : batch'[o] # Absent}
      BY <1>1 DEF IInv, TypeInv
    <2>4. \A o \in DOMAIN plan' :
            batch'[o] # Absent /\ batch'[o].status = "APPROVED" /\ plan'[o] \subseteq Fact
      BY <1>1 DEF IInv, TypeInv
    <2> QED
      BY <2>1, <2>2, <2>3, <2>4 DEF IInv, TypeInv, people, BatchRow
  <1>3. WinnersExcluded'
    BY DEF IInv, WinnersExcluded, people
  <1>4. StagedWhole'
    BY <1>1 DEF IInv, StagedWhole
  <1>5. StagedAsRead'
    BY <1>1 DEF IInv, StagedAsRead, people
  <1>6. PlansWhole'
    BY <1>1 DEF IInv, PlansWhole, people, TypeInv
  <1>7. ImportsWhole'
    BY <1>1 DEF IInv, ImportsWhole, people
  <1> QED
    BY <1>2, <1>3, <1>4, <1>5, <1>6, <1>7 DEF IInv

------------------------------------------------------------------------------
(* The steps of a batch.                                                    *)

\* A table row is there.
LEMMA BatchRowIsThere ==
  ASSUME NEW b \in Batches, NEW upload \in BatchRow(b)
  PROVE  upload # Absent
  BY DEF BatchRow, Absent, Status

\* A batch brought to the system is stored whole, as nothing yet.
LEMMA UploadKeeps ==
  ASSUME IInv, NEW b \in Batches, NEW a \in Admins, Upload(b, a)
  PROVE  IInv'
  <1>1. PICK upload : upload = [status |-> "UPLOADED", uploader |-> a, approver |-> Null,
                                rows |-> <<>>, stored |-> 0]
    OBVIOUS
  <1>2. Len(File[b]) \in Nat
    BY BatchAssumption
  <1>3. upload \in BatchRow(b)
    BY <1>1, <1>2 DEF BatchRow, Status
  <1>4. WholeBatch(b, upload) /\ upload.status # "IMPORTED"
    BY <1>1, BatchAssumption DEF WholeBatch
  <1>5. \A i \in DOMAIN upload.rows : AsRead(b, i, upload.rows[i], registered, ledger)
    BY <1>1
  <1>6. /\ batch' = [batch EXCEPT ![b] = upload] /\ batch[b] = Absent
        /\ working' = working \cup {b} /\ UNCHANGED <<plan, people>>
    BY <1>1 DEF Upload
  <1> QED
    BY <1>3, <1>4, <1>5, <1>6, BatchRowIsThere, OneBatch

\* A batch that only changes in its status, its approver or the count of its rows.
LEMMA SameRows ==
  ASSUME IInv, NEW b \in Batches, batch[b] # Absent,
         batch[b].status \notin {"APPROVED", "IMPORTED"},
         NEW status \in Status \ {"IMPORTED"}, NEW approver \in Admins \cup {Null},
         NEW stored \in 0 .. Len(File[b]),
         batch' = [batch EXCEPT ![b] = [@ EXCEPT !.status = status, !.approver = approver,
                                                 !.stored = stored]],
         stored <= Len(batch[b].rows),
         status \in {"UPLOADED", "VALIDATING", "READY_FOR_REVIEW"} => approver = Null,
         approver # batch[b].uploader,
         status \in {"READY_FOR_REVIEW", "APPROVED", "REJECTED"} => stored = Len(File[b]),
         working' \subseteq working,
         UNCHANGED <<plan, people>>
  PROVE  IInv'
  <1>1. PICK old : old = batch[b]
    OBVIOUS
  <1>2. old \in BatchRow(b)
    BY <1>1 DEF IInv, TypeInv
  <1>3. PICK upload : upload = [old EXCEPT !.status = status, !.approver = approver, !.stored = stored]
    OBVIOUS
  <1>4. /\ upload.status = status /\ upload.approver = approver /\ upload.stored = stored
        /\ upload.rows = old.rows /\ upload.uploader = old.uploader
        /\ upload \in BatchRow(b)
    BY <1>2, <1>3 DEF BatchRow
  <1>5. batch' = [batch EXCEPT ![b] = upload]
    BY <1>1, <1>3
  <1>6. WholeBatch(b, upload)
    BY <1>1, <1>4 DEF WholeBatch
  <1>7. \A i \in DOMAIN upload.rows : AsRead(b, i, upload.rows[i], registered, ledger)
    BY <1>1, <1>4 DEF IInv, StagedAsRead
  <1> QED
    BY <1>4, <1>5, <1>6, <1>7, BatchRowIsThere, OneBatch

\* The rows of a batch are none or as many as its lines.
LEMMA RowsOfBatch ==
  ASSUME IInv, NEW b \in Batches, batch[b] # Absent
  PROVE  /\ batch[b] \in BatchRow(b)
         /\ Len(batch[b].rows) \in {0, Len(File[b])}
         /\ batch[b].rows # <<>> => Len(batch[b].rows) = Len(File[b])
  <1>1. batch[b] \in BatchRow(b)
    BY DEF IInv, TypeInv
  <1>2. PICK rows, n : rows = batch[b].rows /\ n = Len(File[b])
    OBVIOUS
  <1>3. n \in Nat /\ DOMAIN File[b] = 1 .. n
    BY <1>2, BatchAssumption
  <1>4. rows = <<>> \/ rows \in [1 .. n -> StagedRow]
    BY <1>1, <1>2, <1>3 DEF BatchRow
  <1>5. rows \in [1 .. n -> StagedRow] => Len(rows) = n
    BY <1>3
  <1> QED
    BY <1>1, <1>2, <1>4, <1>5

\* Staging goes on: each of its steps keeps what was promised.
LEMMA StagingKeeps ==
  ASSUME IInv, NEW b \in Batches, Staging(b)
  PROVE  IInv'
  <1>1. PICK old : old = batch[b]
    OBVIOUS
  <1>2. /\ b \in working /\ old # Absent /\ old \in BatchRow(b) /\ WholeBatch(b, old)
        /\ Len(old.rows) \in {0, Len(File[b])} /\ Len(File[b]) \in Nat
        /\ old.rows # <<>> => Len(old.rows) = Len(File[b])
        /\ old.status \in {"UPLOADED", "VALIDATING"}
    <2>1. b \in working /\ batch[b].status \in {"UPLOADED", "VALIDATING"}
      BY DEF Staging, BeginValidation, Check, StoreChunk, FinishStaging
    <2>2. batch[b] # Absent
      BY <2>1 DEF IInv, TypeInv
    <2> QED
      BY <1>1, <2>1, <2>2, RowsOfBatch, BatchAssumption DEF IInv, StagedWhole
  <1>3. old = [old EXCEPT !.approver = old.approver] /\ old = [old EXCEPT !.stored = old.stored]
        /\ old.approver = Null /\ Null \in Admins \cup {Null} /\ Null # old.uploader
        /\ old.stored \in 0 .. Len(File[b])
    BY <1>2 DEF BatchRow, WholeBatch
  <1>4. CASE BeginValidation(b)
    <2>1. batch' = [batch EXCEPT ![b] = [@ EXCEPT !.status = "VALIDATING", !.approver = old.approver,
                                                  !.stored = old.stored]]
      BY <1>1, <1>2, <1>4 DEF BeginValidation, IInv, TypeInv, BatchRow
    <2> QED
      BY <1>1, <1>2, <1>3, <1>4, <2>1, SameRows DEF BeginValidation, Status, WholeBatch
  <1>5. CASE Check(b)
    <2>1. PICK rows, upload : /\ rows = StageFile(File[b], Known)
                              /\ upload = [old EXCEPT !.rows = rows]
      OBVIOUS
    <2>2. batch' = [batch EXCEPT ![b] = upload] /\ old.rows = <<>> /\ old.status = "VALIDATING"
      BY <1>1, <1>5, <2>1 DEF Check
    <2>3. \A i \in DOMAIN File[b] :
            rows[i] \in StagedRow /\ AsRead(b, i, rows[i], registered, ledger)
      BY <2>1, StagedFresh DEF IInv
    <2>4. rows \in [DOMAIN File[b] -> StagedRow]
      BY <2>1, <2>3 DEF StageFile
    <2>5. upload \in BatchRow(b) /\ upload.rows = rows /\ upload.status = "VALIDATING"
          /\ upload.approver = old.approver /\ upload.uploader = old.uploader
          /\ upload.stored = old.stored
      BY <1>2, <2>1, <2>2, <2>4 DEF BatchRow
    <2>6. Len(rows) = Len(File[b])
      <3>1. PICK n : n = Len(File[b])
        OBVIOUS
      <3>2. n \in Nat /\ rows \in [1 .. n -> StagedRow]
        BY <2>4, <3>1, BatchAssumption
      <3>3. Len(rows) = n
        BY <3>2
      <3> QED
        BY <3>1, <3>3
    <2>7. WholeBatch(b, upload)
      BY <1>2, <1>3, <2>5, <2>6 DEF WholeBatch
    <2>8. working' \subseteq working \cup {b} /\ UNCHANGED <<plan, people>>
      BY <1>5 DEF Check
    <2> QED
      BY <1>1, <1>2, <2>2, <2>3, <2>4, <2>5, <2>7, <2>8, BatchRowIsThere, OneBatch
  <1>6. CASE StoreChunk(b)
    <2>1. PICK left, more : /\ left = Len(old.rows) - old.stored
                            /\ more = IF left < Chunk THEN left ELSE Chunk
      OBVIOUS
    <2>2. batch' = [batch EXCEPT ![b] = [@ EXCEPT !.status = old.status, !.approver = old.approver,
                                                  !.stored = old.stored + more]]
      BY <1>1, <1>2, <1>6, <2>1 DEF StoreChunk, IInv, TypeInv, BatchRow
    <2>3. old.stored + more \in 0 .. Len(File[b]) /\ old.stored + more <= Len(old.rows)
      BY <1>1, <1>2, <1>3, <1>6, <2>1, BatchAssumption DEF StoreChunk
    <2> QED
      BY <1>1, <1>2, <1>3, <1>6, <2>2, <2>3, SameRows DEF StoreChunk, Status
  <1>7. CASE FinishStaging(b)
    <2>1. batch' = [batch EXCEPT ![b] = [@ EXCEPT !.status = "READY_FOR_REVIEW",
                                                  !.approver = old.approver, !.stored = old.stored]]
      BY <1>1, <1>2, <1>7 DEF FinishStaging, IInv, TypeInv, BatchRow
    <2>2. old.stored = Len(File[b]) /\ old.stored <= Len(old.rows)
      BY <1>1, <1>2, <1>7 DEF FinishStaging, WholeBatch
    <2> QED
      BY <1>1, <1>2, <1>3, <1>7, <2>1, <2>2, SameRows DEF FinishStaging, Status
  <1> QED
    BY <1>4, <1>5, <1>6, <1>7 DEF Staging

\* A staging that fails, and a process that dies, leave what is stored.
LEMMA FailingKeeps ==
  ASSUME IInv, NEW b \in Batches, FailStaging(b) \/ Crash(b)
  PROVE  IInv'
  <1>1. CASE FailStaging(b)
    <2>1. PICK old : old = batch[b]
      OBVIOUS
    <2>2. /\ old # Absent /\ old \in BatchRow(b) /\ WholeBatch(b, old)
          /\ old.status \in {"UPLOADED", "VALIDATING"}
      BY <1>1, <2>1, RowsOfBatch DEF FailStaging, IInv, TypeInv, StagedWhole
    <2>3. batch' = [batch EXCEPT ![b] = [@ EXCEPT !.status = "FAILED", !.approver = old.approver,
                                                  !.stored = old.stored]]
      BY <1>1, <2>1, <2>2 DEF FailStaging, IInv, TypeInv, BatchRow
    <2>4. /\ old.approver \in Admins \cup {Null} /\ old.approver # old.uploader
          /\ old.stored \in 0 .. Len(File[b]) /\ old.stored <= Len(old.rows)
      BY <2>2 DEF BatchRow, WholeBatch
    <2>5. working' \subseteq working /\ UNCHANGED <<plan, people>>
      BY <1>1 DEF FailStaging
    <2>6. "FAILED" \in Status \ {"IMPORTED"}
      BY DEF Status
    <2> QED
      BY <2>1, <2>2, <2>3, <2>4, <2>5, <2>6, SameRows
  <1>2. CASE Crash(b)
    <2>1. TypeInv'
      BY <1>2 DEF Crash, IInv, TypeInv, people, BatchRow
    <2>2. WinnersExcluded' /\ StagedWhole' /\ StagedAsRead' /\ PlansWhole' /\ ImportsWhole'
      BY <1>2 DEF Crash, IInv, WinnersExcluded, StagedWhole, StagedAsRead, PlansWhole,
                  ImportsWhole, people
    <2> QED
      BY <2>1, <2>2 DEF IInv
  <1> QED
    BY <1>1, <1>2

\* A decision is somebody else's.
LEMMA DecidingKeeps ==
  ASSUME IInv, NEW b \in Batches, NEW a \in Admins, Approve(b, a) \/ Reject(b, a)
  PROVE  IInv'
  <1>1. PICK old : old = batch[b]
    OBVIOUS
  <1>2. PICK status, approver :
          /\ Decide(b, a, status, approver)
          /\ status \in {"APPROVED", "REJECTED"} /\ approver \in {a, Null}
    BY DEF Approve, Reject
  <1>3. /\ old # Absent /\ old \in BatchRow(b) /\ WholeBatch(b, old)
        /\ old.status = "READY_FOR_REVIEW" /\ a # old.uploader
    BY <1>1, <1>2, RowsOfBatch DEF Decide, IInv, StagedWhole
  <1>4. batch' = [batch EXCEPT ![b] = [@ EXCEPT !.status = status, !.approver = approver,
                                                !.stored = old.stored]]
    BY <1>1, <1>2, <1>3 DEF Decide, IInv, TypeInv, BatchRow
  <1>5. /\ approver \in Admins \cup {Null} /\ approver # old.uploader
        /\ old.stored \in 0 .. Len(File[b]) /\ old.stored <= Len(old.rows)
        /\ old.stored = Len(File[b])
    BY <1>2, <1>3 DEF BatchRow, WholeBatch
  <1>6. working' = working /\ UNCHANGED <<plan, people>>
    BY <1>2 DEF Decide
  <1> QED
    BY <1>1, <1>2, <1>3, <1>4, <1>5, <1>6, SameRows DEF Status

\* An import that plans will write its register, and nothing twice.
LEMMA PlanningKeeps ==
  ASSUME IInv, NEW b \in Batches, PlanImport(b)
  PROVE  IInv'
  <1>1. MayImport(b) /\ batch[b].status = "APPROVED" /\ b \notin DOMAIN plan
    BY DEF PlanImport, MayImport
  <1>2. PICK facts : facts = Planned(b)
    OBVIOUS
  <1>3. /\ DOMAIN plan' = DOMAIN plan \cup {b}
        /\ plan'[b] = facts
        /\ \A o \in DOMAIN plan : plan'[o] = plan[o]
        /\ UNCHANGED <<batch, working, people>>
    BY <1>1, <1>2 DEF PlanImport, Planned
  <1>4. facts \subseteq Fact /\ OneOutcome(facts)
    BY <1>1, <1>2, PlanIsTyped DEF IInv
  <1>5. \A i \in DOMAIN batch[b].rows :
          SpokenFor(batch[b].rows[i], facts, registered, ledger, corrections)
    BY <1>1, <1>2, PlanSpeaks DEF IInv
  <1>6. TypeInv'
    BY <1>1, <1>3, <1>4 DEF IInv, TypeInv, people, MayImport, BatchRow
  <1>7. PlansWhole'
    BY <1>3, <1>4, <1>5 DEF IInv, PlansWhole, people
  <1>8. WinnersExcluded' /\ StagedWhole' /\ StagedAsRead' /\ ImportsWhole'
    BY <1>3 DEF IInv, WinnersExcluded, StagedWhole, StagedAsRead, ImportsWhole, people
  <1> QED
    BY <1>6, <1>7, <1>8 DEF IInv

\* An import that is rolled back leaves everything as it was.
LEMMA RollBackKeeps ==
  ASSUME IInv, NEW b \in Batches, RollBack(b)
  PROVE  IInv'
  <1>1. /\ DOMAIN plan' = DOMAIN plan \ {b}
        /\ \A o \in DOMAIN plan' : plan'[o] = plan[o]
        /\ UNCHANGED <<batch, working, people>>
    BY DEF RollBack, Stop
  <1>2. TypeInv'
    BY <1>1 DEF IInv, TypeInv, people, BatchRow
  <1>3. PlansWhole'
    BY <1>1 DEF IInv, PlansWhole, people
  <1>4. WinnersExcluded' /\ StagedWhole' /\ StagedAsRead' /\ ImportsWhole'
    BY <1>1 DEF IInv, WinnersExcluded, StagedWhole, StagedAsRead, ImportsWhole, people
  <1> QED
    BY <1>2, <1>3, <1>4 DEF IInv

\* A registration, a correction and a draw leave every batch as it is.
LEMMA RestKeeps ==
  ASSUME IInv,
         \/ \E p \in People : RegisterParticipant(p)
         \/ \E p \in People, y \in Years, o \in Outcomes \ {"none"} : CorrectByHand(p, y, o)
         \/ \E winners \in SUBSET Pooled : ExecuteDraw(winners)
  PROVE  IInv'
  <1> USE DEF IInv
  <1>1. CASE \E p \in People : RegisterParticipant(p)
    <2>1. PICK p \in People : RegisterParticipant(p)
      BY <1>1
    <2>2. Grows(registered, ledger, corrections, registered', ledger', corrections')
      BY <2>1 DEF RegisterParticipant, Grows
    <2>3. TypeInv' /\ WinnersExcluded'
      BY <2>1 DEF RegisterParticipant, TypeInv, WinnersExcluded, BatchRow
    <2> QED
      BY <2>1, <2>2, <2>3, LedgerGrows DEF RegisterParticipant
  <1>2. CASE \E p \in People, y \in Years, o \in Outcomes \ {"none"} : CorrectByHand(p, y, o)
    <2>1. PICK p \in People, y \in Years, o \in Outcomes \ {"none"} : CorrectByHand(p, y, o)
      BY <1>2
    <2>2. ledger \in [People -> [Years -> Outcomes]] /\ corrections \in Nat
      BY DEF TypeInv
    <2>3. /\ corrections' = corrections + 1 /\ corrections' # 0 /\ corrections' # corrections
          /\ ledger' \in [People -> [Years -> Outcomes]]
      BY <2>1, <2>2 DEF CorrectByHand
    <2>4. \A q \in People, z \in Years : ledger[q][z] # "none" => ledger'[q][z] # "none"
      BY <2>1, <2>2 DEF CorrectByHand
    <2>5. Grows(registered, ledger, corrections, registered', ledger', corrections')
      BY <2>1, <2>3, <2>4 DEF CorrectByHand, Grows
    <2>6. TypeInv' /\ WinnersExcluded'
      BY <2>1, <2>2, <2>3 DEF CorrectByHand, TypeInv, WinnersExcluded, BatchRow
    <2> QED
      BY <2>1, <2>5, <2>6, LedgerGrows DEF CorrectByHand
  <1>3. CASE \E winners \in SUBSET Pooled : ExecuteDraw(winners)
    <2>1. PICK winners \in SUBSET Pooled : ExecuteDraw(winners)
      BY <1>3
    <2>2. /\ ledger \in [People -> [Years -> Outcomes]] /\ LastYear \in Years
          /\ archived \in [People -> {NoYear} \cup Years]
          /\ Pooled \subseteq registered /\ registered \subseteq People
      BY ImportAssumption DEF TypeInv, Years
    <2>3. \A q \in People, z \in Years :
            ledger'[q][z] = IF q \in Pooled /\ z = LastYear
                            THEN IF q \in winners THEN "won" ELSE "lost"
                            ELSE ledger[q][z]
      BY <2>1, <2>2 DEF ExecuteDraw
    <2>4. /\ \A q \in Pooled : ledger[q][LastYear] = "none"
          /\ UNCHANGED <<batch, working, plan, registered, legacy, corrections>>
          /\ excluded' = excluded \cup winners
          /\ archived' = [p \in People |-> IF p \in winners THEN LastYear ELSE archived[p]]
      BY <2>1 DEF ExecuteDraw
    <2>5. ledger' \in [People -> [Years -> Outcomes]]
      BY <2>1, <2>2 DEF ExecuteDraw, Outcomes
    <2>6. Grows(registered, ledger, corrections, registered', ledger', corrections')
      BY <2>3, <2>4 DEF Grows
    <2>7. TypeInv'
      BY <2>2, <2>4, <2>5 DEF TypeInv, BatchRow
    <2>8. WinnersExcluded'
      BY <2>2, <2>3, <2>4 DEF WinnersExcluded
    <2> QED
      BY <2>4, <2>6, <2>7, <2>8, LedgerGrows
  <1> QED
    BY <1>1, <1>2, <1>3

\* A line spoken for by facts that are written is in the ledger.
LEMMA SpokenOnceWritten ==
  ASSUME NEW known, NEW book, NEW corrected, NEW known2, NEW book2, NEW corrected2,
         Grows(known, book, corrected, known2, book2, corrected2), corrected2 = corrected,
         NEW facts \in SUBSET Fact,
         \A f \in facts : f.person \in known2 /\ book2[f.person][f.year] = f.outcome,
         NEW row, SpokenFor(row, facts, known, book, corrected)
  PROVE  SpokenFor(row, {}, known2, book2, corrected2)
  <1>1. CASE \E f \in facts : /\ f.person = row.values.nationalId /\ f.year = row.values.year
                              /\ f.outcome = OutcomeOf(row)
    BY <1>1 DEF SpokenFor, InLedger, Fact
  <1>2. CASE InLedger(row.values, known, book)
             /\ (corrected = 0 => book[row.values.nationalId][row.values.year] = OutcomeOf(row))
    BY <1>2 DEF SpokenFor, InLedger, Grows
  <1> QED
    BY <1>1, <1>2 DEF SpokenFor

\* What the transaction of an import does to the tables.
LEMMA WritingDoes ==
  ASSUME IInv, NEW b \in Batches, WriteImport(b)
  PROVE  /\ plan[b] \subseteq Fact /\ OneOutcome(plan[b])
         /\ \A f \in plan[b] : ledger[f.person][f.year] = "none"
         /\ \A f \in plan[b] : ledger'[f.person][f.year] = f.outcome
         /\ \A p \in People, y \in Years :
              (\A f \in plan[b] : f.person # p \/ f.year # y) => ledger'[p][y] = ledger[p][y]
         /\ ledger' \in [People -> [Years -> Outcomes]]
         /\ legacy' \in [People -> {NoYear} \cup Years]
         /\ \A p \in People : legacy'[p] # legacy[p] =>
              p \in Winners(plan[b]) /\ legacy[p] = NoYear
         /\ \A f \in plan[b] : f.outcome = "won" => f.person \in Winners(plan[b])
         /\ Winners(plan[b]) \cap excluded = {}
         /\ excluded' = excluded \cup Winners(plan[b])
         /\ registered' = registered \cup {f.person : f \in plan[b]}
         /\ Winners(plan[b]) \subseteq {f.person : f \in plan[b]}
  <1>1. PICK facts, winners : facts = plan[b] /\ winners = Winners(facts)
    OBVIOUS
  <1>2. /\ facts \subseteq Fact /\ OneOutcome(facts)
        /\ ledger \in [People -> [Years -> Outcomes]]
        /\ legacy \in [People -> {NoYear} \cup Years]
    BY <1>1 DEF WriteImport, IInv, TypeInv, PlansWhole
  <1> DEFINE written(p, y) == {f \in facts : f.person = p /\ f.year = y}
  <1>3. /\ ledger' = [p \in People |-> [y \in Years |->
             IF written(p, y) = {} THEN ledger[p][y]
             ELSE (CHOOSE f \in written(p, y) : TRUE).outcome]]
        /\ legacy' = [p \in People |->
             IF p \in winners
             THEN CHOOSE y \in Years : \E f \in written(p, y) : f.outcome = "won"
             ELSE legacy[p]]
    BY <1>1 DEF WriteImport
  <1>4. \A p, y : written(p, y) # {} =>
          (CHOOSE f \in written(p, y) : TRUE) \in written(p, y)
    OBVIOUS
  <1>5. \A p \in People, y \in Years :
          IF written(p, y) = {} THEN ledger'[p][y] = ledger[p][y]
          ELSE \E f \in written(p, y) : ledger'[p][y] = f.outcome
    BY <1>3, <1>4
  <1>6. \A p \in People, y \in Years : ledger'[p][y] \in Outcomes
    BY <1>2, <1>5 DEF Fact
  <1>7. ledger' \in [People -> [Years -> Outcomes]]
    BY <1>3, <1>6
  <1>8. \A f \in facts : ledger'[f.person][f.year] = f.outcome
    <2> TAKE f \in facts
    <2>1. f.person \in People /\ f.year \in Years /\ f \in written(f.person, f.year)
      BY <1>2 DEF Fact
    <2>2. PICK g \in written(f.person, f.year) : ledger'[f.person][f.year] = g.outcome
      BY <1>5, <2>1
    <2> QED
      BY <1>2, <2>2 DEF OneOutcome
  <1>9. \A p \in People, y \in Years :
          (\A f \in facts : f.person # p \/ f.year # y) => ledger'[p][y] = ledger[p][y]
    BY <1>5
  <1>10. /\ \A p \in winners : \E f \in facts : f.person = p /\ f.outcome = "won"
         /\ \A f \in facts : f.outcome = "won" => f.person \in winners
    BY <1>1 DEF Winners
  <1>11. \A p \in winners : legacy'[p] \in Years
    <2> TAKE p \in winners
    <2>1. PICK f \in facts : f.person = p /\ f.outcome = "won"
      BY <1>10
    <2>2. f.year \in Years /\ p \in People /\ f \in written(p, f.year)
      BY <1>2, <2>1 DEF Fact
    <2>3. \E y \in Years : \E g \in written(p, y) : g.outcome = "won"
      BY <2>1, <2>2
    <2> QED
      BY <1>3, <2>2, <2>3
  <1>12. legacy' \in [People -> {NoYear} \cup Years]
    <2>1. \A p \in People : legacy'[p] \in {NoYear} \cup Years
      BY <1>2, <1>3, <1>11
    <2> QED
      BY <1>3, <2>1
  <1>13. \A p \in People : legacy'[p] # legacy[p] => p \in winners
    BY <1>3
  <1>14. /\ \A f \in facts : ledger[f.person][f.year] = "none"
         /\ \A p \in winners : legacy[p] = NoYear
         /\ winners \cap excluded = {} /\ excluded' = excluded \cup winners
         /\ registered' = registered \cup {f.person : f \in facts}
    BY <1>1 DEF WriteImport, ConstraintsHold, Exclude
  <1> HIDE DEF written
  <1> QED
    BY <1>1, <1>2, <1>7, <1>8, <1>9, <1>10, <1>12, <1>13, <1>14

\* An import puts its whole register in the ledger, and spends what was there to spend.
LEMMA WritingKeeps ==
  ASSUME IInv, NEW b \in Batches, WriteImport(b)
  PROVE  IInv'
  <1>1. PICK facts, winners, old :
          facts = plan[b] /\ winners = Winners(plan[b]) /\ old = batch[b]
    OBVIOUS
  <1>2. /\ facts \subseteq Fact
        /\ \A f \in facts : ledger[f.person][f.year] = "none"
        /\ \A f \in facts : ledger'[f.person][f.year] = f.outcome
        /\ \A p \in People, y \in Years :
             (\A f \in facts : f.person # p \/ f.year # y) => ledger'[p][y] = ledger[p][y]
        /\ ledger' \in [People -> [Years -> Outcomes]]
        /\ legacy' \in [People -> {NoYear} \cup Years]
        /\ \A p \in People : legacy'[p] # legacy[p] => p \in winners
        /\ \A f \in facts : f.outcome = "won" => f.person \in winners
        /\ excluded' = excluded \cup winners
        /\ registered' = registered \cup {f.person : f \in facts}
        /\ winners \subseteq {f.person : f \in facts}
    BY <1>1, WritingDoes
  <1>3. /\ b \in DOMAIN plan
        /\ DOMAIN plan' = DOMAIN plan \ {b}
        /\ \A o \in DOMAIN plan' : plan'[o] = plan[o]
        /\ batch' = [batch EXCEPT ![b].status = "IMPORTED"]
        /\ UNCHANGED <<working, archived, corrections>>
    BY DEF WriteImport, Stop
  <1>4. /\ old # Absent /\ old \in BatchRow(b) /\ WholeBatch(b, old) /\ old.status = "APPROVED"
        /\ batch \in [Batches -> {Absent} \cup UNION {BatchRow(o) : o \in Batches}]
    BY <1>1, <1>3 DEF IInv, TypeInv, StagedWhole
  <1>5. PICK new : new = [old EXCEPT !.status = "IMPORTED"]
    OBVIOUS
  <1>6. /\ new \in BatchRow(b) /\ new.rows = old.rows /\ new.status = "IMPORTED"
        /\ new.stored = old.stored /\ new.approver = old.approver /\ new.uploader = old.uploader
    BY <1>4, <1>5 DEF BatchRow, Status
  <1>7. batch'[b] = new /\ \A o \in Batches \ {b} : batch'[o] = batch[o]
    BY <1>1, <1>3, <1>4, <1>5
  <1>8. batch' \in [Batches -> {Absent} \cup UNION {BatchRow(o) : o \in Batches}]
    <2>1. batch' = [batch EXCEPT ![b] = new]
      BY <1>1, <1>3, <1>5
    <2> QED
      BY <1>4, <1>6, <2>1
  <1>9. new # Absent
    BY <1>6, BatchRowIsThere
  <1>10. Grows(registered, ledger, corrections, registered', ledger', corrections')
    <2>1. \A p \in People, y \in Years : ledger[p][y] # "none" => ledger'[p][y] = ledger[p][y]
      BY <1>2
    <2> QED
      BY <1>2, <1>3, <2>1 DEF Grows
  <1>11. PICK known, book, corrected, known2, book2, corrected2 :
           /\ known = registered /\ book = ledger /\ corrected = corrections
           /\ known2 = registered' /\ book2 = ledger' /\ corrected2 = corrections'
    OBVIOUS
  <1>12. /\ Grows(known, book, corrected, known2, book2, corrected2) /\ known \subseteq People
         /\ corrected2 = corrected
         /\ \A f \in facts : f.person \in known2 /\ book2[f.person][f.year] = f.outcome
    BY <1>2, <1>3, <1>10, <1>11 DEF IInv, TypeInv
  <1>13. TypeInv'
    <2>1. \A o \in Batches : batch'[o] = Absent \/ batch'[o] \in BatchRow(o)
      BY <1>6, <1>7 DEF IInv, TypeInv
    <2>2. working' \subseteq {o \in Batches : batch'[o] # Absent}
      BY <1>3, <1>7, <1>9 DEF IInv, TypeInv
    <2>3. \A o \in DOMAIN plan' :
            batch'[o] # Absent /\ batch'[o].status = "APPROVED" /\ plan'[o] \subseteq Fact
      BY <1>3, <1>7 DEF IInv, TypeInv
    <2>4. registered' \subseteq People /\ Pooled \subseteq registered' /\ excluded' \subseteq registered'
      BY <1>2 DEF IInv, TypeInv, Fact
    <2> QED
      BY <1>2, <1>3, <1>8, <2>1, <2>2, <2>3, <2>4 DEF IInv, TypeInv, BatchRow
  <1>14. WinnersExcluded'
    <2>1. \A p \in People, y \in Years :
            corrections' = 0 /\ ledger'[p][y] = "won" => p \in excluded'
      <3> SUFFICES ASSUME NEW p \in People, NEW y \in Years, corrections' = 0, ledger'[p][y] = "won"
                   PROVE  p \in excluded'
        OBVIOUS
      <3>1. CASE \E f \in facts : f.person = p /\ f.year = y
        <4>1. PICK f \in facts : f.person = p /\ f.year = y
          BY <3>1
        <4>2. f.outcome = "won"
          BY <1>2, <4>1
        <4> QED
          BY <1>2, <4>1, <4>2
      <3>2. CASE \A f \in facts : f.person # p \/ f.year # y
        <4>1. ledger[p][y] = "won" /\ corrections = 0
          BY <1>2, <1>3, <3>2
        <4> QED
          BY <1>2, <4>1 DEF IInv, WinnersExcluded
      <3> QED
        BY <3>1, <3>2
    <2> QED
      BY <1>2, <1>3, <2>1 DEF IInv, WinnersExcluded
  <1>15. StagedWhole'
    BY <1>4, <1>6, <1>7 DEF IInv, StagedWhole, WholeBatch
  <1>16. StagedAsRead'
    <2> SUFFICES ASSUME NEW o \in Batches, batch'[o] # Absent, NEW i \in DOMAIN batch'[o].rows
                 PROVE  AsRead(o, i, batch'[o].rows[i], known2, book2)
      BY <1>11 DEF StagedAsRead
    <2>1. batch[o] # Absent /\ batch'[o].rows = batch[o].rows
      BY <1>1, <1>4, <1>6, <1>7
    <2>2. AsRead(o, i, batch[o].rows[i], known, book)
      BY <1>11, <2>1 DEF IInv, StagedAsRead
    <2> QED
      BY <1>12, <2>1, <2>2, AsReadLater
  <1>17. PlansWhole'
    <2> SUFFICES ASSUME NEW o \in DOMAIN plan'
                 PROVE  /\ \A i \in DOMAIN batch'[o].rows :
                             SpokenFor(batch'[o].rows[i], plan'[o], known2, book2, corrected2)
                        /\ OneOutcome(plan'[o])
      BY <1>11 DEF PlansWhole
    <2>1. batch'[o] = batch[o] /\ plan'[o] = plan[o] /\ o \in DOMAIN plan
      BY <1>3, <1>7 DEF IInv, TypeInv
    <2>2. /\ \A i \in DOMAIN batch[o].rows :
               SpokenFor(batch[o].rows[i], plan[o], known, book, corrected)
          /\ OneOutcome(plan[o])
      BY <1>11, <2>1 DEF IInv, PlansWhole
    <2> QED
      BY <1>12, <2>1, <2>2, SpokenForLater
  <1>18. ImportsWhole'
    <2> SUFFICES ASSUME NEW o \in Batches, batch'[o] # Absent, batch'[o].status = "IMPORTED",
                        NEW i \in DOMAIN batch'[o].rows
                 PROVE  SpokenFor(batch'[o].rows[i], {}, known2, book2, corrected2)
      BY <1>11 DEF ImportsWhole
    <2>1. CASE o = b
      <3>1. batch'[o].rows = batch[b].rows
        BY <1>1, <1>6, <1>7, <2>1
      <3>2. SpokenFor(batch[b].rows[i], facts, known, book, corrected)
        BY <1>1, <1>3, <1>11, <3>1 DEF IInv, PlansWhole
      <3> QED
        BY <1>2, <1>12, <3>1, <3>2, SpokenOnceWritten
    <2>2. CASE o # b
      <3>1. batch'[o] = batch[o]
        BY <1>7, <2>2
      <3>2. SpokenFor(batch[o].rows[i], {}, known, book, corrected)
        BY <1>11, <3>1 DEF IInv, ImportsWhole
      <3> QED
        BY <1>12, <3>1, <3>2, SpokenForLater
    <2> QED
      BY <2>1, <2>2
  <1> QED
    BY <1>13, <1>14, <1>15, <1>16, <1>17, <1>18 DEF IInv

------------------------------------------------------------------------------
(* The theorems.                                                            *)

\* Every step keeps the invariant.
LEMMA StepKeeps ==
  ASSUME IInv, [Next]_vars
  PROVE  IInv'
  <1>1. CASE \E b \in Batches : \E a \in Admins : Upload(b, a) \/ Approve(b, a) \/ Reject(b, a)
    BY <1>1, UploadKeeps, DecidingKeeps
  <1>2. CASE \E b \in Batches : Staging(b) \/ FailStaging(b) \/ Crash(b)
    BY <1>2, StagingKeeps, FailingKeeps
  <1>3. CASE \E b \in Batches : Importing(b)
    BY <1>3, PlanningKeeps, WritingKeeps, RollBackKeeps DEF Importing
  <1>4. CASE \/ \E p \in People : RegisterParticipant(p)
             \/ \E p \in People, y \in Years, o \in Outcomes \ {"none"} : CorrectByHand(p, y, o)
             \/ \E winners \in SUBSET Pooled : ExecuteDraw(winners)
    BY <1>4, RestKeeps
  <1>5. CASE UNCHANGED vars
    <2>1. UNCHANGED <<batch, working, plan, people>>
      BY <1>5 DEF vars, people
    <2>2. TypeInv'
      BY <2>1 DEF IInv, TypeInv, people, BatchRow
    <2>3. WinnersExcluded' /\ StagedWhole' /\ StagedAsRead' /\ PlansWhole' /\ ImportsWhole'
      BY <2>1 DEF IInv, WinnersExcluded, StagedWhole, StagedAsRead, PlansWhole, ImportsWhole, people
    <2> QED
      BY <2>2, <2>3 DEF IInv
  <1> QED
    BY <1>1, <1>2, <1>3, <1>4, <1>5 DEF Next

\* LegacyImportService, from an empty table of batches: the invariant holds in every state.
THEOREM Invariance == Spec => []IInv
  <1>1. Init => IInv
    <2> SUFFICES ASSUME Init
                 PROVE  IInv
      OBVIOUS
    <2>1. TypeInv
      BY BatchAssumption DEF Init, TypeInv, Outcomes
    <2>2. WinnersExcluded
      BY DEF Init, WinnersExcluded
    <2>3. StagedWhole /\ StagedAsRead /\ ImportsWhole
      BY DEF Init, StagedWhole, StagedAsRead, ImportsWhole
    <2>4. PlansWhole
      BY DEF Init, PlansWhole
    <2> QED
      BY <2>1, <2>2, <2>3, <2>4 DEF IInv
  <1>2. IInv /\ [Next]_vars => IInv'
    BY StepKeeps
  <1> QED
    BY <1>1, <1>2, PTL DEF Spec

\* A register is judged whole by somebody who did not bring it, wherever its staging stopped, and
\* once imported is in the ledger line for line, its repeats and what was there before included.
THEOREM RegistersAreWhole == Spec => []WholeRegister
  <1>1. IInv => WholeRegister
    <2> SUFFICES ASSUME IInv
                 PROVE  WholeRegister
      OBVIOUS
    <2>1. TypeOK
      <3>1. \A b \in Batches : batch[b] # Absent =>
              /\ batch[b].status \in Status
              /\ batch[b].uploader \in Admins
              /\ batch[b].approver \in Admins \cup {Null}
              /\ Len(batch[b].rows) \in {0, Len(File[b])}
              /\ batch[b].stored \in 0 .. Len(File[b])
        BY RowsOfBatch DEF BatchRow
      <3> QED
        BY <3>1 DEF IInv, TypeInv, TypeOK
    <2>2. ReviewedWhole
      BY DEF IInv, StagedWhole, WholeBatch, ReviewedWhole
    <2>3. ImportedWhole
      <3> SUFFICES ASSUME NEW b \in Batches, batch[b] # Absent, batch[b].status = "IMPORTED",
                          NEW i \in DOMAIN batch[b].rows
                   PROVE  LET v == batch[b].rows[i].values IN
                          /\ v.nationalId \in registered
                          /\ ledger[v.nationalId][v.year] # "none"
                          /\ legacy[v.nationalId] = v.year => v.nationalId \in excluded
                          /\ v.won = "yes" /\ corrections = 0 =>
                               ledger[v.nationalId][v.year] = "won" /\ v.nationalId \in excluded
        BY DEF ImportedWhole
      <3>1. PICK row, v : row = batch[b].rows[i] /\ v = row.values
        OBVIOUS
      <3>2. SpokenFor(row, {}, registered, ledger, corrections)
        BY <3>1 DEF IInv, ImportsWhole
      <3>3. /\ v.nationalId \in People /\ v.year \in Years /\ v.nationalId \in registered
            /\ ledger[v.nationalId][v.year] # "none"
            /\ corrections = 0 /\ v.won = "yes" => ledger[v.nationalId][v.year] = "won"
        BY <3>1, <3>2 DEF SpokenFor, InLedger
      <3>4. v.year # NoYear
        BY <3>3, ImportAssumption DEF Years, NoYear
      <3> QED
        BY <3>1, <3>3, <3>4 DEF IInv, WinnersExcluded
    <2> QED
      BY <2>1, <2>2, <2>3 DEF WholeRegister
  <1> QED
    BY <1>1, Invariance, PTL

\* The import between its plan and its write, whatever a draw, a correction or another import did
\* meanwhile: it makes a legacy winner of nobody excluded, and neither it nor a draw changes a
\* year the ledger holds.
THEOREM SpendsOnceAndKeeps == Spec => SpendsAndKeeps
  <1> DEFINE Spends == \A p \in People : legacy'[p] # legacy[p] => p \notin excluded /\ archived[p] = NoYear
             Keeps == corrections' = corrections =>
               \A p \in People, y \in Years : ledger[p][y] # "none" => ledger'[p][y] = ledger[p][y]
  <1>1. ASSUME IInv, Next
        PROVE  Spends /\ Keeps
    <2>1. CASE \E b \in Batches : WriteImport(b)
      <3>1. PICK b \in Batches : WriteImport(b)
        BY <2>1
      <3>2. PICK facts, winners : facts = plan[b] /\ winners = Winners(plan[b])
        OBVIOUS
      <3>3. /\ \A f \in facts : ledger[f.person][f.year] = "none"
            /\ \A p \in People, y \in Years :
                 (\A f \in facts : f.person # p \/ f.year # y) => ledger'[p][y] = ledger[p][y]
            /\ \A p \in People : legacy'[p] # legacy[p] => p \in winners
            /\ winners \cap excluded = {}
        BY <1>1, <3>1, <3>2, WritingDoes
      <3>4. Spends
        BY <1>1, <3>3 DEF IInv, WinnersExcluded
      <3>5. Keeps
        BY <3>3
      <3> QED
        BY <3>4, <3>5
    <2>2. CASE \E winners \in SUBSET Pooled : ExecuteDraw(winners)
      BY <1>1, <2>2, ImportAssumption DEF ExecuteDraw, IInv, TypeInv, Years
    <2>3. CASE \E p \in People, y \in Years, o \in Outcomes \ {"none"} : CorrectByHand(p, y, o)
      <3>1. legacy' = legacy /\ corrections' = corrections + 1 /\ corrections \in Nat
        BY <1>1, <2>3 DEF CorrectByHand, IInv, TypeInv
      <3> QED
        BY <3>1
    <2>4. CASE UNCHANGED <<legacy, ledger>>
      BY <2>4
    <2> QED
      BY <1>1, <2>1, <2>2, <2>3, <2>4
      DEF Next, Upload, Approve, Reject, Decide, Staging, BeginValidation, Check, StoreChunk,
          FinishStaging, FailStaging, Crash, Importing, PlanImport, RollBack, RegisterParticipant,
          people
  <1>2. IInv /\ [Next]_vars => [Spends]_vars /\ [Keeps]_vars
    BY <1>1
  <1> QED
    BY <1>2, Invariance, PTL DEF Spec, SpendsAndKeeps, SpendsOnlyOnce, NeverOverwrites

------------------------------------------------------------------------------
(* The verdict on any register (ImportVerdicts), line by line.              *)

Read(ls) == [i \in DOMAIN ls |-> StageRow(ls[i])]

\* The wins of the person of a row, wherever they are in the file.
Wins(rows, i) ==
  {j \in DOMAIN rows : /\ SamePerson(rows, i, j) /\ rows[j].values.won = "yes"
                       /\ rows[j].values.year # NoYear}

\* What staging makes of any line.
LEMMA AnyStagedLine ==
  ASSUME NEW ls, NEW known, NEW i \in DOMAIN ls
  PROVE  LET row == StageFile(ls, known)[i]
             codes == DetectDatabaseConflicts(Read(ls)[i], known)
         IN /\ DOMAIN StageFile(ls, known) = DOMAIN ls
            /\ row.values = Read(ls)[i].values
            /\ row.issues = Read(ls)[i].issues \cup DetectDuplicateYears(Read(ls), i)
                              \cup DetectChronology(Read(ls), i) \cup codes
  BY DEF StageFile, Read, StageRow

\* A set of numbers has more than one element when two of them differ.
LEMMA MoreThanOne ==
  ASSUME NEW n \in Nat, NEW S \in SUBSET (1 .. n)
  PROVE  /\ IsFiniteSet(S) /\ Cardinality(S) \in Nat
         /\ Cardinality(S) > 1 <=> \E a, b \in S : a # b
         /\ Cardinality(S) < 2 <=> \A a, b \in S : a = b
  <1>1. IsFiniteSet(S) /\ Cardinality(S) \in Nat
    <2>1. IsFiniteSet(1 .. n)
      BY FS_Interval
    <2>2. IsFiniteSet(S)
      BY <2>1, FS_Subset
    <2> QED
      BY <2>2, FS_CardinalityType
  <1>2. ASSUME NEW a \in S, NEW b \in S, a # b PROVE Cardinality(S) > 1
    <2>1. Cardinality(S) # 0
      BY <1>1, <1>2, FS_EmptySet
    <2>2. Cardinality(S) # 1
      BY <1>1, <1>2, FS_Singleton
    <2> QED
      BY <1>1, <2>1, <2>2
  <1>3. ASSUME \A a, b \in S : a = b PROVE Cardinality(S) < 2
    <2>1. CASE S = {}
      BY <2>1, FS_EmptySet
    <2>2. CASE S # {}
      <3>1. PICK x \in S : TRUE
        BY <2>2
      <3>2. S = {x}
        BY <1>3, <3>1
      <3> QED
        BY <3>2, FS_Singleton
    <2> QED
      BY <2>1, <2>2
  <1> QED
    BY <1>1, <1>2, <1>3

\* Repeats are nothing to stop an import for just when they all say the same.
LEMMA RepeatsBlock ==
  ASSUME NEW rows, NEW n \in Nat, DOMAIN rows = 1 .. n, NEW i \in 1 .. n
  PROVE  DetectDuplicateYears(rows, i) \subseteq Warnings <=>
           \A j, k \in Repeats(rows, i) : SameClaim(rows[j], rows[k])
  <1>1. PICK S, first : S = Repeats(rows, i) /\ first = FirstOf(Repeats(rows, i))
    OBVIOUS
  <1>2. DetectDuplicateYears(rows, i) =
          IF Cardinality(S) < 2 THEN {}
          ELSE IF \E j \in S : ~ SameClaim(rows[j], rows[first])
               THEN {"CONFLICTING_DUPLICATE_IN_FILE"}
          ELSE IF i = first THEN {} ELSE {"DUPLICATE_ROW_IN_FILE"}
    BY <1>1, DuplicateYears, Zenon
  <1>3. "CONFLICTING_DUPLICATE_IN_FILE" \notin Warnings /\ "DUPLICATE_ROW_IN_FILE" \in Warnings
    BY DEF Warnings
  <1>4. S \in SUBSET (1 .. n)
    BY <1>1 DEF Repeats
  <1>5. CASE Cardinality(S) < 2
    <2>1. \A j, k \in S : j = k
      BY <1>4, <1>5, MoreThanOne
    <2>2. \A j, k \in S : SameClaim(rows[j], rows[k])
      BY <2>1 DEF SameClaim
    <2> QED
      BY <1>1, <1>2, <1>5, <2>2
  <1>6. CASE ~ (Cardinality(S) < 2)
    <2>1. S # {}
      BY <1>6, FS_EmptySet
    <2>2. first \in S
      BY <1>1, <1>4, <2>1, FirstIsOne
    <2>3. DetectDuplicateYears(rows, i) \subseteq Warnings <=>
            \A j \in S : SameClaim(rows[j], rows[first])
      BY <1>2, <1>3, <1>6
    <2>4. (\A j \in S : SameClaim(rows[j], rows[first])) <=>
            \A j, k \in S : SameClaim(rows[j], rows[k])
      BY <2>2 DEF SameClaim
    <2> QED
      BY <1>1, <2>3, <2>4
  <1> QED
    BY <1>5, <1>6

\* What the chronology of a file finds against one of its rows, in these words.
LEMMA ChronologySilent ==
  ASSUME NEW rows, NEW n \in Nat, DOMAIN rows = 1 .. n, NEW i \in 1 .. n
  PROVE  /\ DetectChronology(rows, i) \subseteq Warnings <=> DetectChronology(rows, i) = {}
         /\ DetectChronology(rows, i) = {} <=>
              IF \E a, b \in Wins(rows, i) : a # b THEN i \notin Wins(rows, i)
              ELSE \A w \in Wins(rows, i) : ~ (/\ rows[i].values.year > rows[w].values.year
                                               /\ rows[i].values.participated = "yes")
  <1>1. PICK S : S = Wins(rows, i)
    OBVIOUS
  <1>2. DetectChronology(rows, i) =
          IF (IF Cardinality(S) > 1 THEN i \in S
              ELSE \E w \in S : /\ rows[i].values.year > rows[w].values.year
                                /\ rows[i].values.participated = "yes")
          THEN {"CONFLICTING_CHRONOLOGY_IN_FILE"} ELSE {}
    BY <1>1, Zenon DEF DetectChronology, Wins
  <1>3. Cardinality(S) > 1 <=> \E a, b \in S : a # b
    <2>1. S \in SUBSET (1 .. n)
      BY <1>1 DEF Wins
    <2> QED
      BY <2>1, MoreThanOne
  <1>4. "CONFLICTING_CHRONOLOGY_IN_FILE" \notin Warnings
    BY DEF Warnings
  <1> QED
    BY <1>1, <1>2, <1>3, <1>4

\* A verdict without a blocking row, in these words.
LEMMA NothingBlocks ==
  ASSUME NEW ls, NEW n \in Nat, DOMAIN ls = 1 .. n, NEW known
  PROVE  Importable(StageFile(ls, known)) <=>
           \A i \in 1 .. n :
             /\ Read(ls)[i].issues \subseteq Warnings
             /\ \A j, k \in Repeats(Read(ls), i) : SameClaim(Read(ls)[j], Read(ls)[k])
             /\ DetectChronology(Read(ls), i) = {}
             /\ DetectDatabaseConflicts(Read(ls)[i], known) \subseteq Warnings
  <1>1. \A row : ~ Blocks(row) <=> row.issues \subseteq Warnings
    BY DEF Blocks, ResolveRowStatus
  <1>2. ASSUME NEW i \in 1 .. n
        PROVE  ~ Blocks(StageFile(ls, known)[i]) <=>
                 /\ Read(ls)[i].issues \subseteq Warnings
                 /\ \A j, k \in Repeats(Read(ls), i) : SameClaim(Read(ls)[j], Read(ls)[k])
                 /\ DetectChronology(Read(ls), i) = {}
                 /\ DetectDatabaseConflicts(Read(ls)[i], known) \subseteq Warnings
    <2>1. PICK row, own, repeats, chronology, codes :
            /\ row = StageFile(ls, known)[i] /\ own = Read(ls)[i].issues
            /\ repeats = DetectDuplicateYears(Read(ls), i)
            /\ chronology = DetectChronology(Read(ls), i)
            /\ codes = DetectDatabaseConflicts(Read(ls)[i], known)
      OBVIOUS
    <2>2. row.issues = own \cup repeats \cup chronology \cup codes
      BY <2>1, AnyStagedLine
    <2>3. DOMAIN Read(ls) = 1 .. n
      BY DEF Read
    <2>4. repeats \subseteq Warnings <=>
            \A j, k \in Repeats(Read(ls), i) : SameClaim(Read(ls)[j], Read(ls)[k])
      BY <2>1, <2>3, RepeatsBlock
    <2>5. chronology \subseteq Warnings <=> chronology = {}
      BY <2>1, <2>3, ChronologySilent
    <2>6. ~ Blocks(row) <=> /\ own \subseteq Warnings /\ repeats \subseteq Warnings
                            /\ chronology \subseteq Warnings /\ codes \subseteq Warnings
      BY <1>1, <2>2
    <2> QED
      BY <2>1, <2>4, <2>5, <2>6
  <1>3. DOMAIN StageFile(ls, known) = 1 .. n
    BY DEF StageFile
  <1> QED
    BY <1>2, <1>3 DEF Importable

\* The rows an import writes, in these words.
LEMMA WhatIsWritable ==
  ASSUME NEW ls, NEW known
  PROVE  \A i : i \in Writable(StageFile(ls, known)) <=>
           /\ i \in DOMAIN ls
           /\ "DUPLICATE_ROW_IN_FILE" \notin DetectDuplicateYears(Read(ls), i)
           /\ "ALREADY_RECORDED" \notin DetectDatabaseConflicts(Read(ls)[i], known)
  <1> SUFFICES ASSUME NEW i \in DOMAIN ls
               PROVE  i \in Writable(StageFile(ls, known)) <=>
                 /\ "DUPLICATE_ROW_IN_FILE" \notin DetectDuplicateYears(Read(ls), i)
                 /\ "ALREADY_RECORDED" \notin DetectDatabaseConflicts(Read(ls)[i], known)
    BY DEF Writable, StageFile
  <1>1. PICK row, own, repeats, chronology, codes :
          /\ row = StageFile(ls, known)[i] /\ own = Read(ls)[i].issues
          /\ repeats = DetectDuplicateYears(Read(ls), i)
          /\ chronology = DetectChronology(Read(ls), i)
          /\ codes = DetectDatabaseConflicts(Read(ls)[i], known)
    OBVIOUS
  <1>2. row.issues = own \cup repeats \cup chronology \cup codes
    BY <1>1, AnyStagedLine
  <1>3. "DUPLICATE_ROW_IN_FILE" \notin own /\ "ALREADY_RECORDED" \notin own
    BY <1>1, AloneIsNeither DEF Read
  <1>4. "ALREADY_RECORDED" \notin repeats /\ chronology \subseteq {"CONFLICTING_CHRONOLOGY_IN_FILE"}
    BY <1>1, FileIsNotRecord
  <1>5. "DUPLICATE_ROW_IN_FILE" \notin codes
    BY <1>1, JudgedByDatabase
  <1>6. i \in Writable(StageFile(ls, known)) <=>
          "DUPLICATE_ROW_IN_FILE" \notin row.issues /\ "ALREADY_RECORDED" \notin row.issues
    BY <1>1 DEF Writable, StageFile
  <1> QED
    BY <1>1, <1>2, <1>3, <1>4, <1>5, <1>6

\* A line that raises nothing but warnings says where and who.
LEMMA WholeIdentity ==
  ASSUME NEW line, IsLine(line), StageRow(line).issues \subseteq Warnings
  PROVE  LET v == StageRow(line).values IN v.commune # Null /\ v.name # Null /\ v.dob # Null
  <1>1. /\ StageName(line.name) \subseteq Warnings /\ StageDob(line.dob) \subseteq Warnings
        /\ StageCommune(line.commune) \subseteq Warnings
    BY DEF StageRow
  <1>2. /\ "MISSING_NAME" \notin Warnings /\ "INVALID_NAME" \notin Warnings
        /\ "MISSING_DOB" \notin Warnings /\ "INVALID_DOB" \notin Warnings
        /\ "MISSING_COMMUNE_CODE" \notin Warnings /\ "UNKNOWN_COMMUNE" \notin Warnings
    BY DEF Warnings
  <1>3. line.name # Blank /\ line.name # Garbage
    BY <1>1, <1>2 DEF StageName, Missing, Invalid
  <1>4. line.dob # Blank /\ line.dob # Garbage /\ line.dob # "implausible"
    BY <1>1, <1>2 DEF StageDob, Missing
  <1>5. line.commune # Blank /\ line.commune # Garbage
    <2>1. Blank \notin Communes /\ Garbage \notin Communes
      BY ImportAssumption
    <2>2. Blank # Garbage
      BY DEF Blank, Garbage
    <2>3. StageCommune(Blank) = {"MISSING_COMMUNE_CODE"}
      BY <2>1, <2>2 DEF StageCommune
    <2>4. StageCommune(Garbage) = {"UNKNOWN_COMMUNE"}
      BY <2>1, <2>2 DEF StageCommune
    <2> QED
      BY <1>1, <1>2, <2>3, <2>4
  <1>6. /\ line.name \in {Blank, Garbage, "formula", "A", "B"}
        /\ line.dob \in {Blank, Garbage, "implausible", "A", "B"}
        /\ line.commune \in {Blank, Garbage} \cup Communes
    BY DEF IsLine, Columns, Cells
  <1>7. /\ StageRow(line).values.name = Kept(line.name)
        /\ StageRow(line).values.dob = Kept(line.dob)
        /\ StageRow(line).values.commune = Kept(line.commune)
    BY DEF StageRow, Columns, Cells
  <1>8. \A c \in {"formula", "A", "B"} : Kept(c) # Null
    BY DEF Kept, Null, Blank, Garbage
  <1>9. \A c \in Communes : Kept(c) # Null
    BY ImportAssumption DEF Kept
  <1> QED
    BY <1>3, <1>4, <1>5, <1>6, <1>7, <1>8, <1>9

------------------------------------------------------------------------------
(* What an importable register says could have happened.                    *)

\* The years for which anything names somebody a winner.
Named(person) == person.wins \cup {y \in Years : person.history[y] = "won"}

\* The latest of them is one of them.
LEMMA LatestIsNamed ==
  ASSUME NEW person, IsKnown(person), Named(person) # {}
  PROVE  WinningYear(person) \in Named(person)
  <1> DEFINE T == {LastYear - y : y \in Named(person)}
  <1>1. \A y \in Named(person) : y \in Nat /\ y <= LastYear
    BY ImportAssumption DEF Named, IsKnown, Years
  <1>2. LastYear \in Nat
    BY ImportAssumption
  <1>3. T \in SUBSET Nat /\ T # {}
    BY <1>1, <1>2
  <1>4. PICK x \in T : \A t \in T : x <= t
    BY <1>3, LeastNumber
  <1>5. PICK y \in Named(person) : x = LastYear - y
    BY <1>4
  <1>6. \A z \in Named(person) : z <= y
    BY <1>1, <1>2, <1>4, <1>5
  <1>7. WinningYear(person) = CHOOSE w \in Named(person) : \A z \in Named(person) : z <= w
    BY DEF WinningYear, Named
  <1> QED
    BY <1>6, <1>7

\* What the database knows of somebody, where a row of an importable register is written.
LEMMA BesideTheDatabase ==
  ASSUME NEW known \in Registry, NEW row, NEW p, p = row.values.nationalId, p # Null, p \in People,
         row.values.year \in Years, known[p].registered,
         DetectDatabaseConflicts(row, known) \subseteq Warnings
  PROVE  /\ "ALREADY_RECORDED" \notin DetectDatabaseConflicts(row, known) =>
              known[p].history[row.values.year] = "none"
         /\ known[p].hasWon => /\ row.values.won # "yes"
                               /\ Named(known[p]) # {} =>
                                    \E w \in Named(known[p]) : row.values.year <= w
  <1>1. IsKnown(known[p])
    BY VerdictAssumption
  <1>2. row.values.year # NoYear
    BY ImportAssumption DEF Years, NoYear
  <1>3. "ALREADY_RECORDED" \notin DetectDatabaseConflicts(row, known) =>
          known[p].history[row.values.year] = "none"
    BY <1>2, JudgedByDatabase
  <1>4. ASSUME known[p].hasWon
        PROVE  /\ row.values.won # "yes"
               /\ Named(known[p]) # {} => \E w \in Named(known[p]) : row.values.year <= w
    <2>1. CheckWinnerCoherence(row, known[p]) \subseteq Warnings
      BY DEF DetectDatabaseConflicts
    <2>2. "ALREADY_A_WINNER" \notin Warnings /\ "CONTRADICTS_WINNER_CHRONOLOGY" \notin Warnings
      BY DEF Warnings
    <2>3. row.values.won # "yes"
      BY <1>4, <2>1, <2>2 DEF CheckWinnerCoherence
    <2>4. ~ (WinningYear(known[p]) # NoYear /\ row.values.year > WinningYear(known[p]))
      BY <1>4, <2>1, <2>2, <2>3 DEF CheckWinnerCoherence
    <2>5. ASSUME Named(known[p]) # {}
          PROVE  \E w \in Named(known[p]) : row.values.year <= w
      <3>1. WinningYear(known[p]) \in Named(known[p])
        BY <1>1, <2>5, LatestIsNamed
      <3>2. Named(known[p]) \subseteq Years
        BY <1>1 DEF Named, IsKnown
      <3>3. WinningYear(known[p]) \in Int /\ WinningYear(known[p]) # NoYear /\ row.values.year \in Int
        BY <3>1, <3>2, ImportAssumption DEF Years, NoYear
      <3> QED
        BY <2>4, <3>1, <3>3
    <2> QED
      BY <2>3, <2>5
  <1> QED
    BY <1>3, <1>4

\* The rows of an importable register that would be written say one thing of each year, and
\* nothing of a person after a win of theirs.
LEMMA WrittenCouldBe ==
  ASSUME NEW ls, NEW n \in Nat, DOMAIN ls = 1 .. n, \A i \in 1 .. n : IsLine(ls[i]),
         NEW known \in Registry, Importable(StageFile(ls, known)),
         NEW p, NEW i \in Writable(StageFile(ls, known)), NEW j \in Writable(StageFile(ls, known)),
         Read(ls)[i].values.nationalId = p, Read(ls)[j].values.nationalId = p
  PROVE  LET a == Read(ls)[i].values
             b == Read(ls)[j].values
         IN /\ i # j => a.year # b.year
            /\ a.won = "yes" /\ b.won = "yes" => i = j
            /\ b.won = "yes" /\ a.participated = "yes" => a.year <= b.year
  <1> DEFINE rows == Read(ls)
             a == rows[i].values
             b == rows[j].values
  <1>1. i \in 1 .. n /\ j \in 1 .. n /\ DOMAIN rows = 1 .. n
    BY WhatIsWritable DEF Read
  <1>2. /\ "DUPLICATE_ROW_IN_FILE" \notin DetectDuplicateYears(rows, i)
        /\ "DUPLICATE_ROW_IN_FILE" \notin DetectDuplicateYears(rows, j)
    BY WhatIsWritable
  <1>3. \A k \in {i, j} : /\ rows[k].issues \subseteq Warnings
                          /\ \A l, m \in Repeats(rows, k) : SameClaim(rows[l], rows[m])
                          /\ DetectChronology(rows, k) = {}
    BY <1>1, NothingBlocks
  <1>4. \A k \in {i, j} : DetectDuplicateYears(rows, k) \subseteq Warnings
    BY <1>1, <1>3, RepeatsBlock
  <1>5. \A k \in {i, j} : /\ rows[k].values.nationalId = p /\ p # Null
                          /\ rows[k].values.year \in Years /\ rows[k].values.year # NoYear
    BY <1>1, <1>3, AnyReadableLine DEF Read
  <1>6. "CONFLICTING_DUPLICATE_IN_FILE" \notin Warnings
    BY DEF Warnings
  <1>7. ASSUME i # j PROVE a.year # b.year
    <2> SUFFICES ASSUME a.year = b.year PROVE FALSE
      OBVIOUS
    <2>1. SameYear(rows, i, j)
      BY <1>5 DEF SameYear, SamePerson
    <2> HIDE DEF rows
    <2>2. \/ DetectDuplicateYears(rows, i) # {} /\ DetectDuplicateYears(rows, i) \subseteq
               {"DUPLICATE_ROW_IN_FILE", "CONFLICTING_DUPLICATE_IN_FILE"}
          \/ DetectDuplicateYears(rows, j) # {} /\ DetectDuplicateYears(rows, j) \subseteq
               {"DUPLICATE_ROW_IN_FILE", "CONFLICTING_DUPLICATE_IN_FILE"}
      BY <1>1, <1>7, <2>1, RepeatsAreCalled
    <2> QED
      BY <1>2, <1>4, <1>6, <2>2
  <1>8. Wins(rows, i) = Wins(rows, j)
    BY <1>5 DEF Wins, SamePerson
  <1>9. \A k \in {i, j} : rows[k].values.won = "yes" => k \in Wins(rows, i)
    BY <1>1, <1>5 DEF Wins, SamePerson
  <1> HIDE DEF rows
  <1>10. \A k \in {i, j} :
           IF \E c, d \in Wins(rows, k) : c # d THEN k \notin Wins(rows, k)
           ELSE \A w \in Wins(rows, k) : ~ (/\ rows[k].values.year > rows[w].values.year
                                            /\ rows[k].values.participated = "yes")
    BY <1>1, <1>3, ChronologySilent
  <1>11. a.won = "yes" /\ b.won = "yes" => i = j
    BY <1>8, <1>9, <1>10
  <1>12. b.won = "yes" /\ a.participated = "yes" => a.year <= b.year
    <2>1. a.year \in Int /\ b.year \in Int
      BY <1>5, ImportAssumption DEF Years
    <2> QED
      BY <1>8, <1>9, <1>10, <2>1
  <1> QED
    BY <1>7, <1>11, <1>12 DEF rows

\* A set whose elements are all the same has one at most.
LEMMA OneAtMost ==
  ASSUME NEW U, \A x, y \in U : x = y
  PROVE  Cardinality(U) <= 1
  <1>1. CASE U = {}
    BY <1>1, FS_EmptySet
  <1>2. CASE U # {}
    <2>1. PICK x \in U : TRUE
      BY <1>2
    <2>2. U = {x}
      BY <2>1
    <2>3. Cardinality({x}) = 1
      BY FS_Singleton, Zenon
    <2> QED
      BY <2>2, <2>3
  <1> QED
    BY <1>1, <1>2

\* What rows would write of somebody can have happened, beside what excludes them already.
OneLife(rows, known, p) ==
  LET mine == {i \in Writable(rows) : rows[i].values.nationalId = p}
      year(i) == rows[i].values.year
      wins == {year(i) : i \in {j \in mine : rows[j].values.won = "yes"}}
      barred == known[p].registered /\ known[p].hasWon
      before == known[p].wins \cup {y \in Years : known[p].history[y] = "won"}
  IN /\ \A i, j \in mine : i # j => year(i) # year(j)
     /\ known[p].registered => \A i \in mine : known[p].history[year(i)] = "none"
     /\ Cardinality(wins) <= 1 /\ (barred => wins = {})
     /\ \A i \in mine : rows[i].values.participated = "yes" =>
          /\ \A w \in wins : year(i) <= w
          /\ barred /\ before # {} => \E w \in before : year(i) <= w

\* What an importable register would write of somebody could have.
LEMMA OneLifeWritten ==
  ASSUME NEW ls, NEW n \in Nat, DOMAIN ls = 1 .. n, \A i \in 1 .. n : IsLine(ls[i]),
         NEW known \in Registry, Importable(StageFile(ls, known)), NEW p \in People
  PROVE  OneLife(StageFile(ls, known), known, p)
  <1> DEFINE rows == StageFile(ls, known)
             mine == {i \in Writable(rows) : rows[i].values.nationalId = p}
             year(i) == rows[i].values.year
             wins == {year(i) : i \in {j \in mine : rows[j].values.won = "yes"}}
             barred == known[p].registered /\ known[p].hasWon
             before == Named(known[p])
  <1>1. \A i \in mine : /\ i \in 1 .. n /\ i \in Writable(rows)
                        /\ "ALREADY_RECORDED" \notin DetectDatabaseConflicts(Read(ls)[i], known)
    BY WhatIsWritable
  <1>2. \A i \in 1 .. n : rows[i].values = Read(ls)[i].values
    BY AnyStagedLine
  <1>3. \A i \in mine : /\ Read(ls)[i].issues \subseteq Warnings
                        /\ DetectDatabaseConflicts(Read(ls)[i], known) \subseteq Warnings
    BY <1>1, NothingBlocks
  <1>4. \A i \in mine : /\ Read(ls)[i].values.nationalId = p /\ p # Null
                        /\ Read(ls)[i].values.year \in Years
    BY <1>1, <1>2, <1>3, AnyReadableLine DEF Read
  <1> HIDE DEF rows, mine
  <1>5. ASSUME NEW i \in mine, NEW j \in mine
        PROVE  /\ i # j => year(i) # year(j)
               /\ rows[i].values.won = "yes" /\ rows[j].values.won = "yes" => i = j
               /\ rows[j].values.won = "yes" /\ rows[i].values.participated = "yes" =>
                    year(i) <= year(j)
    <2>1. rows[i].values = Read(ls)[i].values /\ rows[j].values = Read(ls)[j].values
      BY <1>1, <1>2
    <2>2. i \in Writable(StageFile(ls, known)) /\ j \in Writable(StageFile(ls, known))
      BY <1>1 DEF rows
    <2>3. Read(ls)[i].values.nationalId = p /\ Read(ls)[j].values.nationalId = p
      BY <1>4
    <2>4. LET a == Read(ls)[i].values
              b == Read(ls)[j].values
          IN /\ i # j => a.year # b.year
             /\ a.won = "yes" /\ b.won = "yes" => i = j
             /\ b.won = "yes" /\ a.participated = "yes" => a.year <= b.year
      BY <2>2, <2>3, WrittenCouldBe
    <2> QED
      BY <2>1, <2>4
  <1>6. ASSUME NEW i \in mine, known[p].registered
        PROVE  /\ known[p].history[year(i)] = "none"
               /\ known[p].hasWon => /\ rows[i].values.won # "yes"
                                     /\ before # {} => \E w \in before : year(i) <= w
    <2>1. PICK row : row = Read(ls)[i]
      OBVIOUS
    <2>2. /\ p = row.values.nationalId /\ p # Null /\ row.values.year \in Years
          /\ DetectDatabaseConflicts(row, known) \subseteq Warnings
          /\ "ALREADY_RECORDED" \notin DetectDatabaseConflicts(row, known)
          /\ rows[i].values = row.values
      BY <1>1, <1>2, <1>3, <1>4, <2>1
    <2>3. /\ known[p].history[row.values.year] = "none"
          /\ known[p].hasWon => /\ row.values.won # "yes"
                                /\ before # {} => \E w \in before : row.values.year <= w
      BY <1>6, <2>2, BesideTheDatabase
    <2> QED
      BY <2>2, <2>3
  <1>7. \A x, y \in wins : x = y
    BY <1>5
  <1>8. Cardinality(wins) <= 1
    <2> HIDE DEF wins
    <2> QED
      BY <1>7, OneAtMost
  <1>9. barred => wins = {}
    BY <1>6
  <1>10. \A i \in mine : rows[i].values.participated = "yes" =>
           /\ \A w \in wins : year(i) <= w
           /\ barred /\ before # {} => \E w \in before : year(i) <= w
    BY <1>5, <1>6
  <1>11. /\ \A i, j \in mine : i # j => year(i) # year(j)
         /\ known[p].registered => \A i \in mine : known[p].history[year(i)] = "none"
    BY <1>5, <1>6
  <1> QED
    BY <1>8, <1>9, <1>10, <1>11 DEF OneLife, rows, mine, Named

\* What a row of an importable register has, to be written.
LEMMA WrittenHasAll ==
  ASSUME NEW ls, NEW n \in Nat, DOMAIN ls = 1 .. n, \A i \in 1 .. n : IsLine(ls[i]),
         NEW known \in Registry, Importable(StageFile(ls, known)),
         NEW i \in Writable(StageFile(ls, known))
  PROVE  LET v == StageFile(ls, known)[i].values IN
         /\ v.nationalId # Null /\ v.commune # Null /\ v.year # NoYear
         /\ v.participated # Null /\ v.won # Null
         /\ ~ known[v.nationalId].registered =>
              \A c \in {"name", "dob", "gender", "phone"} : v[c] # Null
  <1>1. i \in 1 .. n
    BY WhatIsWritable
  <1>2. PICK row : row = Read(ls)[i]
    OBVIOUS
  <1>3. /\ StageFile(ls, known)[i].values = row.values
        /\ row.issues \subseteq Warnings
        /\ DetectDatabaseConflicts(row, known) \subseteq Warnings
    BY <1>1, <1>2, AnyStagedLine, NothingBlocks
  <1>4. row = StageRow(ls[i]) /\ IsLine(ls[i])
    BY <1>1, <1>2 DEF Read
  <1>5. /\ row.values.nationalId # Null /\ row.values.year # NoYear
        /\ row.values.participated \in {"yes", "no"} /\ row.values.won \in {"yes", "no"}
    BY <1>3, <1>4, AnyReadableLine
  <1>6. row.values.commune # Null /\ row.values.name # Null /\ row.values.dob # Null
    BY <1>3, <1>4, WholeIdentity
  <1>7. ASSUME ~ known[row.values.nationalId].registered
        PROVE  row.values.gender # Null /\ row.values.phone # Null
    <2>1. CheckNewParticipant(row) \subseteq Warnings
      BY <1>3, <1>5, <1>7 DEF DetectDatabaseConflicts
    <2>2. /\ "MISSING_GENDER_FOR_NEW_PARTICIPANT" \notin Warnings
          /\ "MISSING_PHONE_NUMBER_FOR_NEW_PARTICIPANT" \notin Warnings
      BY DEF Warnings
    <2> QED
      BY <2>1, <2>2 DEF CheckNewParticipant
  <1>8. "yes" # Null /\ "no" # Null
    BY DEF Null
  <1> QED
    BY <1>3, <1>5, <1>6, <1>7, <1>8

------------------------------------------------------------------------------
(* The order of the lines.                                                  *)

\* The lines of one register in another order, where turn takes each line to where it is in the
\* first, and back.
Reordered(ls, other, n, turn) ==
  /\ DOMAIN ls = 1 .. n /\ DOMAIN other = 1 .. n /\ turn \in [1 .. n -> 1 .. n]
  /\ \A i \in 1 .. n : turn[turn[i]] = i /\ other[i] = ls[turn[i]]

LEMMA TurnedBack ==
  ASSUME NEW ls, NEW other, NEW n, NEW turn, Reordered(ls, other, n, turn)
  PROVE  Reordered(other, ls, n, turn)
  BY DEF Reordered

\* Each line finds the same lines about its person and its year, where they are now.
LEMMA SameCompany ==
  ASSUME NEW ls, NEW other, NEW n \in Nat, NEW turn, Reordered(ls, other, n, turn), NEW i \in 1 .. n
  PROVE  /\ Read(other)[i] = Read(ls)[turn[i]] /\ turn[i] \in 1 .. n
         /\ \A j : j \in Repeats(Read(other), i) <=>
              j \in 1 .. n /\ turn[j] \in Repeats(Read(ls), turn[i])
         /\ \A j : j \in Wins(Read(other), i) <=>
              j \in 1 .. n /\ turn[j] \in Wins(Read(ls), turn[i])
  <1>1. \A j \in 1 .. n : Read(other)[j] = Read(ls)[turn[j]] /\ turn[j] \in 1 .. n
    BY DEF Reordered, Read
  <1>2. DOMAIN Read(other) = 1 .. n /\ DOMAIN Read(ls) = 1 .. n
    BY DEF Reordered, Read
  <1>3. PICK a, b : a = Read(ls) /\ b = Read(other)
    OBVIOUS
  <1>4. \A j : j \in Repeats(b, i) <=> j \in 1 .. n /\ turn[j] \in Repeats(a, turn[i])
    BY <1>1, <1>2, <1>3 DEF Repeats, SameYear, SamePerson
  <1>5. \A j : j \in Wins(b, i) <=> j \in 1 .. n /\ turn[j] \in Wins(a, turn[i])
    BY <1>1, <1>2, <1>3 DEF Wins, SamePerson
  <1> QED
    BY <1>1, <1>3, <1>4, <1>5

\* A register in another order is importable as before.
LEMMA ImportableInAnyOrder ==
  ASSUME NEW ls, NEW other, NEW n \in Nat, NEW turn, Reordered(ls, other, n, turn), NEW known,
         Importable(StageFile(ls, known))
  PROVE  Importable(StageFile(other, known))
  <1>1. DOMAIN ls = 1 .. n /\ DOMAIN other = 1 .. n
    BY DEF Reordered
  <1>2. ASSUME NEW i \in 1 .. n
        PROVE  /\ Read(other)[i].issues \subseteq Warnings
               /\ \A j, k \in Repeats(Read(other), i) : SameClaim(Read(other)[j], Read(other)[k])
               /\ DetectChronology(Read(other), i) = {}
               /\ DetectDatabaseConflicts(Read(other)[i], known) \subseteq Warnings
    <2>1. PICK a, b, t : a = Read(ls) /\ b = Read(other) /\ t = turn[i]
      OBVIOUS
    <2>2. /\ b[i] = a[t] /\ t \in 1 .. n
          /\ \A j : j \in Repeats(b, i) <=> j \in 1 .. n /\ turn[j] \in Repeats(a, t)
          /\ \A j : j \in Wins(b, i) <=> j \in 1 .. n /\ turn[j] \in Wins(a, t)
      BY <2>1, SameCompany
    <2>3. /\ a[t].issues \subseteq Warnings
          /\ \A j, k \in Repeats(a, t) : SameClaim(a[j], a[k])
          /\ DetectChronology(a, t) = {}
          /\ DetectDatabaseConflicts(a[t], known) \subseteq Warnings
      BY <1>1, <2>1, <2>2, NothingBlocks
    <2>4. \A j \in 1 .. n : b[j] = a[turn[j]]
      BY <2>1, SameCompany
    <2>5. \A j, k \in Repeats(b, i) : SameClaim(b[j], b[k])
      BY <2>2, <2>3, <2>4
    <2>6. DOMAIN a = 1 .. n /\ DOMAIN b = 1 .. n
      BY <1>1, <2>1 DEF Read
    <2>7. IF \E c, d \in Wins(a, t) : c # d THEN t \notin Wins(a, t)
          ELSE \A w \in Wins(a, t) : ~ (/\ a[t].values.year > a[w].values.year
                                        /\ a[t].values.participated = "yes")
      BY <2>2, <2>3, <2>6, ChronologySilent
    <2>8. (\E c, d \in Wins(b, i) : c # d) <=> \E c, d \in Wins(a, t) : c # d
      <3>1. \A c \in Wins(a, t) : c \in 1 .. n
        BY <2>6 DEF Wins
      <3>2. \A c \in 1 .. n : turn[c] \in 1 .. n /\ turn[turn[c]] = c
        BY DEF Reordered
      <3> QED
        BY <2>2, <3>1, <3>2
    <2>9. IF \E c, d \in Wins(b, i) : c # d THEN i \notin Wins(b, i)
          ELSE \A w \in Wins(b, i) : ~ (/\ b[i].values.year > b[w].values.year
                                        /\ b[i].values.participated = "yes")
      BY <2>1, <2>2, <2>4, <2>7, <2>8
    <2>10. DetectChronology(b, i) = {}
      BY <2>6, <2>9, ChronologySilent
    <2> QED
      BY <2>1, <2>2, <2>3, <2>5, <2>10
  <1> QED
    BY <1>1, <1>2, NothingBlocks

\* Rows that say the same of a person's year are called recorded together.
LEMMA RecordedTogether ==
  ASSUME NEW a, NEW b, NEW known, a.values.nationalId = b.values.nationalId,
         a.values.year = b.values.year, SameClaim(a, b)
  PROVE  "ALREADY_RECORDED" \in DetectDatabaseConflicts(a, known) <=>
           "ALREADY_RECORDED" \in DetectDatabaseConflicts(b, known)
  <1>1. /\ a.values.participated = b.values.participated /\ a.values.won = b.values.won
        /\ a.values.commune = b.values.commune
    BY DEF SameClaim
  <1>2. OutcomeOf(a) = OutcomeOf(b)
    BY <1>1 DEF OutcomeOf
  <1>3. \A person : CheckExistingHistory(a, person) = CheckExistingHistory(b, person)
    BY <1>1, <1>2, Zenon DEF CheckExistingHistory
  <1>4. \A row : "ALREADY_RECORDED" \in DetectDatabaseConflicts(row, known) <=>
          /\ row.values.nationalId # Null /\ known[row.values.nationalId].registered
          /\ "ALREADY_RECORDED" \in CheckExistingHistory(row, known[row.values.nationalId])
    <2> SUFFICES ASSUME NEW row
                 PROVE  "ALREADY_RECORDED" \in DetectDatabaseConflicts(row, known) <=>
                   /\ row.values.nationalId # Null /\ known[row.values.nationalId].registered
                   /\ "ALREADY_RECORDED" \in CheckExistingHistory(row, known[row.values.nationalId])
      OBVIOUS
    <2>1. /\ "ALREADY_RECORDED" \notin CheckNewParticipant(row)
          /\ "ALREADY_RECORDED" \notin CheckIdentity(row)
      BY DEF CheckNewParticipant, CheckIdentity
    <2>2. \A person : "ALREADY_RECORDED" \notin CheckWinnerCoherence(row, person)
      BY DEF CheckWinnerCoherence
    <2> QED
      BY <2>1, <2>2 DEF DetectDatabaseConflicts
  <1> QED
    BY <1>3, <1>4

\* What is written of a register in another order was written of it in the first.
LEMMA SameFacts ==
  ASSUME NEW ls, NEW other, NEW n \in Nat, NEW turn, Reordered(ls, other, n, turn), NEW known,
         Importable(StageFile(ls, known))
  PROVE  Facts(StageFile(other, known)) \subseteq Facts(StageFile(ls, known))
  <1> DEFINE FactAt(rows, i) ==
               [c \in {"nationalId", "commune", "year", "participated", "won"} |-> rows[i].values[c]]
  <1>1. DOMAIN ls = 1 .. n /\ DOMAIN other = 1 .. n /\ DOMAIN Read(ls) = 1 .. n
    BY DEF Reordered, Read
  <1>2. \A rows : Facts(rows) = {FactAt(rows, i) : i \in Writable(rows)}
    BY DEF Facts
  <1>3. ASSUME NEW k \in Writable(StageFile(other, known))
        PROVE  \E i \in Writable(StageFile(ls, known)) :
                 FactAt(StageFile(other, known), k) = FactAt(StageFile(ls, known), i)
    <2>1. PICK a, b, t : a = Read(ls) /\ b = Read(other) /\ t = turn[k]
      OBVIOUS
    <2>2. k \in 1 .. n /\ "ALREADY_RECORDED" \notin DetectDatabaseConflicts(b[k], known)
      BY <1>1, <2>1, WhatIsWritable
    <2>3. b[k] = a[t] /\ t \in 1 .. n
      BY <2>1, <2>2, SameCompany
    <2>4. PICK f \in 1 .. n :
            /\ "DUPLICATE_ROW_IN_FILE" \notin DetectDuplicateYears(a, f)
            /\ a[f].values.nationalId = a[t].values.nationalId
            /\ a[f].values.year = a[t].values.year
            /\ SameClaim(a[t], a[f])
      <3>1. CASE "DUPLICATE_ROW_IN_FILE" \notin DetectDuplicateYears(a, t)
        BY <2>3, <3>1 DEF SameClaim
      <3>2. CASE "DUPLICATE_ROW_IN_FILE" \in DetectDuplicateYears(a, t)
        <4>1. \E f \in 1 .. n : /\ SameYear(a, t, f) /\ SameClaim(a[t], a[f])
                                /\ DetectDuplicateYears(a, f) = {}
          BY <1>1, <2>1, <2>3, <3>2, DuplicateOfFirst
        <4> QED
          BY <4>1 DEF SameYear, SamePerson
      <3> QED
        BY <3>1, <3>2
    <2>5. "ALREADY_RECORDED" \notin DetectDatabaseConflicts(a[f], known)
      BY <2>2, <2>3, <2>4, RecordedTogether
    <2>6. f \in Writable(StageFile(ls, known))
      BY <1>1, <2>1, <2>4, <2>5, WhatIsWritable
    <2>7. /\ StageFile(other, known)[k].values = b[k].values
          /\ StageFile(ls, known)[f].values = a[f].values
      BY <1>1, <2>1, <2>2, AnyStagedLine
    <2>8. \A c \in {"nationalId", "commune", "year", "participated", "won"} :
            b[k].values[c] = a[f].values[c]
      BY <2>3, <2>4 DEF SameClaim
    <2> QED
      BY <2>6, <2>7, <2>8
  <1> HIDE DEF FactAt
  <1> QED
    BY <1>2, <1>3

------------------------------------------------------------------------------
(* Every register, at every stage of its typing.                            *)

TypedLine == {line \in [Columns -> UNION {Cells[c] : c \in Columns}] :
                \A c \in Columns : line[c] \in Cells[c]}

\* A register is whole lines within the bounds, and its rows are what staging makes of them.
RegisterInv ==
  /\ lines \in Seq(TypedLine) /\ Len(lines) <= MaxLines
  /\ database \in Registry
  /\ slips \in 0 .. MaxSlips
  /\ verdicts # <<>> => verdicts = StageFile(lines, database)

\* Lines are typed whole.
LEMMA LinesAreTyped ==
  ASSUME NEW person \in People, NEW year \in Years, NEW outcome \in Outcomes
  PROVE  Line(person, year, outcome) \in TypedLine
  <1> DEFINE line == Line(person, year, outcome)
  <1>1. HomeCommune \in Communes
    BY VerdictAssumption, ImportAssumption DEF HomeCommune
  <1>2. DOMAIN line = Columns
    BY DEF Line, Columns, Cells
  <1>3. \A c \in Columns : line[c] \in Cells[c]
    BY <1>1 DEF Line, Columns, Cells
  <1>4. line = [c \in Columns |-> line[c]]
    BY DEF Line, Columns, Cells
  <1> HIDE DEF line
  <1>5. line \in TypedLine
    BY <1>2, <1>3, <1>4 DEF TypedLine
  <1> QED
    BY <1>5 DEF line

LEMMA TypedIsLine == \A line \in TypedLine : IsLine(line)
  BY DEF TypedLine, IsLine

\* A cell misread leaves a line of cells.
LEMMA MisreadIsTyped ==
  ASSUME NEW line \in TypedLine, NEW column \in Columns, NEW cell \in Cells[column]
  PROVE  [line EXCEPT ![column] = cell] \in TypedLine
  <1>1. cell \in UNION {Cells[c] : c \in Columns}
    OBVIOUS
  <1> QED
    BY <1>1 DEF TypedLine

LEMMA RegisterInvHolds == RegisterSpec => []RegisterInv
  <1>1. RegisterInit => RegisterInv
    BY VerdictAssumption DEF RegisterInit, RegisterInv
  <1>2. RegisterInv /\ [RegisterNext]_registerVars => RegisterInv'
    <2> SUFFICES ASSUME RegisterInv, [RegisterNext]_registerVars PROVE RegisterInv'
      OBVIOUS
    <2>1. ASSUME NEW p \in People, NEW y \in Years, NEW o \in Outcomes \ {"none"}, TypeLine(p, y, o)
          PROVE  RegisterInv'
      <3>1. Line(p, y, o) \in TypedLine
        BY <2>1, LinesAreTyped
      <3>2. lines' \in Seq(TypedLine) /\ Len(lines') = Len(lines) + 1
        BY <2>1, <3>1 DEF TypeLine, RegisterInv
      <3>3. Len(lines') <= MaxLines
        BY <2>1, <3>2, VerdictAssumption DEF TypeLine, RegisterInv
      <3> QED
        BY <2>1, <3>2, <3>3 DEF TypeLine, RegisterInv
    <2>2. ASSUME NEW i \in DOMAIN lines, NEW c \in Columns, NEW cell \in Cells[c], Misread(i, c, cell)
          PROVE  RegisterInv'
      <3>1. lines[i] \in TypedLine
        BY DEF RegisterInv
      <3>2. [lines[i] EXCEPT ![c] = cell] \in TypedLine
        BY <3>1, MisreadIsTyped
      <3>3. lines' = [lines EXCEPT ![i] = [lines[i] EXCEPT ![c] = cell]]
        BY <2>2 DEF Misread
      <3>4. lines' \in Seq(TypedLine) /\ Len(lines') = Len(lines)
        BY <3>2, <3>3 DEF RegisterInv
      <3>5. slips' \in 0 .. MaxSlips
        BY <2>2, VerdictAssumption DEF Misread, RegisterInv
      <3> QED
        BY <2>2, <3>4, <3>5 DEF Misread, RegisterInv
    <2>3. CASE Stage
      BY <2>3 DEF Stage, RegisterInv
    <2>4. CASE UNCHANGED registerVars
      BY <2>4 DEF registerVars, RegisterInv
    <2> QED
      BY <2>1, <2>2, <2>3, <2>4 DEF RegisterNext
  <1> QED
    BY <1>1, <1>2, PTL DEF RegisterSpec

\* The rows of a register, staged or not, are what staging makes of some lines of it.
LEMMA RowsOfLines ==
  ASSUME RegisterInv
  PROVE  \E ls, n : /\ n \in Nat /\ DOMAIN ls = 1 .. n /\ \A i \in 1 .. n : IsLine(ls[i])
                    /\ verdicts = StageFile(ls, database)
                    /\ n # 0 => ls = lines
  <1>1. CASE verdicts = <<>>
    <2> DEFINE none == [i \in 1 .. 0 |-> Null]
    <2>1. StageFile(none, database) = <<>>
      BY DEF StageFile
    <2>2. DOMAIN none = 1 .. 0 /\ \A i \in 1 .. 0 : IsLine(none[i])
      OBVIOUS
    <2> HIDE DEF none
    <2> QED
      BY <1>1, <2>1, <2>2
  <1>2. CASE verdicts # <<>>
    <2>1. Len(lines) \in Nat /\ DOMAIN lines = 1 .. Len(lines)
          /\ \A i \in 1 .. Len(lines) : lines[i] \in TypedLine
      BY DEF RegisterInv
    <2>2. verdicts = StageFile(lines, database)
      BY <1>2 DEF RegisterInv
    <2> QED
      BY <2>1, <2>2, TypedIsLine
  <1> QED
    BY <1>1, <1>2

\* What a line is kept as is one of the values of its columns, or nothing.
LEMMA ValuesAreCells ==
  ASSUME NEW line, IsLine(line)
  PROVE  /\ StageRow(line).values.year \in {NoYear} \cup Years
         /\ \A c \in Columns \ {"year"} : StageRow(line).values[c] \in
              {Null} \cup (Cells[c] \ {Blank, Garbage, "implausible"})
  <1>1. \A c \in Columns \ {"year"} : StageRow(line).values[c] = Kept(line[c]) /\ line[c] \in Cells[c]
    BY DEF StageRow, IsLine
  <1> QED
    BY <1>1, LineRead DEF Kept

\* Two lines of a register exchanged are the register in another order.
LEMMA SwappedIsReordered ==
  ASSUME RegisterInv, NEW i \in DOMAIN lines, NEW j \in DOMAIN lines
  PROVE  Reordered(lines, Swapped(i, j), Len(lines),
                   [k \in 1 .. Len(lines) |-> IF k = i THEN j ELSE IF k = j THEN i ELSE k])
  <1>1. lines \in Seq(TypedLine)
    BY DEF RegisterInv
  <1>2. DOMAIN lines = 1 .. Len(lines)
    BY <1>1
  <1> QED
    BY <1>1, <1>2 DEF Reordered, Swapped

\* Whatever a register within the bounds says, and whatever the database knows: what would be
\* written of it can have happened and can be written, and its verdict is one of its lines, in
\* whatever order.
THEOREM ARegisterTellsOneStory == RegisterSpec => []OneStory
  <1>1. RegisterInv => OneStory
    <2> SUFFICES ASSUME RegisterInv PROVE OneStory
      OBVIOUS
    <2>1. database \in Registry
      BY DEF RegisterInv
    <2>2. PICK ls, n : /\ n \in Nat /\ DOMAIN ls = 1 .. n /\ \A i \in 1 .. n : IsLine(ls[i])
                       /\ verdicts = StageFile(ls, database)
                       /\ n # 0 => ls = lines
      BY RowsOfLines
    <2>3. RegisterTypeOK
      <3>1. \A i \in DOMAIN lines, c \in Columns : lines[i][c] \in Cells[c]
        BY DEF RegisterInv, TypedLine
      <3>2. ASSUME NEW i \in DOMAIN verdicts
            PROVE  /\ verdicts[i].issues \subseteq IssueCodes
                   /\ verdicts[i].values = StageRow(ls[i]).values /\ IsLine(ls[i])
        <4>1. i \in 1 .. n /\ i \in DOMAIN ls
          BY <2>2 DEF StageFile
        <4>2. PICK row, own, repeats, chronology, codes :
                /\ row = StageFile(ls, database)[i] /\ own = StageRow(ls[i])
                /\ repeats = DetectDuplicateYears(Read(ls), i)
                /\ chronology = DetectChronology(Read(ls), i)
                /\ codes = DetectDatabaseConflicts(Read(ls)[i], database)
          OBVIOUS
        <4>3. /\ row.values = own.values
              /\ row.issues = own.issues \cup repeats \cup chronology \cup codes
          BY <4>1, <4>2, AnyStagedLine DEF Read
        <4>4. /\ own.issues \subseteq IssueCodes /\ codes \subseteq IssueCodes
              /\ repeats \cup chronology \subseteq IssueCodes
          BY <4>2, IssuesAreCodes
        <4> QED
          BY <2>2, <4>1, <4>2, <4>3, <4>4
      <3>3. ASSUME NEW i \in DOMAIN verdicts
            PROVE  /\ verdicts[i].values.year \in {NoYear} \cup Years
                   /\ \A c \in Columns \ {"year"} : verdicts[i].values[c] \in
                        {Null} \cup (Cells[c] \ {Blank, Garbage, "implausible"})
        BY <3>2, ValuesAreCells
      <3> QED
        BY <3>1, <3>2, <3>3 DEF RegisterTypeOK, RegisterInv
    <2>4. CouldHaveHappened
      <3>1. CouldHaveHappened <=>
              (Importable(verdicts) => \A p \in People : OneLife(verdicts, database, p))
        BY Zenon DEF CouldHaveHappened, OneLife
      <3> QED
        BY <2>1, <2>2, <3>1, OneLifeWritten
    <2>5. ImportableIsWritable
      BY <2>1, <2>2, WrittenHasAll DEF ImportableIsWritable
    <2>6. OrderIrrelevant
      <3> SUFFICES ASSUME NEW i \in DOMAIN verdicts, NEW j \in 1 .. i - 1
                   PROVE  LET other == StageFile(Swapped(i, j), database) IN
                          /\ Importable(other) = Importable(verdicts)
                          /\ Importable(verdicts) => Facts(other) = Facts(verdicts)
        BY DEF OrderIrrelevant
      <3>1. ls = lines /\ i \in 1 .. n /\ j \in 1 .. n
        BY <2>2 DEF StageFile
      <3>2. lines \in Seq(TypedLine)
        BY DEF RegisterInv
      <3>3. n = Len(lines)
        BY <2>2, <3>1, <3>2
      <3>4. PICK turn : Reordered(lines, Swapped(i, j), n, turn)
        BY <2>2, <3>1, <3>3, SwappedIsReordered
      <3>5. Reordered(Swapped(i, j), lines, n, turn)
        BY <3>4, TurnedBack
      <3>6. PICK other : other = StageFile(Swapped(i, j), database)
        OBVIOUS
      <3>7. Importable(other) <=> Importable(verdicts)
        BY <2>2, <3>1, <3>4, <3>5, <3>6, ImportableInAnyOrder
      <3>8. Importable(verdicts) => Facts(other) = Facts(verdicts)
        <4>1. ASSUME Importable(verdicts) PROVE Facts(other) \subseteq Facts(verdicts)
          BY <2>2, <3>1, <3>4, <3>6, <4>1, SameFacts
        <4>2. ASSUME Importable(verdicts) PROVE Facts(verdicts) \subseteq Facts(other)
          BY <2>2, <3>1, <3>5, <3>6, <3>7, <4>2, SameFacts
        <4> QED
          BY <4>1, <4>2
      <3>9. Importable(other) = Importable(verdicts)
        <4>1. Importable(other) \in BOOLEAN /\ Importable(verdicts) \in BOOLEAN
          BY DEF Importable
        <4> QED
          BY <3>7, <4>1
      <3> QED
        BY <3>6, <3>8, <3>9
    <2> QED
      BY <2>3, <2>4, <2>5, <2>6 DEF OneStory
  <1> QED
    BY <1>1, RegisterInvHolds, PTL

------------------------------------------------------------------------------
(* Reading a file (ImportFile).                                             *)

\* The reader's turns, by the recursion that defines them.
AreTurns(t, source, last) ==
  t = [n \in 0 .. last |-> IF n = 0 THEN Reading(source) ELSE Turn(source, t[n - 1])]

LEMMA TurnsFollow ==
  ASSUME NEW source, Len(source) \in Nat
  PROVE  /\ Turns(source)[0] = Reading(source)
         /\ \A n \in 1 .. Len(source) : Turns(source)[n] = Turn(source, Turns(source)[n - 1])
  <1> DEFINE P == {last \in Nat : \E t : AreTurns(t, source, last)}
  <1>1. 0 \in P
    <2>1. AreTurns([n \in 0 .. 0 |-> Reading(source)], source, 0)
      BY DEF AreTurns
    <2> QED
      BY <2>1
  <1>2. ASSUME NEW last \in P PROVE last + 1 \in P
    <2>1. PICK t : AreTurns(t, source, last)
      OBVIOUS
    <2>2. last \in Nat /\ last + 1 \in Nat
      OBVIOUS
    <2> DEFINE u == [n \in 0 .. last + 1 |-> IF n = last + 1 THEN Turn(source, t[last]) ELSE t[n]]
    <2>3. \A n \in 0 .. last : t[n] = IF n = 0 THEN Reading(source) ELSE Turn(source, t[n - 1])
      BY <2>1, Zenon DEF AreTurns
    <2>4. \A n \in 0 .. last + 1 :
            u[n] = IF n = 0 THEN Reading(source) ELSE Turn(source, u[n - 1])
      <3> TAKE n \in 0 .. last + 1
      <3>1. CASE n = last + 1
        <4>1. n # 0 /\ n - 1 = last /\ n - 1 \in 0 .. last + 1 /\ n - 1 # last + 1
          BY <2>2, <3>1
        <4>2. u[n] = Turn(source, t[last]) /\ u[n - 1] = t[last]
          BY <3>1, <4>1
        <4> QED
          BY <4>1, <4>2
      <3>2. CASE n = 0
        <4>1. 0 \in 0 .. last /\ 0 # last + 1
          BY <2>2
        <4> QED
          BY <2>3, <3>2, <4>1
      <3>3. CASE n # 0 /\ n # last + 1
        <4>1. n \in 0 .. last /\ n - 1 \in 0 .. last + 1 /\ n - 1 # last + 1
          BY <2>2, <3>3
        <4>2. u[n] = t[n] /\ u[n - 1] = t[n - 1]
          BY <3>3, <4>1
        <4> QED
          BY <2>3, <3>3, <4>1, <4>2
      <3> QED
        BY <3>1, <3>2, <3>3
    <2>5. u = [n \in 0 .. last + 1 |-> u[n]]
      OBVIOUS
    <2> HIDE DEF u
    <2>6. AreTurns(u, source, last + 1)
      BY <2>4, <2>5 DEF AreTurns
    <2> QED
      BY <2>2, <2>6
  <1>3. P = Nat
    <2>1. P \in SUBSET Nat
      OBVIOUS
    <2> HIDE DEF P
    <2> QED
      BY <1>1, <1>2, <2>1, InductionOnNat
  <1>4. PICK t : AreTurns(t, source, Len(source))
    BY <1>3
  <1>5. Turns(source) = CHOOSE u : AreTurns(u, source, Len(source))
    BY DEF Turns, AreTurns
  <1>6. AreTurns(Turns(source), source, Len(source))
    BY <1>4, <1>5
  <1>7. \A n \in 0 .. Len(source) :
          Turns(source)[n] = IF n = 0 THEN Reading(source) ELSE Turn(source, Turns(source)[n - 1])
    BY <1>6, Zenon DEF AreTurns
  <1> QED
    BY <1>7

\* The reader comes to the end of a file in some number of turns, and stays there.
Arrives(source, n, r) ==
  /\ n \in 0 .. Len(source) /\ Turns(source)[n] = r /\ r.index = Len(source) + 1
  /\ \A m \in 0 .. n - 1 : Turns(source)[m].index <= Len(source)

LEMMA ArrivedStays ==
  ASSUME NEW source, Len(source) \in Nat, NEW n, NEW r, Arrives(source, n, r)
  PROVE  ReadAll(source) = r
  <1> DEFINE P == {k \in Nat : n + k <= Len(source) => Turns(source)[n + k] = r}
  <1>1. n \in 0 .. Len(source) /\ Turns(source)[n] = r /\ r.index = Len(source) + 1
    BY DEF Arrives
  <1>2. 0 \in P
    BY <1>1
  <1>3. ASSUME NEW k \in P PROVE k + 1 \in P
    <2>1. SUFFICES ASSUME n + (k + 1) <= Len(source) PROVE Turns(source)[n + (k + 1)] = r
      OBVIOUS
    <2>2. Turns(source)[n + k] = r
      BY <1>1, <2>1
    <2>3. n + (k + 1) \in 1 .. Len(source) /\ (n + (k + 1)) - 1 = n + k
      BY <1>1, <2>1
    <2>4. Turns(source)[n + (k + 1)] = Turn(source, r)
      BY <2>2, <2>3, TurnsFollow
    <2>5. r.index > Len(source)
      BY <1>1
    <2> QED
      BY <2>4, <2>5 DEF Turn
  <1>4. P = Nat
    <2>1. P \in SUBSET Nat
      OBVIOUS
    <2> HIDE DEF P
    <2> QED
      BY <1>2, <1>3, <2>1, InductionOnNat
  <1>5. Len(source) - n \in P /\ n + (Len(source) - n) = Len(source)
    <2>1. n \in Int /\ Len(source) - n \in Nat
      BY <1>1
    <2> HIDE DEF P
    <2> QED
      BY <1>4, <2>1
  <1>6. Turns(source)[Len(source)] = r
    BY <1>5
  <1> QED
    BY <1>6 DEF ReadAll

\* What a reader is made of.
IsReader(r) ==
  DOMAIN r = {"rows", "row", "field", "quoted", "refused", "index"} /\ r.index \in Nat \ {0}

LEMMA ReaderGoesOn ==
  ASSUME NEW source, NEW r, IsReader(r)
  PROVE  IsReader(Turn(source, r)) /\ Turn(source, r).index >= r.index
  BY DEF IsReader, Turn, ReadCharacter, AtQuote, AtLineEnd, Take, Skip, EndField, EndRow

\* Every turn short of the end takes a character.
LEMMA TurnTakes ==
  ASSUME NEW source, Len(source) \in Nat, NEW r, IsReader(r), r.index <= Len(source)
  PROVE  Turn(source, r).index \in Nat /\ Turn(source, r).index > r.index
  BY DEF IsReader, Turn, ReadCharacter, AtQuote, AtLineEnd, Take, Skip, EndField, EndRow

LEMMA TurnsAreReaders ==
  ASSUME NEW source, Len(source) \in Nat
  PROVE  \A n \in 0 .. Len(source) : IsReader(Turns(source)[n])
  <1> DEFINE P == {n \in Nat : n <= Len(source) => IsReader(Turns(source)[n])}
  <1>1. 0 \in P
    <2>1. IsReader(Reading(source))
      BY DEF IsReader, Reading
    <2> QED
      BY <2>1, TurnsFollow
  <1>2. ASSUME NEW n \in P PROVE n + 1 \in P
    <2> SUFFICES ASSUME n + 1 <= Len(source) PROVE IsReader(Turns(source)[n + 1])
      OBVIOUS
    <2>1. n + 1 \in 1 .. Len(source) /\ (n + 1) - 1 = n /\ IsReader(Turns(source)[n])
      OBVIOUS
    <2>2. Turns(source)[n + 1] = Turn(source, Turns(source)[n])
      BY <2>1, TurnsFollow
    <2> QED
      BY <2>1, <2>2, ReaderGoesOn
  <1>3. P = Nat
    <2>1. P \in SUBSET Nat
      OBVIOUS
    <2> HIDE DEF P
    <2> QED
      BY <1>1, <1>2, <2>1, InductionOnNat
  <1> QED
    BY <1>3

\* What may follow a file without telling the reader anything else of what came before: a quote
\* does not follow one that closed a cell, nor a line feed a carriage return that ended a row.
Follows(source, r, addition) ==
  source # <<>> /\ ~ r.quoted =>
    /\ ~ (source[Len(source)] = Quote /\ addition[1] = Quote)
    /\ ~ (source[Len(source)] = Return /\ addition[1] = Newline)

\* A turn short of the end takes no notice of what follows.
LEMMA SameTurn ==
  ASSUME NEW source \in Seq(Characters), NEW addition \in Seq(Characters), addition # <<>>,
         NEW r, IsReader(r), r.index <= Len(source),
         \/ r.index < Len(source)
         \/ Follows(source, Turn(source, r), addition)
  PROVE  Turn(source \o addition, r) = Turn(source, r)
  <1> DEFINE all == source \o addition
  <1>1. /\ Len(source) \in Nat /\ Len(addition) \in Nat \ {0} /\ Len(all) = Len(source) + Len(addition)
        /\ \A i \in 1 .. Len(source) : all[i] = source[i]
        /\ all[Len(source) + 1] = addition[1]
    BY EmptySeq, ConcatProperties, LenProperties
  <1>2. r.index \in 1 .. Len(source) /\ all[r.index] = source[r.index]
    BY <1>1 DEF IsReader
  <1> HIDE DEF all
  <1>3. CASE r.index < Len(source)
    <2>1. r.index + 1 \in 1 .. Len(source) /\ r.index < Len(all)
      BY <1>1, <1>2, <1>3
    <2>2. \A c : IsNext(all, r, c) <=> IsNext(source, r, c)
      BY <1>1, <1>3, <2>1 DEF IsNext
    <2>3. ReadCharacter(all, r) = ReadCharacter(source, r)
      BY <1>2, <2>2 DEF ReadCharacter, AtQuote, AtLineEnd
    <2> QED
      BY <1>1, <1>2, <2>3 DEF Turn, all
  <1>4. CASE r.index = Len(source) /\ Follows(source, Turn(source, r), addition)
    <2>1. /\ \A c : ~ IsNext(source, r, c)
          /\ \A c : IsNext(all, r, c) <=> addition[1] = c
      BY <1>1, <1>2, <1>4 DEF IsNext
    <2>2. Turn(source, r) = ReadCharacter(source, r) /\ Turn(all, r) = ReadCharacter(all, r)
      BY <1>1, <1>2, <1>4 DEF Turn
    <2>3. source # <<>>
      BY <1>1, <1>2
    <2>4. CASE r.quoted /\ source[r.index] = Quote
      <3>1. Turn(source, r) = Skip([r EXCEPT !.quoted = FALSE], 1)
        BY <2>1, <2>2, <2>4 DEF ReadCharacter, AtQuote
      <3>2. ~ Turn(source, r).quoted
        BY <3>1 DEF Skip, IsReader
      <3>3. addition[1] # Quote
        BY <1>4, <2>3, <2>4, <3>2 DEF Follows
      <3> QED
        BY <1>2, <2>1, <2>2, <2>4, <3>3 DEF ReadCharacter, AtQuote, all
    <2>5. CASE r.quoted /\ source[r.index] # Quote
      BY <1>2, <2>2, <2>5 DEF ReadCharacter, all
    <2>6. CASE ~ r.quoted /\ source[r.index] \notin {Newline, Return}
      BY <1>2, <2>2, <2>6 DEF ReadCharacter, all
    <2>7. CASE ~ r.quoted /\ source[r.index] \in {Newline, Return}
      <3>1. Quote \notin {Newline, Return} /\ Comma \notin {Newline, Return}
        BY DEF Quote, Comma, Newline, Return
      <3>2. Turn(source, r) = AtLineEnd(source, r) /\ Turn(all, r) = AtLineEnd(all, r)
        BY <1>2, <2>2, <2>7, <3>1 DEF ReadCharacter
      <3>3. ~ Turn(source, r).quoted
        BY <2>7, <3>2 DEF AtLineEnd, EndRow, EndField, Skip, IsReader
      <3>4. ~ (source[r.index] = Return /\ addition[1] = Newline)
        BY <1>4, <2>3, <3>3 DEF Follows
      <3> QED
        BY <1>2, <2>1, <3>2, <3>4 DEF AtLineEnd, all
    <2> QED
      BY <2>4, <2>5, <2>6, <2>7
  <1> QED
    BY <1>2, <1>3, <1>4 DEF IsReader

\* A file that is written on is read as before up to there, and then on from it.
LEMMA OneTurnMore ==
  ASSUME NEW source \in Seq(Characters), NEW addition \in Seq(Characters), addition # <<>>,
         source = <<>> => addition[1] # BOM,
         NEW n, NEW r, Arrives(source, n, r), Follows(source, r, addition),
         Turn(source \o addition, r).index = Len(source \o addition) + 1
  PROVE  Arrives(source \o addition, n + 1, Turn(source \o addition, r))
  <1> DEFINE all == source \o addition
  <1>1. /\ Len(source) \in Nat /\ Len(addition) \in Nat \ {0} /\ Len(all) = Len(source) + Len(addition)
        /\ \A i \in 1 .. Len(source) : all[i] = source[i]
        /\ all[Len(source) + 1] = addition[1]
    BY EmptySeq, ConcatProperties, LenProperties
  <1>2. all # <<>> /\ Len(all) \in Nat
    BY <1>1
  <1>3. /\ n \in 0 .. Len(source) /\ Turns(source)[n] = r /\ r.index = Len(source) + 1
        /\ \A m \in 0 .. n - 1 : Turns(source)[m].index <= Len(source)
    BY DEF Arrives
  <1> HIDE DEF all
  <1>4. Reading(all) = Reading(source)
    <2>1. CASE source = <<>>
      <3>1. Len(source) = 0
        BY <2>1, EmptySeq
      <3>2. all[1] # BOM
        BY <1>1, <2>1, <3>1
      <3> QED
        BY <2>1, <3>2 DEF Reading
    <2>2. CASE source # <<>>
      <3>1. 1 \in 1 .. Len(source)
        BY <1>1, <2>2, EmptySeq
      <3> QED
        BY <1>1, <1>2, <2>2, <3>1 DEF Reading
    <2> QED
      BY <2>1, <2>2
  <1> DEFINE P == {k \in Nat : k <= n => Turns(all)[k] = Turns(source)[k]}
  <1>5. 0 \in P
    BY <1>1, <1>2, <1>4, TurnsFollow
  <1>6. ASSUME NEW k \in P PROVE k + 1 \in P
    <2> SUFFICES ASSUME k + 1 <= n PROVE Turns(all)[k + 1] = Turns(source)[k + 1]
      OBVIOUS
    <2>1. /\ k \in Nat /\ k \in 0 .. n - 1 /\ k \in 0 .. Len(source) /\ k + 1 \in 1 .. Len(source)
          /\ k + 1 \in 1 .. Len(all) /\ (k + 1) - 1 = k /\ Turns(all)[k] = Turns(source)[k]
      BY <1>1, <1>3
    <2> HIDE DEF P
    <2>2. PICK s : s = Turns(source)[k]
      OBVIOUS
    <2>3. IsReader(s) /\ s.index <= Len(source)
      BY <1>1, <1>3, <2>1, <2>2, TurnsAreReaders
    <2>4. Turns(source)[k + 1] = Turn(source, s) /\ Turns(all)[k + 1] = Turn(all, s)
      <3>1. \A j \in 1 .. Len(source) : Turns(source)[j] = Turn(source, Turns(source)[j - 1])
        BY <1>1, TurnsFollow
      <3>2. \A j \in 1 .. Len(all) : Turns(all)[j] = Turn(all, Turns(all)[j - 1])
        BY <1>2, TurnsFollow
      <3>3. Turns(source)[k + 1] = Turn(source, Turns(source)[k])
        BY <2>1, <3>1
      <3>4. Turns(all)[k + 1] = Turn(all, Turns(all)[k])
        BY <2>1, <3>2
      <3> QED
        BY <2>1, <2>2, <3>3, <3>4
    <2>5. CASE k + 1 = n
      <3>1. Turn(source, s) = r
        BY <1>3, <2>4, <2>5
      <3> QED
        BY <2>3, <2>4, <3>1, SameTurn DEF all
    <2>6. CASE k + 1 # n
      <3>1. k + 1 \in 0 .. n - 1
        BY <1>3, <2>1, <2>6
      <3>2. Turn(source, s).index <= Len(source)
        BY <1>3, <2>4, <3>1
      <3>3. s.index < Len(source)
        BY <1>1, <2>3, <3>2, TurnTakes DEF IsReader
      <3> QED
        BY <2>3, <2>4, <3>3, SameTurn DEF all
    <2> QED
      BY <2>5, <2>6
  <1>7. P = Nat
    <2>1. P \in SUBSET Nat
      OBVIOUS
    <2> HIDE DEF P
    <2> QED
      BY <1>5, <1>6, <2>1, InductionOnNat
  <1>8. \A k \in 0 .. n : Turns(all)[k] = Turns(source)[k]
    BY <1>3, <1>7
  <1>9. n + 1 \in 1 .. Len(all) /\ (n + 1) - 1 = n
    BY <1>1, <1>3
  <1>10. Turns(all)[n + 1] = Turn(all, r)
    BY <1>2, <1>3, <1>8, <1>9, TurnsFollow
  <1>11. \A m \in 0 .. (n + 1) - 1 : Turns(all)[m].index <= Len(all)
    <2> TAKE m \in 0 .. (n + 1) - 1
    <2>1. CASE m = n
      BY <1>1, <1>3, <1>8, <2>1
    <2>2. CASE m # n
      <3>1. m \in 0 .. n - 1 /\ m \in 0 .. n /\ m \in 0 .. Len(source)
        BY <1>3, <2>2
      <3>2. Turns(all)[m].index <= Len(source) /\ Turns(all)[m].index \in Nat
        BY <1>1, <1>3, <1>8, <3>1, TurnsAreReaders DEF IsReader
      <3> QED
        BY <1>1, <3>2
    <2> QED
      BY <2>1, <2>2
  <1> QED
    BY <1>9, <1>10, <1>11 DEF Arrives, all

------------------------------------------------------------------------------
(* The writer, and what the reader has made of what is written.              *)

Reader(rows, row, field, quoted, refused, index) ==
  [rows |-> rows, row |-> row, field |-> field, quoted |-> quoted, refused |-> refused, index |-> index]

\* Beyond the limits, by a finished row or by a cell of the one at hand.
Exceeds(rows, row) == ~ (Fits(rows) /\ RowFits(row))

\* The reader at the end of what is written: it knows what the writer does.
AtHand ==
  Reader(finished, rowAtHand, cellAtHand, writing = "in quotes", Exceeds(finished, rowAtHand), Len(text) + 1)

\* How a cell at hand was begun, and what it can have left at the end of the file.
WriterKnows ==
  /\ writing = "not yet" => cellAtHand = <<>>
  /\ text # <<>> /\ writing # "in quotes" =>
       /\ text[Len(text)] = Return => ending = <<Return>>
       /\ text[Len(text)] = Quote => writing = "after quotes"

FileInv ==
  /\ FileTypeOK
  /\ WriterKnows
  /\ \E n : Arrives(text, n, AtHand)
  /\ parsed = ParseCsv(text)

\* A row fits with one more cell if it fits without, and the cell.
LEMMA OneCellMore ==
  ASSUME NEW row \in Seq(Seq(Characters)), NEW cell \in Seq(Characters)
  PROVE  RowFits(Append(row, cell)) <=>
           RowFits(row) /\ ~ Len(cell) > MaxCell /\ ~ Len(row) + 1 > MaxColumns
  <1> DEFINE more == Append(row, cell)
  <1>1. /\ Len(row) \in Nat /\ Len(more) = Len(row) + 1 /\ DOMAIN row = 1 .. Len(row)
        /\ DOMAIN more = 1 .. Len(row) + 1 /\ more[Len(row) + 1] = cell
        /\ \A i \in 1 .. Len(row) : more[i] = row[i]
    BY LenProperties, AppendProperties
  <1>2. Len(cell) \in Nat /\ MaxCell \in Nat /\ MaxColumns \in Nat
    BY LimitAssumption, LenProperties
  <1> HIDE DEF more
  <1>3. (\A j \in DOMAIN more : Len(more[j]) <= MaxCell) <=>
          (\A j \in DOMAIN row : Len(row[j]) <= MaxCell) /\ Len(cell) <= MaxCell
    <2>1. ASSUME \A j \in DOMAIN more : Len(more[j]) <= MaxCell
          PROVE  (\A j \in DOMAIN row : Len(row[j]) <= MaxCell) /\ Len(cell) <= MaxCell
      <3>1. Len(row) + 1 \in DOMAIN more /\ \A j \in DOMAIN row : j \in DOMAIN more
        BY <1>1
      <3> QED
        BY <1>1, <2>1, <3>1
    <2>2. ASSUME \A j \in DOMAIN row : Len(row[j]) <= MaxCell, Len(cell) <= MaxCell
          PROVE  \A j \in DOMAIN more : Len(more[j]) <= MaxCell
      <3> TAKE j \in DOMAIN more
      <3>1. j \in DOMAIN row \/ j = Len(row) + 1
        BY <1>1
      <3> QED
        BY <1>1, <2>2, <3>1
    <2> QED
      BY <2>1, <2>2
  <1>4. RowFits(more) <=> RowFits(row) /\ ~ Len(cell) > MaxCell /\ ~ Len(row) + 1 > MaxColumns
    BY <1>1, <1>2, <1>3 DEF RowFits
  <1> QED
    BY <1>4 DEF more

\* And rows with one more row.
LEMMA OneRowMore ==
  ASSUME NEW rows \in Seq(Seq(Seq(Characters))), NEW row \in Seq(Seq(Characters))
  PROVE  Fits(Append(rows, row)) <=> Fits(rows) /\ RowFits(row) /\ ~ Len(rows) + 1 > MaxRows
  <1> DEFINE more == Append(rows, row)
  <1>1. /\ Len(rows) \in Nat /\ Len(more) = Len(rows) + 1 /\ DOMAIN rows = 1 .. Len(rows)
        /\ DOMAIN more = 1 .. Len(rows) + 1 /\ more[Len(rows) + 1] = row
        /\ \A i \in 1 .. Len(rows) : more[i] = rows[i]
    BY LenProperties, AppendProperties
  <1>2. MaxRows \in Nat
    BY LimitAssumption
  <1> HIDE DEF more
  <1>3. (\A j \in DOMAIN more : RowFits(more[j])) <=>
          (\A j \in DOMAIN rows : RowFits(rows[j])) /\ RowFits(row)
    <2>1. ASSUME \A j \in DOMAIN more : RowFits(more[j])
          PROVE  (\A j \in DOMAIN rows : RowFits(rows[j])) /\ RowFits(row)
      <3>1. Len(rows) + 1 \in DOMAIN more /\ \A j \in DOMAIN rows : j \in DOMAIN more
        BY <1>1
      <3> QED
        BY <1>1, <2>1, <3>1
    <2>2. ASSUME \A j \in DOMAIN rows : RowFits(rows[j]), RowFits(row)
          PROVE  \A j \in DOMAIN more : RowFits(more[j])
      <3> TAKE j \in DOMAIN more
      <3>1. j \in DOMAIN rows \/ j = Len(rows) + 1
        BY <1>1
      <3> QED
        BY <1>1, <2>2, <3>1
    <2> QED
      BY <2>1, <2>2
  <1>4. Fits(more) <=> Fits(rows) /\ RowFits(row) /\ ~ Len(rows) + 1 > MaxRows
    BY <1>1, <1>2, <1>3 DEF Fits
  <1> QED
    BY <1>4 DEF more

LEMMA NothingFits == RowFits(<<>>) /\ Fits(<<>>)
  BY LimitAssumption DEF RowFits, Fits

\* What the assignments of the end of a field, and of a row, make of a reader.
SetField(r, a, b, c) == [r EXCEPT !.row = a, !.field = b, !.refused = c]

SetRow(r, a, b, c) == [r EXCEPT !.rows = a, !.row = b, !.refused = c]

LEMMA FieldIsSet ==
  ASSUME NEW rows, NEW row, NEW field, NEW quoted, NEW refused, NEW index, NEW a, NEW b, NEW c
  PROVE  SetField(Reader(rows, row, field, quoted, refused, index), a, b, c) =
           Reader(rows, a, b, quoted, c, index)
  <1> DEFINE r == Reader(rows, row, field, quoted, refused, index)
  <1>1. [r EXCEPT !.row = a] = Reader(rows, a, field, quoted, refused, index)
    BY DEF Reader
  <1>2. [Reader(rows, a, field, quoted, refused, index) EXCEPT !.field = b] =
          Reader(rows, a, b, quoted, refused, index)
    BY DEF Reader
  <1>3. [Reader(rows, a, b, quoted, refused, index) EXCEPT !.refused = c] =
          Reader(rows, a, b, quoted, c, index)
    BY DEF Reader
  <1> HIDE DEF r
  <1>4. [[[r EXCEPT !.row = a] EXCEPT !.field = b] EXCEPT !.refused = c] = SetField(r, a, b, c)
    BY DEF SetField
  <1> QED
    BY <1>1, <1>2, <1>3, <1>4, Zenon DEF r

LEMMA RowIsSet ==
  ASSUME NEW rows, NEW row, NEW field, NEW quoted, NEW refused, NEW index, NEW a, NEW b, NEW c
  PROVE  SetRow(Reader(rows, row, field, quoted, refused, index), a, b, c) =
           Reader(a, b, field, quoted, c, index)
  <1> DEFINE r == Reader(rows, row, field, quoted, refused, index)
  <1>1. [r EXCEPT !.rows = a] = Reader(a, row, field, quoted, refused, index)
    BY DEF Reader
  <1>2. [Reader(a, row, field, quoted, refused, index) EXCEPT !.row = b] =
          Reader(a, b, field, quoted, refused, index)
    BY DEF Reader
  <1>3. [Reader(a, b, field, quoted, refused, index) EXCEPT !.refused = c] =
          Reader(a, b, field, quoted, c, index)
    BY DEF Reader
  <1> HIDE DEF r
  <1>4. [[[r EXCEPT !.rows = a] EXCEPT !.row = b] EXCEPT !.refused = c] = SetRow(r, a, b, c)
    BY DEF SetRow
  <1> QED
    BY <1>1, <1>2, <1>3, <1>4, Zenon DEF r

LEMMA FieldEnds ==
  ASSUME NEW rows \in Seq(Seq(Seq(Characters))), NEW row \in Seq(Seq(Characters)),
         NEW field \in Seq(Characters), NEW quoted, NEW index
  PROVE  EndField(Reader(rows, row, field, quoted, Exceeds(rows, row), index)) =
           Reader(rows, Append(row, field), <<>>, quoted, Exceeds(rows, Append(row, field)), index)
  <1> DEFINE p == Exceeds(rows, row)
             q == Exceeds(rows, Append(row, field))
             r == Reader(rows, row, field, quoted, p, index)
  <1>1. (p \/ Len(field) > MaxCell \/ Len(row) + 1 > MaxColumns) <=> q
    <2>1. RowFits(Append(row, field)) <=>
            RowFits(row) /\ ~ Len(field) > MaxCell /\ ~ Len(row) + 1 > MaxColumns
      BY OneCellMore
    <2> QED
      BY <2>1, Zenon DEF Exceeds
  <1>2. (p \/ Len(field) > MaxCell \/ Len(row) + 1 > MaxColumns) = q
    <2>1. q \in BOOLEAN
      BY DEF Exceeds
    <2> QED
      BY <1>1, <2>1
  <1> HIDE DEF p, q
  <1>3. r.refused = p /\ r.field = field /\ r.row = row
    BY DEF Reader
  <1>4. SetField(r, Append(row, field), <<>>, q) = Reader(rows, Append(row, field), <<>>, quoted, q, index)
    BY FieldIsSet
  <1> HIDE DEF r
  <1>5. EndField(r) = SetField(r, Append(r.row, r.field), <<>>,
                               r.refused \/ Len(r.field) > MaxCell \/ Len(r.row) + 1 > MaxColumns)
    BY Zenon DEF EndField, SetField
  <1>6. EndField(r) = Reader(rows, Append(row, field), <<>>, quoted, q, index)
    BY <1>2, <1>3, <1>4, <1>5, Zenon
  <1> QED
    BY <1>6, Zenon DEF r, p, q

LEMMA RowEnds ==
  ASSUME NEW rows \in Seq(Seq(Seq(Characters))), NEW row \in Seq(Seq(Characters)),
         NEW field \in Seq(Characters), NEW quoted, NEW index
  PROVE  LET all == Append(rows, Append(row, field)) IN
         EndRow(Reader(rows, row, field, quoted, Exceeds(rows, row), index)) =
           Reader(all, <<>>, <<>>, quoted, Exceeds(all, <<>>), index)
  <1> DEFINE more == Append(row, field)
             p == Exceeds(rows, more)
             q == Exceeds(Append(rows, more), <<>>)
             r == Reader(rows, row, field, quoted, Exceeds(rows, row), index)
             ended == Reader(rows, more, <<>>, quoted, p, index)
  <1>1. EndField(r) = ended
    BY FieldEnds
  <1>2. more \in Seq(Seq(Characters))
    BY AppendProperties
  <1> HIDE DEF more, r
  <1>3. (p \/ Len(rows) + 1 > MaxRows) <=> q
    <2>1. Fits(Append(rows, more)) <=> Fits(rows) /\ RowFits(more) /\ ~ Len(rows) + 1 > MaxRows
      BY <1>2, OneRowMore
    <2> QED
      BY <2>1, NothingFits, Zenon DEF Exceeds
  <1>4. (p \/ Len(rows) + 1 > MaxRows) = q
    <2>1. q \in BOOLEAN
      BY DEF Exceeds
    <2> QED
      BY <1>3, <2>1
  <1> HIDE DEF p, q
  <1>5. ended.refused = p /\ ended.rows = rows /\ ended.row = more
    BY DEF Reader
  <1>6. SetRow(ended, Append(rows, more), <<>>, q) = Reader(Append(rows, more), <<>>, <<>>, quoted, q, index)
    BY RowIsSet
  <1> HIDE DEF ended
  <1>7. EndRow(r) = SetRow(ended, Append(ended.rows, ended.row), <<>>,
                           ended.refused \/ Len(ended.rows) + 1 > MaxRows)
    BY <1>1, Zenon DEF EndRow, SetRow
  <1>8. EndRow(r) = Reader(Append(rows, more), <<>>, <<>>, quoted, q, index)
    BY <1>4, <1>5, <1>6, <1>7, Zenon
  <1> QED
    BY <1>8, Zenon DEF r, q, more

\* What a reader becomes by a character it goes over, keeps, or is led by into quotes or out.
Keep(r, c, n) == Skip([r EXCEPT !.field = Append(@, c)], n)

TurnQuotes(r, q) == Skip([r EXCEPT !.quoted = q], 1)

LEMMA ReaderMoves ==
  ASSUME NEW rows, NEW row, NEW field, NEW quoted, NEW refused, NEW index, NEW n
  PROVE  Skip(Reader(rows, row, field, quoted, refused, index), n) =
           Reader(rows, row, field, quoted, refused, index + n)
  BY DEF Skip, Reader

LEMMA ReaderKeeps ==
  ASSUME NEW rows, NEW row, NEW field, NEW quoted, NEW refused, NEW index, NEW n, NEW c
  PROVE  Keep(Reader(rows, row, field, quoted, refused, index), c, n) =
           Reader(rows, row, Append(field, c), quoted, refused, index + n)
  <1> DEFINE r == Reader(rows, row, field, quoted, refused, index)
  <1>1. [r EXCEPT !.field = Append(@, c)] = Reader(rows, row, Append(field, c), quoted, refused, index)
    BY DEF Reader
  <1>2. Skip(Reader(rows, row, Append(field, c), quoted, refused, index), n) =
          Reader(rows, row, Append(field, c), quoted, refused, index + n)
    BY ReaderMoves
  <1> HIDE DEF r
  <1>3. Keep(r, c, n) = Reader(rows, row, Append(field, c), quoted, refused, index + n)
    BY <1>1, <1>2, Zenon DEF Keep
  <1> QED
    BY <1>3, Zenon DEF r

LEMMA ReaderTurns ==
  ASSUME NEW rows, NEW row, NEW field, NEW quoted, NEW refused, NEW index, NEW q
  PROVE  TurnQuotes(Reader(rows, row, field, quoted, refused, index), q) =
           Reader(rows, row, field, q, refused, index + 1)
  <1>1. [Reader(rows, row, field, quoted, refused, index) EXCEPT !.quoted = q] =
          Reader(rows, row, field, q, refused, index)
    BY DEF Reader
  <1> QED
    BY <1>1, ReaderMoves DEF TurnQuotes

\* The turn at the end of what was there reads what was added.
LEMMA NextCharacter ==
  ASSUME NEW source \in Seq(Characters), NEW addition \in Seq(Characters),
         Len(addition) \in {1, 2}, NEW r, r.index = Len(source) + 1
  PROVE  /\ Turn(source \o addition, r) = ReadCharacter(source \o addition, r)
         /\ (source \o addition)[r.index] = addition[1]
         /\ \A c : IsNext(source \o addition, r, c) <=> Len(addition) = 2 /\ addition[2] = c
         /\ Len(source \o addition) = Len(source) + Len(addition)
  <1> DEFINE all == source \o addition
  <1>1. /\ Len(source) \in Nat /\ Len(all) = Len(source) + Len(addition)
        /\ \A i \in 1 .. Len(addition) : all[Len(source) + i] = addition[i]
    <2>1. \A i \in 1 .. Len(source) + Len(addition) :
            all[i] = IF i <= Len(source) THEN source[i] ELSE addition[i - Len(source)]
      BY ConcatProperties, LenProperties
    <2> QED
      BY <2>1, ConcatProperties, LenProperties
  <1>2. all[r.index] = addition[1]
    BY <1>1
  <1>3. \A c : IsNext(all, r, c) <=> Len(addition) = 2 /\ addition[2] = c
    <2>1. CASE Len(addition) = 1
      BY <1>1, <2>1 DEF IsNext
    <2>2. CASE Len(addition) = 2
      <3>1. all[r.index + 1] = addition[2] /\ r.index < Len(all)
        BY <1>1, <2>2
      <3> QED
        BY <2>2, <3>1 DEF IsNext
    <2> QED
      BY <2>1, <2>2
  <1>4. Len(all) = Len(source) + Len(addition)
    BY <1>1
  <1>5. Turn(all, r) = ReadCharacter(all, r)
    <2> HIDE DEF all
    <2>1. r.index <= Len(all)
      BY <1>1
    <2>2. r.index \in Nat /\ Len(all) \in Nat
      BY <1>1
    <2>3. ~ r.index > Len(all)
      BY <2>1, <2>2
    <2> QED
      BY <2>3, Zenon DEF Turn
  <1> QED
    BY <1>2, <1>3, <1>4, <1>5, Zenon

LEMMA MarksDiffer ==
  /\ Quote # Comma /\ Quote \notin {Newline, Return} /\ Comma \notin {Newline, Return}
  /\ Newline # Return /\ BOM \notin {Quote, Comma, Newline, Return, Space}
  /\ Space \notin {Quote, Comma, Newline, Return}
  BY DEF Quote, Comma, Newline, Return, Space, BOM

\* What the reader makes of each kind of addition.
LEMMA ReadPlain ==
  ASSUME NEW source, NEW r, NEW c, source[r.index] = c, r.quoted = FALSE,
         c \notin {Quote, Comma, Newline, Return}
  PROVE  ReadCharacter(source, r) = Keep(r, c, 1)
  BY DEF ReadCharacter, Take, Keep

LEMMA ReadOpening ==
  ASSUME NEW source, NEW r, source[r.index] = Quote, r.quoted = FALSE, r.field = <<>>
  PROVE  ReadCharacter(source, r) = TurnQuotes(r, TRUE)
  BY MarksDiffer DEF ReadCharacter, TurnQuotes

LEMMA ReadQuoted ==
  ASSUME NEW source, NEW r, NEW c, source[r.index] = c, r.quoted = TRUE, c # Quote
  PROVE  ReadCharacter(source, r) = Keep(r, c, 1)
  BY DEF ReadCharacter, Take, Keep

LEMMA ReadDoubled ==
  ASSUME NEW source, NEW r, source[r.index] = Quote, r.quoted = TRUE, IsNext(source, r, Quote)
  PROVE  ReadCharacter(source, r) = Keep(r, Quote, 2)
  BY DEF ReadCharacter, AtQuote, Keep

LEMMA ReadClosing ==
  ASSUME NEW source, NEW r, source[r.index] = Quote, r.quoted = TRUE, ~ IsNext(source, r, Quote)
  PROVE  ReadCharacter(source, r) = TurnQuotes(r, FALSE)
  BY DEF ReadCharacter, AtQuote, TurnQuotes

LEMMA ReadComma ==
  ASSUME NEW source, NEW r, source[r.index] = Comma, r.quoted = FALSE
  PROVE  ReadCharacter(source, r) = Skip(EndField(r), 1)
  BY MarksDiffer DEF ReadCharacter

LEMMA ReadLineEnd ==
  ASSUME NEW source, NEW r, NEW c, source[r.index] = c, c \in {Newline, Return}, r.quoted = FALSE
  PROVE  ReadCharacter(source, r) = AtLineEnd(source, r)
  BY MarksDiffer DEF ReadCharacter

LEMMA AtHandIs ==
  /\ AtHand.quoted = (writing = "in quotes") /\ AtHand.field = cellAtHand
  /\ AtHand.index = Len(text) + 1
  BY DEF AtHand, Reader

\* What is written is read by one more turn.
LEMMA OneTurnRead ==
  ASSUME FileInv, NEW addition \in Seq(Characters), Len(addition) \in {1, 2}, addition[1] # BOM,
         Write(addition), Follows(text, AtHand, addition),
         Turn(text \o addition, AtHand) = AtHand'
  PROVE  /\ text' \in Seq(Characters) /\ Len(text') <= Typed /\ text' # <<>>
         /\ text'[Len(text')] = addition[Len(addition)]
         /\ \E n : Arrives(text, n, AtHand)'
         /\ parsed' = ParseCsv(text')
  <1>0. text \in Seq(Characters)
    BY DEF FileInv, FileTypeOK
  <1>1. text \in Seq(Characters) /\ Len(text) \in Nat /\ Len(addition) \in Nat \ {0}
    BY <1>0, LenProperties
  <1>2. text' = text \o addition /\ parsed' = ParseCsv(text') /\ Len(text) + Len(addition) <= Typed
    BY DEF Write
  <1>3. /\ text' \in Seq(Characters) /\ Len(text') = Len(text) + Len(addition)
        /\ \A i \in 1 .. Len(text) + Len(addition) :
             text'[i] = IF i <= Len(text) THEN text[i] ELSE addition[i - Len(text)]
    BY <1>1, <1>2, ConcatProperties
  <1>4. text'[Len(text')] = addition[Len(addition)]
    BY <1>1, <1>3
  <1>5. addition # <<>> /\ text' # <<>>
    BY <1>1, <1>3, EmptySeq
  <1>6. PICK n : Arrives(text, n, AtHand)
    BY DEF FileInv
  <1>7. AtHand'.index = Len(text') + 1
    BY DEF AtHand, Reader
  <1>8. Arrives(text \o addition, n + 1, Turn(text \o addition, AtHand))
    BY <1>1, <1>2, <1>5, <1>6, <1>7, OneTurnMore
  <1>9. Arrives(text, n + 1, AtHand)'
    BY <1>2, <1>8
  <1> QED
    BY <1>2, <1>3, <1>4, <1>5, <1>9

LEMMA NothingIsSeq == \A S : <<>> \in Seq(S) /\ Len(<<>>) = 0
  OBVIOUS

LEMMA CharacterIsSeq ==
  \A c \in Characters : <<c>> \in Seq(Characters) /\ Len(<<c>>) = 1 /\ <<c>>[1] = c /\ <<c>>[Len(<<c>>)] = c
  OBVIOUS

LEMMA MarksAreCharacters ==
  /\ {Quote, Comma, Newline, Return, Space, BOM} \subseteq Characters /\ Letters \subseteq Characters
  /\ Letters \cap {Quote, Comma, Newline, Return, Space, BOM} = {}
  BY LimitAssumption DEF Characters

LEMMA TurnAtHand ==
  ASSUME FileInv, NEW addition \in Seq(Characters), Len(addition) \in {1, 2}
  PROVE  LET all == text \o addition IN
         /\ Turn(all, AtHand) = ReadCharacter(all, AtHand)
         /\ all[AtHand.index] = addition[1]
         /\ \A c : IsNext(all, AtHand, c) <=> Len(addition) = 2 /\ addition[2] = c
         /\ Len(all) = Len(text) + Len(addition)
  <1>1. text \in Seq(Characters)
    BY DEF FileInv, FileTypeOK
  <1>2. AtHand.index = Len(text) + 1
    BY AtHandIs
  <1> DEFINE all == text \o addition
  <1>3. Turn(all, AtHand) = ReadCharacter(all, AtHand)
    BY <1>1, <1>2, NextCharacter
  <1>4. all[AtHand.index] = addition[1]
    BY <1>1, <1>2, NextCharacter
  <1>5. \A c : IsNext(all, AtHand, c) <=> Len(addition) = 2 /\ addition[2] = c
    BY <1>1, <1>2, NextCharacter
  <1>6. Len(all) = Len(text) + Len(addition)
    BY <1>1, <1>2, NextCharacter
  <1> HIDE DEF all
  <1>7. /\ Turn(all, AtHand) = ReadCharacter(all, AtHand)
        /\ all[AtHand.index] = addition[1]
        /\ \A c : IsNext(all, AtHand, c) <=> Len(addition) = 2 /\ addition[2] = c
        /\ Len(all) = Len(text) + Len(addition)
    BY <1>3, <1>4, <1>5, <1>6
  <1> QED
    BY <1>7 DEF all

LEMMA PlainKeeps ==
  ASSUME FileInv, NEW c \in Letters \cup {Space}, WritePlain(c)
  PROVE  FileInv'
  <1>1. c \in Characters /\ c \notin {Quote, Comma, Newline, Return, BOM}
    BY MarksAreCharacters, MarksDiffer
  <1> DEFINE addition == <<c>>
             all == text \o addition
  <1>2. /\ addition \in Seq(Characters) /\ Len(addition) = 1 /\ addition[1] = c
        /\ addition[Len(addition)] = c
    BY <1>1, CharacterIsSeq
  <1>3. Write(addition) /\ writing # "in quotes" /\ writing' = "plain"
    BY DEF WritePlain
  <1>4. cellAtHand' = Append(cellAtHand, c) /\ UNCHANGED <<ending, finished, rowAtHand, starts, onLine>>
    BY DEF WritePlain
  <1> HIDE DEF addition, all
  <1>5. Follows(text, AtHand, addition)
    BY <1>1, <1>2 DEF Follows
  <1>6. Turn(all, AtHand) = AtHand'
    <2>1. /\ Turn(all, AtHand) = ReadCharacter(all, AtHand) /\ all[AtHand.index] = c
          /\ Len(all) = Len(text) + 1
      BY <1>2, TurnAtHand DEF all
    <2>2. AtHand.quoted = FALSE
      BY <1>3, AtHandIs
    <2>3. ReadCharacter(all, AtHand) = Keep(AtHand, c, 1)
      BY <1>1, <2>1, <2>2, ReadPlain
    <2> DEFINE refused == Exceeds(finished, rowAtHand)
    <2>4. PICK quoted : quoted = (writing = "in quotes")
      OBVIOUS
    <2>5. Keep(AtHand, c, 1) =
            Reader(finished, rowAtHand, Append(cellAtHand, c), quoted, refused, (Len(text) + 1) + 1)
      <3>1. AtHand = Reader(finished, rowAtHand, cellAtHand, quoted, refused, Len(text) + 1)
        BY <2>4, Zenon DEF AtHand
      <3> QED
        BY <3>1, ReaderKeeps
    <2>6. Len(text') = Len(text) + 1
      BY <1>3, <2>1 DEF Write, all
    <2>7. quoted = (writing' = "in quotes") /\ refused' = refused
      BY <1>3, <1>4, <2>4
    <2>8. AtHand' = Reader(finished, rowAtHand, Append(cellAtHand, c), quoted, refused, (Len(text) + 1) + 1)
      BY <1>4, <2>6, <2>7, Zenon DEF AtHand
    <2> QED
      BY <2>1, <2>3, <2>5, <2>8
  <1>7. /\ text' \in Seq(Characters) /\ Len(text') <= Typed /\ text' # <<>>
        /\ text'[Len(text')] = c
        /\ \E n : Arrives(text, n, AtHand)'
        /\ parsed' = ParseCsv(text')
    BY <1>1, <1>2, <1>3, <1>5, <1>6, OneTurnRead DEF all
  <1>8. FileTypeOK'
    BY <1>1, <1>3, <1>4, <1>7, AppendProperties DEF FileInv, FileTypeOK
  <1>9. WriterKnows'
    BY <1>1, <1>3, <1>7 DEF WriterKnows
  <1> QED
    BY <1>7, <1>8, <1>9 DEF FileInv

LEMMA OpeningKeeps ==
  ASSUME FileInv, OpenQuotes
  PROVE  FileInv'
  <1>1. Quote \in Characters /\ Quote # BOM
    BY MarksAreCharacters, MarksDiffer
  <1> DEFINE addition == <<Quote>>
             all == text \o addition
  <1>2. /\ addition \in Seq(Characters) /\ Len(addition) = 1 /\ addition[1] = Quote
        /\ addition[Len(addition)] = Quote
    BY <1>1, CharacterIsSeq
  <1>3. Write(addition) /\ writing = "not yet" /\ writing' = "in quotes" /\ cellAtHand = <<>>
    BY DEF OpenQuotes, FileInv, WriterKnows
  <1>4. UNCHANGED <<ending, finished, rowAtHand, cellAtHand, starts, onLine>>
    BY DEF OpenQuotes
  <1> HIDE DEF addition, all
  <1>5. Follows(text, AtHand, addition)
    <2>1. text # <<>> => text[Len(text)] # Quote
      BY <1>3 DEF FileInv, WriterKnows
    <2> QED
      BY <1>2, <2>1, MarksDiffer DEF Follows
  <1>6. Turn(all, AtHand) = AtHand'
    <2>1. /\ Turn(all, AtHand) = ReadCharacter(all, AtHand) /\ all[AtHand.index] = Quote
          /\ Len(all) = Len(text) + 1
      BY <1>2, TurnAtHand DEF all
    <2>2. AtHand.quoted = FALSE /\ AtHand.field = <<>>
      BY <1>3, AtHandIs
    <2>3. ReadCharacter(all, AtHand) = TurnQuotes(AtHand, TRUE)
      BY <2>1, <2>2, ReadOpening
    <2> DEFINE refused == Exceeds(finished, rowAtHand)
    <2>4. PICK quoted : quoted = (writing = "in quotes")
      OBVIOUS
    <2>5. TurnQuotes(AtHand, TRUE) =
            Reader(finished, rowAtHand, cellAtHand, TRUE, refused, (Len(text) + 1) + 1)
      <3>1. AtHand = Reader(finished, rowAtHand, cellAtHand, quoted, refused, Len(text) + 1)
        BY <2>4, Zenon DEF AtHand
      <3>2. \A q : TurnQuotes(AtHand, q) =
                     Reader(finished, rowAtHand, cellAtHand, q, refused, (Len(text) + 1) + 1)
        BY <3>1, ReaderTurns
      <3> QED
        BY <3>2
    <2>6. Len(text') = Len(text) + 1
      BY <1>3, <2>1 DEF Write, all
    <2>7. TRUE = (writing' = "in quotes") /\ refused' = refused
      BY <1>3, <1>4, <2>4
    <2>8. AtHand' = Reader(finished, rowAtHand, cellAtHand, TRUE, refused, (Len(text) + 1) + 1)
      BY <1>4, <2>6, <2>7, Zenon DEF AtHand
    <2> QED
      BY <2>1, <2>3, <2>5, <2>8
  <1>7. /\ text' \in Seq(Characters) /\ Len(text') <= Typed /\ text' # <<>>
        /\ \E n : Arrives(text, n, AtHand)'
        /\ parsed' = ParseCsv(text')
    BY <1>1, <1>2, <1>3, <1>5, <1>6, OneTurnRead DEF all
  <1>8. FileTypeOK'
    BY <1>3, <1>4, <1>7 DEF FileInv, FileTypeOK
  <1>9. WriterKnows'
    BY <1>3, <1>7 DEF WriterKnows
  <1> QED
    BY <1>7, <1>8, <1>9 DEF FileInv

LEMMA QuotedKeeps ==
  ASSUME FileInv, NEW c \in Letters \cup {Space, Quote, Comma, Newline, Return}, WriteQuoted(c)
  PROVE  FileInv'
  <1>1. c \in Characters /\ c # BOM
    BY MarksAreCharacters, MarksDiffer
  <1> DEFINE addition == IF c = Quote THEN <<c, c>> ELSE <<c>>
             all == text \o addition
  <1>2. /\ addition \in Seq(Characters) /\ Len(addition) \in {1, 2} /\ addition[1] = c
        /\ c = Quote => Len(addition) = 2 /\ addition[2] = Quote
        /\ c # Quote => Len(addition) = 1
    <2>1. <<c, c>> \in Seq(Characters) /\ Len(<<c, c>>) = 2 /\ <<c, c>>[1] = c /\ <<c, c>>[2] = c
      BY <1>1
    <2>2. <<c>> \in Seq(Characters) /\ Len(<<c>>) = 1 /\ <<c>>[1] = c
      BY <1>1
    <2> QED
      BY <2>1, <2>2
  <1>3. Write(addition) /\ writing = "in quotes" /\ writing' = "in quotes"
    BY DEF WriteQuoted
  <1>4. /\ cellAtHand' = Append(cellAtHand, c)
        /\ onLine' \in {onLine, onLine + 1}
        /\ UNCHANGED <<ending, finished, rowAtHand, starts>>
    BY DEF WriteQuoted
  <1> HIDE DEF addition, all
  <1>5. Follows(text, AtHand, addition)
    BY <1>3, AtHandIs DEF Follows
  <1>6. Turn(all, AtHand) = AtHand'
    <2>1. /\ Turn(all, AtHand) = ReadCharacter(all, AtHand) /\ all[AtHand.index] = c
          /\ Len(all) = Len(text) + Len(addition)
          /\ c = Quote => IsNext(all, AtHand, Quote)
      BY <1>2, TurnAtHand DEF all
    <2>2. AtHand.quoted = TRUE
      BY <1>3, AtHandIs
    <2>3. ReadCharacter(all, AtHand) = Keep(AtHand, c, Len(addition))
      BY <1>2, <2>1, <2>2, ReadQuoted, ReadDoubled
    <2> DEFINE refused == Exceeds(finished, rowAtHand)
    <2>4. PICK quoted : quoted = (writing = "in quotes")
      OBVIOUS
    <2>5. Keep(AtHand, c, Len(addition)) =
            Reader(finished, rowAtHand, Append(cellAtHand, c), quoted, refused, (Len(text) + 1) + Len(addition))
      <3>1. AtHand = Reader(finished, rowAtHand, cellAtHand, quoted, refused, Len(text) + 1)
        BY <2>4, Zenon DEF AtHand
      <3> QED
        BY <3>1, ReaderKeeps
    <2>6. Len(text') + 1 = (Len(text) + 1) + Len(addition)
      <3>1. Len(text') = Len(text) + Len(addition) /\ Len(text) \in Nat
        BY <1>3, <2>1, LenProperties DEF Write, all, FileInv, FileTypeOK
      <3> QED
        BY <1>2, <3>1
    <2>7. quoted = (writing' = "in quotes") /\ refused' = refused
      BY <1>3, <1>4, <2>4
    <2>8. AtHand' = Reader(finished, rowAtHand, Append(cellAtHand, c), quoted, refused,
                           (Len(text) + 1) + Len(addition))
      BY <1>4, <2>6, <2>7, Zenon DEF AtHand
    <2> QED
      BY <2>1, <2>3, <2>5, <2>8
  <1>7. /\ text' \in Seq(Characters) /\ Len(text') <= Typed /\ text' # <<>>
        /\ \E n : Arrives(text, n, AtHand)'
        /\ parsed' = ParseCsv(text')
    BY <1>1, <1>2, <1>3, <1>5, <1>6, OneTurnRead DEF all
  <1>8. FileTypeOK'
    <2>1. onLine' \in Nat
      <3>1. onLine \in Nat
        BY DEF FileInv, FileTypeOK
      <3> QED
        BY <1>4, <3>1
    <2>2. cellAtHand' \in Seq(Characters)
      BY <1>1, <1>4, AppendProperties DEF FileInv, FileTypeOK
    <2> QED
      BY <1>3, <1>4, <1>7, <2>1, <2>2 DEF FileInv, FileTypeOK
  <1>9. WriterKnows'
    BY <1>3 DEF WriterKnows
  <1> QED
    BY <1>7, <1>8, <1>9 DEF FileInv

LEMMA ClosingKeeps ==
  ASSUME FileInv, CloseQuotes
  PROVE  FileInv'
  <1>1. Quote \in Characters /\ Quote # BOM /\ Quote # Return
    BY MarksAreCharacters, MarksDiffer
  <1> DEFINE addition == <<Quote>>
             all == text \o addition
  <1>2. /\ addition \in Seq(Characters) /\ Len(addition) = 1 /\ addition[1] = Quote
        /\ addition[Len(addition)] = Quote
    BY <1>1, CharacterIsSeq
  <1>3. Write(addition) /\ writing = "in quotes" /\ writing' = "after quotes"
    BY DEF CloseQuotes
  <1>4. UNCHANGED <<ending, finished, rowAtHand, cellAtHand, starts, onLine>>
    BY DEF CloseQuotes
  <1> HIDE DEF addition, all
  <1>5. Follows(text, AtHand, addition)
    BY <1>3, AtHandIs DEF Follows
  <1>6. Turn(all, AtHand) = AtHand'
    <2>1. /\ Turn(all, AtHand) = ReadCharacter(all, AtHand) /\ all[AtHand.index] = Quote
          /\ Len(all) = Len(text) + 1
      BY <1>2, TurnAtHand DEF all
    <2>9. ~ IsNext(all, AtHand, Quote)
      BY <1>2, TurnAtHand DEF all
    <2>2. AtHand.quoted = TRUE
      BY <1>3, AtHandIs
    <2>3. ReadCharacter(all, AtHand) = TurnQuotes(AtHand, FALSE)
      BY <2>1, <2>2, <2>9, ReadClosing
    <2> DEFINE refused == Exceeds(finished, rowAtHand)
    <2>4. PICK quoted : quoted = (writing = "in quotes")
      OBVIOUS
    <2>5. TurnQuotes(AtHand, FALSE) =
            Reader(finished, rowAtHand, cellAtHand, FALSE, refused, (Len(text) + 1) + 1)
      <3>1. AtHand = Reader(finished, rowAtHand, cellAtHand, quoted, refused, Len(text) + 1)
        BY <2>4, Zenon DEF AtHand
      <3>2. \A q : TurnQuotes(AtHand, q) =
                     Reader(finished, rowAtHand, cellAtHand, q, refused, (Len(text) + 1) + 1)
        BY <3>1, ReaderTurns
      <3> QED
        BY <3>2
    <2>6. Len(text') = Len(text) + 1
      BY <1>3, <2>1 DEF Write, all
    <2>7. FALSE = (writing' = "in quotes") /\ refused' = refused
      BY <1>3, <1>4, <2>4
    <2>8. AtHand' = Reader(finished, rowAtHand, cellAtHand, FALSE, refused, (Len(text) + 1) + 1)
      BY <1>4, <2>6, <2>7, Zenon DEF AtHand
    <2> QED
      BY <2>1, <2>3, <2>5, <2>8
  <1>7. /\ text' \in Seq(Characters) /\ Len(text') <= Typed /\ text' # <<>>
        /\ text'[Len(text')] = Quote
        /\ \E n : Arrives(text, n, AtHand)'
        /\ parsed' = ParseCsv(text')
    BY <1>1, <1>2, <1>3, <1>5, <1>6, OneTurnRead DEF all
  <1>8. FileTypeOK'
    BY <1>3, <1>4, <1>7 DEF FileInv, FileTypeOK
  <1>9. WriterKnows'
    BY <1>1, <1>3, <1>7 DEF WriterKnows
  <1> QED
    BY <1>7, <1>8, <1>9 DEF FileInv

LEMMA CommaKeeps ==
  ASSUME FileInv, WriteComma
  PROVE  FileInv'
  <1>1. Comma \in Characters /\ Comma \notin {BOM, Return, Quote}
    BY MarksAreCharacters, MarksDiffer
  <1> DEFINE addition == <<Comma>>
             all == text \o addition
             row == Append(rowAtHand, cellAtHand)
  <1>2. /\ addition \in Seq(Characters) /\ Len(addition) = 1 /\ addition[1] = Comma
        /\ addition[Len(addition)] = Comma
    BY <1>1, CharacterIsSeq
  <1>3. /\ Write(addition) /\ writing # "in quotes" /\ writing' = "not yet" /\ cellAtHand' = <<>>
        /\ rowAtHand' = row
    BY DEF WriteComma
  <1>4. UNCHANGED <<ending, finished, starts, onLine>>
    BY DEF WriteComma
  <1>5. /\ finished \in Seq(Seq(Seq(Characters))) /\ rowAtHand \in Seq(Seq(Characters))
        /\ cellAtHand \in Seq(Characters)
    BY DEF FileInv, FileTypeOK
  <1>6. row \in Seq(Seq(Characters))
    BY <1>5, AppendProperties
  <1> HIDE DEF addition, all, row
  <1>7. Follows(text, AtHand, addition)
    BY <1>1, <1>2, MarksDiffer DEF Follows
  <1>8. Turn(all, AtHand) = AtHand'
    <2>1. /\ Turn(all, AtHand) = ReadCharacter(all, AtHand) /\ all[AtHand.index] = Comma
          /\ Len(all) = Len(text) + 1
      BY <1>2, TurnAtHand DEF all
    <2>2. AtHand.quoted = FALSE
      BY <1>3, AtHandIs
    <2>3. ReadCharacter(all, AtHand) = Skip(EndField(AtHand), 1)
      BY <2>1, <2>2, ReadComma
    <2> DEFINE over == Exceeds(finished, row)
    <2>4. PICK quoted : quoted = (writing = "in quotes")
      OBVIOUS
    <2>5. EndField(AtHand) = Reader(finished, row, <<>>, quoted, over, Len(text) + 1)
      <3>1. AtHand = Reader(finished, rowAtHand, cellAtHand, quoted, Exceeds(finished, rowAtHand), Len(text) + 1)
        BY <2>4, Zenon DEF AtHand
      <3> QED
        BY <1>5, <3>1, FieldEnds DEF row
    <2>6. Skip(EndField(AtHand), 1) = Reader(finished, row, <<>>, quoted, over, (Len(text) + 1) + 1)
      BY <2>5, ReaderMoves
    <2>7. Len(text') = Len(text) + 1
      BY <1>3, <2>1 DEF Write, all
    <2>8. quoted = (writing' = "in quotes")
      BY <1>3, <2>4
    <2>9. AtHand' = Reader(finished, row, <<>>, quoted, over, (Len(text) + 1) + 1)
      BY <1>3, <1>4, <2>4, <2>7, <2>8, Zenon DEF AtHand
    <2> QED
      BY <2>1, <2>3, <2>6, <2>9
  <1>9. /\ text' \in Seq(Characters) /\ Len(text') <= Typed /\ text' # <<>>
        /\ text'[Len(text')] = Comma
        /\ \E n : Arrives(text, n, AtHand)'
        /\ parsed' = ParseCsv(text')
    BY <1>1, <1>2, <1>3, <1>7, <1>8, OneTurnRead DEF all
  <1>10. FileTypeOK'
    <2>1. cellAtHand' \in Seq(Characters)
      BY <1>3, NothingIsSeq
    <2> QED
      BY <1>3, <1>4, <1>6, <1>9, <2>1 DEF FileInv, FileTypeOK
  <1>11. WriterKnows'
    BY <1>1, <1>3, <1>9 DEF WriterKnows
  <1> QED
    BY <1>9, <1>10, <1>11 DEF FileInv

LEMMA LineEndKeeps ==
  ASSUME FileInv, WriteLineEnd
  PROVE  FileInv'
  <1> DEFINE all == text \o ending
             row == Append(rowAtHand, cellAtHand)
             rows == Append(finished, row)
  <1>1. /\ finished \in Seq(Seq(Seq(Characters))) /\ rowAtHand \in Seq(Seq(Characters))
        /\ cellAtHand \in Seq(Characters) /\ ending \in Endings
        /\ starts \in Seq(Nat) /\ Len(starts) = Len(finished) + 1 /\ onLine \in Nat
    BY DEF FileInv, FileTypeOK
  <1>2. /\ ending \in Seq(Characters) /\ Len(ending) \in {1, 2} /\ ending[1] \in {Newline, Return}
        /\ ending[1] = Newline => ending # <<Return>>
        /\ ending[1] = Return /\ Len(ending) = 2 /\ ending[2] = Newline <=> Len(ending) = 2
        /\ ending[Len(ending)] # Quote /\ ending[1] # Quote /\ ending[1] # BOM
        /\ ending[Len(ending)] = Return => ending = <<Return>>
    <2>1. {Newline, Return} \subseteq Characters
      BY MarksAreCharacters
    <2>2. CASE ending = <<Newline>>
      BY <2>1, <2>2, MarksDiffer
    <2>3. CASE ending = <<Return>>
      BY <2>1, <2>3, MarksDiffer
    <2>4. CASE ending = <<Return, Newline>>
      BY <2>1, <2>4, MarksDiffer
    <2> QED
      BY <1>1, <2>2, <2>3, <2>4 DEF Endings
  <1>3. /\ Write(ending) /\ writing # "in quotes" /\ writing' = "not yet" /\ cellAtHand' = <<>>
        /\ rowAtHand' = <<>> /\ finished' = rows /\ ending' = ending
    BY DEF WriteLineEnd
  <1>4. starts' = Append(starts, onLine + 1) /\ onLine' = onLine + 1
    BY DEF WriteLineEnd
  <1>5. row \in Seq(Seq(Characters)) /\ rows \in Seq(Seq(Seq(Characters)))
    BY <1>1, AppendProperties
  <1>6. starts' \in Seq(Nat) /\ Len(starts') = Len(rows) + 1 /\ onLine' \in Nat
    <2>1. onLine + 1 \in Nat
      BY <1>1
    <2>2. Len(starts') = Len(starts) + 1 /\ Len(rows) = Len(finished) + 1 /\ starts' \in Seq(Nat)
      BY <1>1, <1>4, <1>5, <2>1, AppendProperties
    <2> QED
      BY <1>1, <1>4, <2>1, <2>2
  <1> HIDE DEF all, row, rows
  <1>7. Follows(text, AtHand, ending)
    <2>1. text # <<>> /\ text[Len(text)] = Return => ending = <<Return>>
      BY <1>3 DEF FileInv, WriterKnows
    <2> QED
      BY <1>2, <2>1, Zenon DEF Follows
  <1>8. Turn(all, AtHand) = AtHand'
    <2>1. /\ Turn(all, AtHand) = ReadCharacter(all, AtHand) /\ all[AtHand.index] = ending[1]
          /\ Len(all) = Len(text) + Len(ending)
      BY <1>2, TurnAtHand DEF all
    <2>2. IsNext(all, AtHand, Newline) <=> Len(ending) = 2 /\ ending[2] = Newline
      BY <1>2, TurnAtHand DEF all
    <2>3. AtHand.quoted = FALSE
      BY <1>3, AtHandIs
    <2>4. Len(ending) = IF all[AtHand.index] = Return /\ IsNext(all, AtHand, Newline) THEN 2 ELSE 1
      BY <1>2, <2>1, <2>2
    <2>5. ReadCharacter(all, AtHand) = Skip(EndRow(AtHand), Len(ending))
      <3>1. all[AtHand.index] = ending[1] /\ ending[1] \in {Newline, Return}
        BY <1>2, <2>1
      <3>2. ReadCharacter(all, AtHand) = AtLineEnd(all, AtHand)
        BY <2>3, <3>1, ReadLineEnd
      <3> QED
        BY <2>4, <3>2, Zenon DEF AtLineEnd
    <2> DEFINE over == Exceeds(rows, <<>>)
    <2>6. PICK quoted : quoted = (writing = "in quotes")
      OBVIOUS
    <2>7. EndRow(AtHand) = Reader(rows, <<>>, <<>>, quoted, over, Len(text) + 1)
      <3>1. AtHand = Reader(finished, rowAtHand, cellAtHand, quoted, Exceeds(finished, rowAtHand), Len(text) + 1)
        BY <2>6, Zenon DEF AtHand
      <3> QED
        BY <1>1, <3>1, RowEnds DEF row, rows
    <2>8. Skip(EndRow(AtHand), Len(ending)) =
            Reader(rows, <<>>, <<>>, quoted, over, (Len(text) + 1) + Len(ending))
      BY <2>7, ReaderMoves
    <2>9. Len(text') + 1 = (Len(text) + 1) + Len(ending)
      <3>1. Len(text') = Len(text) + Len(ending) /\ Len(text) \in Nat
        BY <1>3, <2>1, LenProperties DEF Write, all, FileInv, FileTypeOK
      <3> QED
        BY <1>2, <3>1
    <2>10. quoted = (writing' = "in quotes")
      BY <1>3, <2>6
    <2>11. AtHand' = Reader(rows, <<>>, <<>>, quoted, over, (Len(text) + 1) + Len(ending))
      BY <1>3, <2>6, <2>9, <2>10, Zenon DEF AtHand
    <2> QED
      BY <2>1, <2>5, <2>8, <2>11
  <1>9. /\ text' \in Seq(Characters) /\ Len(text') <= Typed /\ text' # <<>>
        /\ text'[Len(text')] = ending[Len(ending)]
        /\ \E n : Arrives(text, n, AtHand)'
        /\ parsed' = ParseCsv(text')
    BY <1>2, <1>3, <1>7, <1>8, OneTurnRead DEF all
  <1>10. FileTypeOK'
    <2>1. cellAtHand' \in Seq(Characters) /\ rowAtHand' \in Seq(Seq(Characters))
      BY <1>3, NothingIsSeq
    <2>2. finished' = rows /\ rows \in Seq(Seq(Seq(Characters))) /\ ending' \in Endings
      BY <1>1, <1>3, <1>5
    <2> QED
      BY <1>3, <1>6, <1>9, <2>1, <2>2 DEF FileTypeOK
  <1>11. WriterKnows'
    BY <1>2, <1>3, <1>9 DEF WriterKnows
  <1> QED
    BY <1>9, <1>10, <1>11 DEF FileInv

LEMMA NothingIsLeft == DropTrailingBlank(<<>>) = <<>>
  <1>1. DOMAIN <<>> = {}
    BY EmptySeq
  <1> QED
    BY <1>1 DEF DropTrailingBlank

\* What an inductive reader makes of its file is what was written.
LEMMA InvReadsBack ==
  ASSUME FileInv
  PROVE  ReadBack
  <1>1. /\ finished \in Seq(Seq(Seq(Characters))) /\ rowAtHand \in Seq(Seq(Characters))
        /\ cellAtHand \in Seq(Characters) /\ text \in Seq(Characters)
    BY DEF FileInv, FileTypeOK
  <1>2. ReadAll(text) = AtHand
    <2>1. PICK n : Arrives(text, n, AtHand)
      BY DEF FileInv
    <2>2. Len(text) \in Nat
      BY <1>1, LenProperties
    <2> QED
      BY <2>1, <2>2, ArrivedStays
  <1> DEFINE quoted == writing = "in quotes"
             begun == quoted \/ cellAtHand # <<>> \/ rowAtHand # <<>>
             whole == IF begun THEN EndRow(AtHand) ELSE AtHand
  <1>3. ParseCsv(text) = IF whole.refused THEN Refused ELSE DropTrailingBlank(whole.rows)
    <2>1. AtHand.quoted = quoted /\ AtHand.field = cellAtHand /\ AtHand.row = rowAtHand
      BY DEF AtHand, Reader
    <2> QED
      BY <1>2, <2>1, Zenon DEF ParseCsv
  <1>4. whole.rows = Written /\ (whole.refused <=> ~ Fits(Written))
    <2>1. CASE begun
      <3> DEFINE last == Append(rowAtHand, cellAtHand)
                 all == Append(finished, last)
      <3>1. PICK q : q = quoted
        OBVIOUS
      <3>2. AtHand = Reader(finished, rowAtHand, cellAtHand, q, Exceeds(finished, rowAtHand), Len(text) + 1)
        BY <3>1, Zenon DEF AtHand
      <3>3. Written = all
        BY <2>1 DEF Written
      <3>4. EndRow(AtHand) = Reader(all, <<>>, <<>>, q, Exceeds(all, <<>>), Len(text) + 1)
        BY <1>1, <3>2, RowEnds
      <3> HIDE DEF last, all
      <3>5. EndRow(AtHand).rows = all /\ EndRow(AtHand).refused = Exceeds(all, <<>>)
        BY <3>4 DEF Reader
      <3>6. Exceeds(all, <<>>) <=> ~ Fits(all)
        BY NothingFits DEF Exceeds
      <3> QED
        BY <2>1, <3>3, <3>5, <3>6, Zenon
    <2>2. CASE ~ begun
      <3>1. Written = finished /\ rowAtHand = <<>>
        BY <2>2 DEF Written
      <3>2. AtHand.rows = finished /\ AtHand.refused = Exceeds(finished, rowAtHand)
        BY DEF AtHand, Reader
      <3>3. Exceeds(finished, rowAtHand) <=> ~ Fits(finished)
        BY <3>1, NothingFits DEF Exceeds
      <3> QED
        BY <2>2, <3>1, <3>2, <3>3, Zenon
    <2> QED
      BY <2>1, <2>2
  <1> HIDE DEF whole
  <1>5. FileTypeOK /\ parsed = ParseCsv(text)
    BY DEF FileInv
  <1>6. parsed = IF Fits(Written) THEN DropTrailingBlank(Written) ELSE Refused
    BY <1>3, <1>4, <1>5, Zenon
  <1> QED
    BY <1>5, <1>6 DEF ReadBack

\* It holds of a file that is not begun, with a byte order mark or without one.
LEMMA FileInvHolds ==
  ASSUME FileInit
  PROVE  FileInv
  <1>1. /\ ending \in Endings /\ finished = <<>> /\ rowAtHand = <<>> /\ cellAtHand = <<>>
        /\ writing = "not yet" /\ starts = <<1>> /\ onLine = 1 /\ parsed = <<>>
    BY DEF FileInit
  <1>2. /\ text \in Seq(Characters) /\ Len(text) \in 0 .. 1
        /\ Reading(text) = Reader(<<>>, <<>>, <<>>, FALSE, FALSE, Len(text) + 1)
        /\ text # <<>> => text[Len(text)] = BOM
    <2>1. CASE text = <<>>
      BY <2>1 DEF Reading, Reader
    <2>2. CASE text = <<BOM>>
      <3>1. text \in Seq(Characters) /\ Len(text) = 1 /\ text # <<>> /\ text[1] = BOM
        BY <2>2, MarksAreCharacters, CharacterIsSeq
      <3>2. Reading(text) = Reader(<<>>, <<>>, <<>>, FALSE, FALSE, 2)
        BY <3>1 DEF Reading, Reader
      <3> QED
        BY <3>1, <3>2
    <2> QED
      BY <2>1, <2>2 DEF FileInit
  <1>3. Len(text) <= Typed
    BY <1>2, LimitAssumption
  <1>4. FileTypeOK
    <2>1. /\ finished \in Seq(Seq(Seq(Characters))) /\ rowAtHand \in Seq(Seq(Characters))
          /\ cellAtHand \in Seq(Characters) /\ Len(finished) = 0
      BY <1>1, NothingIsSeq
    <2>2. starts \in Seq(Nat) /\ Len(starts) = Len(finished) + 1
      <3>1. <<1>> \in Seq(Nat) /\ Len(<<1>>) = 1
        OBVIOUS
      <3>2. starts \in Seq(Nat) /\ Len(starts) = 1
        BY <1>1, <3>1, Zenon
      <3> QED
        BY <2>1, <3>2
    <2>3. onLine \in Nat /\ writing \in {"not yet", "plain", "in quotes", "after quotes"}
      BY <1>1
    <2> QED
      BY <1>1, <1>2, <1>3, <2>1, <2>2, <2>3, Zenon DEF FileTypeOK
  <1>5. WriterKnows
    BY <1>1, <1>2, MarksDiffer DEF WriterKnows
  <1>6. Arrives(text, 0, AtHand)
    <2>1. FALSE = (writing = "in quotes") /\ FALSE = Exceeds(finished, rowAtHand)
      BY <1>1, NothingFits DEF Exceeds
    <2>2. AtHand = Reader(<<>>, <<>>, <<>>, FALSE, FALSE, Len(text) + 1)
      BY <1>1, <2>1, Zenon DEF AtHand
    <2>3. Turns(text)[0] = Reading(text)
      <3>1. Len(text) \in Nat
        BY <1>2
      <3> QED
        BY <3>1, TurnsFollow
    <2>4. 0 \in 0 .. Len(text) /\ 0 .. 0 - 1 = {}
      BY <1>2
    <2>5. Turns(text)[0] = AtHand /\ AtHand.index = Len(text) + 1
      BY <1>2, <2>2, <2>3, AtHandIs
    <2> QED
      BY <2>4, <2>5 DEF Arrives
  <1>7. parsed = ParseCsv(text)
    <2>1. AtHand.quoted = FALSE /\ AtHand.field = <<>> /\ AtHand.row = <<>> /\ AtHand.rows = <<>>
      BY <1>1 DEF AtHand, Reader
    <2>2. AtHand.refused = FALSE
      BY <1>1, NothingFits DEF AtHand, Reader, Exceeds
    <2>3. ReadAll(text) = AtHand
      BY <1>2, <1>6, ArrivedStays
    <2>4. ParseCsv(text) = DropTrailingBlank(<<>>)
      BY <2>1, <2>2, <2>3 DEF ParseCsv
    <2> QED
      BY <1>1, <2>4, NothingIsLeft
  <1> QED
    BY <1>4, <1>5, <1>6, <1>7 DEF FileInv

\* A register within the limits is read back cell for cell, whatever its cells hold, however its
\* lines end and wherever it breaks off; one over them is refused whole (lib/csv.ts:parseCsv).
THEOREM ARegisterIsReadBack == FileSpec => []ReadBack
  <1>1. FileInit => FileInv
    BY FileInvHolds
  <1>2. FileInv /\ [FileNext]_fileVars => FileInv'
    <2> SUFFICES ASSUME FileInv, [FileNext]_fileVars PROVE FileInv'
      OBVIOUS
    <2>1. CASE \E c \in Letters \cup {Space} : WritePlain(c)
      BY <2>1, PlainKeeps
    <2>2. CASE OpenQuotes
      BY <2>2, OpeningKeeps
    <2>3. CASE \E c \in Letters \cup {Space, Quote, Comma, Newline, Return} : WriteQuoted(c)
      BY <2>3, QuotedKeeps
    <2>4. CASE CloseQuotes
      BY <2>4, ClosingKeeps
    <2>5. CASE WriteComma
      BY <2>5, CommaKeeps
    <2>6. CASE WriteLineEnd
      BY <2>6, LineEndKeeps
    <2>7. CASE UNCHANGED fileVars
      BY <2>7 DEF fileVars, FileInv, FileTypeOK, WriterKnows, AtHand
    <2> QED
      BY <2>1, <2>2, <2>3, <2>4, <2>5, <2>6, <2>7 DEF FileNext
  <1>3. FileInv => ReadBack
    BY InvReadsBack
  <1> QED
    BY <1>1, <1>2, <1>3, PTL DEF FileSpec

==============================================================================
