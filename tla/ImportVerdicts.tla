---------------------------- MODULE ImportVerdicts ----------------------------
(***************************************************************************)
(* Every small register, against every state of the database.  A register  *)
(* is typed line by line, each line first as it should be and then with a  *)
(* few cells misread, and staged at any point: the rules of ImportRules,   *)
(* by which LegacyImport stages its batches and judges them again, must    *)
(* reach a verdict an import can be trusted with.                          *)
(***************************************************************************)
EXTENDS LegacyImport

CONSTANTS
  Registry,       \* what the database may know: functions from People
  MaxLines,       \* bound on the lines of a register
  MaxSlips        \* bound on the misread cells of a register

\* What the database knows of somebody: an outcome of each year in the ledger, and the
\* years for which a table of winners names them.
IsKnown(person) == person.history \in [Years -> Outcomes] /\ person.wins \subseteq Years

ASSUME VerdictAssumption ==
  /\ MaxLines \in Nat /\ MaxSlips \in Nat
  /\ Allowed # {}
  /\ \A known \in Registry, p \in People :
       /\ known[p].registered \in BOOLEAN
       /\ known[p].registered => IsKnown(known[p])

VARIABLES
  lines,          \* the lines typed so far
  database,       \* what the database knows of each person
  slips,          \* the cells misread so far
  verdicts        \* import_rows: the rows of the register with their issues, once staged

registerVars == <<lines, database, slips, verdicts>>

RegisterInit ==
  /\ lines = <<>>
  /\ database \in Registry
  /\ slips = 0
  /\ verdicts = <<>>

TypeLine(person, year, outcome) ==
  /\ verdicts = <<>>
  /\ Len(lines) < MaxLines
  /\ lines' = Append(lines, Line(person, year, outcome))
  /\ UNCHANGED <<database, slips, verdicts>>

Misread(i, column, cell) ==
  /\ verdicts = <<>>
  /\ slips < MaxSlips
  /\ lines' = [lines EXCEPT ![i][column] = cell]
  /\ slips' = slips + 1
  /\ UNCHANGED <<database, verdicts>>

\* Converts, checks and stores the rows; a register without rows is refused.
Stage ==
  /\ verdicts = <<>>
  /\ lines # <<>>
  /\ verdicts' = StageFile(lines, database)
  /\ UNCHANGED <<lines, database, slips>>

RegisterNext ==
  \/ \E p \in People, y \in Years, o \in Outcomes \ {"none"} : TypeLine(p, y, o)
  \/ \E i \in DOMAIN lines, c \in Columns : \E cell \in Cells[c] : Misread(i, c, cell)
  \/ Stage

RegisterSpec == RegisterInit /\ [][RegisterNext]_registerVars

------------------------------------------------------------------------------
RegisterTypeOK ==
  /\ Len(lines) <= MaxLines
  /\ slips \in 0 .. MaxSlips
  /\ \A i \in DOMAIN lines, c \in Columns : lines[i][c] \in Cells[c]
  /\ \A i \in DOMAIN verdicts :
       /\ verdicts[i].issues \subseteq IssueCodes
       /\ verdicts[i].values.year \in {NoYear} \cup Years
       /\ \A c \in Columns \ {"year"} :
            verdicts[i].values[c] \in {Null} \cup (Cells[c] \ {Blank, Garbage, "implausible"})

\* Whatever is found importable can be written: execution needs of every row it
\* writes the person, the place, the year and the outcome, and of somebody new a
\* whole identity with gender and phone.
ImportableIsWritable ==
  Importable(verdicts) =>
    \A i \in Writable(verdicts) :
      LET v == verdicts[i].values IN
      /\ v.nationalId # Null /\ v.commune # Null /\ v.year # NoYear
      /\ v.participated # Null /\ v.won # Null
      /\ ~ database[v.nationalId].registered =>
           \A c \in {"name", "dob", "gender", "phone"} : v[c] # Null

\* What an importable register would write about one person can have happened, beside
\* what the database knows of them: one account of each year, one win in a life and none
\* of who is excluded already, no draw entered after it.
CouldHaveHappened ==
  Importable(verdicts) =>
    \A p \in People :
      LET mine == {i \in Writable(verdicts) : verdicts[i].values.nationalId = p}
          year(i) == verdicts[i].values.year
          wins == {year(i) : i \in {j \in mine : verdicts[j].values.won = "yes"}}
          barred == database[p].registered /\ database[p].hasWon
          before == database[p].wins \cup {y \in Years : database[p].history[y] = "won"}
      IN
      /\ \A i, j \in mine : i # j => year(i) # year(j)
      /\ database[p].registered => \A i \in mine : database[p].history[year(i)] = "none"
      /\ Cardinality(wins) <= 1 /\ (barred => wins = {})
      /\ \A i \in mine : verdicts[i].values.participated = "yes" =>
           /\ \A w \in wins : year(i) <= w
           /\ barred /\ before # {} => \E w \in before : year(i) <= w

Swapped(i, j) == [lines EXCEPT ![i] = lines[j], ![j] = lines[i]]

Facts(rows) ==
  {[c \in {"nationalId", "commune", "year", "participated", "won"} |-> rows[i].values[c]]
     : i \in Writable(rows)}

\* A register says the same in whichever order its lines were typed.
OrderIrrelevant ==
  \A i \in DOMAIN verdicts : \A j \in 1 .. i - 1 :
    LET other == StageFile(Swapped(i, j), database) IN
    /\ Importable(other) = Importable(verdicts)
    /\ Importable(verdicts) => Facts(other) = Facts(verdicts)

\* What a register that is found importable would write can have happened, beside what
\* the database knows, and can be written; and the finding does not depend
\* on the order of its lines.
OneStory == RegisterTypeOK /\ CouldHaveHappened /\ ImportableIsWritable /\ OrderIrrelevant

------------------------------------------------------------------------------
(* What docs/legacy-import.md says of the rules, and they do not do.         *)

\* Identical repeats are consolidated and put nothing in dispute: a register that
\* could be imported can be with one of its lines typed twice.
RepeatsOnlyWarn ==
  \A i, j \in DOMAIN verdicts :
    /\ i < j
    /\ lines[i] = lines[j]
    /\ Importable(StageFile([k \in 1 .. Len(lines) - 1 |->
                               lines[IF k < j THEN k ELSE k + 1]], database))
    => Importable(verdicts)

\* An identical existing record is a warning: a register of facts the ledger holds
\* word for word already is importable.
RecordedOnlyWarns ==
  (/\ slips = 0
   /\ \A i, j \in DOMAIN verdicts : i # j => lines[i] # lines[j]
   /\ \A i \in DOMAIN verdicts :
        /\ database[lines[i].nationalId].registered
        /\ database[lines[i].nationalId].history[lines[i].year] = OutcomeOf(verdicts[i]))
  => Importable(verdicts)

\* Every disagreement is reported and blocks: two lines of an importable register
\* that name one person describe the same person.
OneIdentity ==
  Importable(verdicts) =>
    \A i, j \in DOMAIN verdicts :
      SamePerson(verdicts, i, j) =>
        \A c \in {"name", "dob"} : verdicts[i].values[c] = verdicts[j].values[c]

==============================================================================
