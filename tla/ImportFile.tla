------------------------------ MODULE ImportFile ------------------------------
(***************************************************************************)
(* Reading an uploaded register (lib/csv.ts), against a writer that follows *)
(* RFC 4180: the file is written character by character, its cells plain or *)
(* quoted, with one kind of line ending, and read as it stands at any point *)
(* of it.  Characters are told apart only as far as the reader tells them.  *)
(*                                                                         *)
(* Abstracted: a limit that is passed is remembered to the end, where the  *)
(* code throws on the spot.                                                *)
(***************************************************************************)
EXTENDS Naturals, Sequences

CONSTANTS
  MaxRows,        \* MAX_IMPORT_ROWS
  MaxColumns,     \* MAX_IMPORT_COLUMNS
  MaxCell,        \* MAX_IMPORT_CELL_CHARACTERS
  Letters,        \* characters that mean nothing to the reader
  Typed           \* bound on the characters of a written file

VARIABLES
  ending,         \* the line ending of the file's writer
  finished,       \* the rows that are written
  rowAtHand,      \* the cells that are written of the next
  cellAtHand,     \* what is written of its next cell
  writing,        \* and how: not yet, plain, in quotes, or after them
  starts,         \* the line of the file each row begins on, the one at hand last
  onLine,         \* the line of the file that is written on
  text,           \* the file
  parsed          \* what the reader makes of it: rows, or a refusal

fileVars == <<ending, finished, rowAtHand, cellAtHand, writing, starts, onLine, text, parsed>>

Quote == "quote"
Comma == "comma"
Newline == "lf"
Return == "cr"
Space == "space"
BOM == "bom"

Characters == Letters \cup {Space, Quote, Comma, Newline, Return, BOM}

ASSUME LimitAssumption ==
  /\ {MaxRows, MaxColumns, MaxCell, Typed} \subseteq Nat \ {0}
  /\ Letters \cap {Space, Quote, Comma, Newline, Return, BOM} = {}

Refused == <<"CsvLimitError">>

------------------------------------------------------------------------------
(* The reader: the rows so far, the row and the field at hand, whether it is *)
(* inside quotes, and the character it comes to next.                        *)

\* A byte order mark is not part of the first cell.
Reading(source) ==
  [rows |-> <<>>, row |-> <<>>, field |-> <<>>, quoted |-> FALSE, refused |-> FALSE,
   index |-> IF source # <<>> /\ source[1] = BOM THEN 2 ELSE 1]

EndField(r) ==
  [r EXCEPT !.row = Append(@, r.field), !.field = <<>>,
            !.refused = @ \/ Len(r.field) > MaxCell \/ Len(r.row) + 1 > MaxColumns]

EndRow(r) ==
  LET ended == EndField(r) IN
  [ended EXCEPT !.rows = Append(@, ended.row), !.row = <<>>,
                !.refused = @ \/ Len(ended.rows) + 1 > MaxRows]

Skip(r, n) == [r EXCEPT !.index = @ + n]

Take(r, character) == Skip([r EXCEPT !.field = Append(@, character)], 1)

IsNext(source, r, character) == r.index < Len(source) /\ source[r.index + 1] = character

\* Faulty: a quote ends the field, doubled or not.
EndsAtQuote(source, r) == Skip([r EXCEPT !.quoted = FALSE], 1)

\* Inside quotes a doubled quote is a literal one.
AtQuote(source, r) ==
  IF IsNext(source, r, Quote) THEN Skip([r EXCEPT !.field = Append(@, Quote)], 2)
  ELSE Skip([r EXCEPT !.quoted = FALSE], 1)

AtLineEnd(source, r) ==
  Skip(EndRow(r), IF source[r.index] = Return /\ IsNext(source, r, Newline) THEN 2 ELSE 1)

ReadCharacter(source, r) ==
  LET character == source[r.index] IN
  IF r.quoted THEN IF character = Quote THEN AtQuote(source, r) ELSE Take(r, character)
  ELSE CASE character = Quote /\ r.field = <<>> -> Skip([r EXCEPT !.quoted = TRUE], 1)
         [] character = Comma -> Skip(EndField(r), 1)
         [] character \in {Newline, Return} -> AtLineEnd(source, r)
         [] OTHER -> Take(r, character)

Turn(source, r) == IF r.index > Len(source) THEN r ELSE ReadCharacter(source, r)

\* The reader after each turn of its loop; every turn reads a character or more.
Turns(source) ==
  LET turn[n \in 0 .. Len(source)] ==
        IF n = 0 THEN Reading(source) ELSE Turn(source, turn[n - 1])
  IN turn

ReadAll(source) == Turns(source)[Len(source)]

IsBlank(row) == \A i \in DOMAIN row : \A j \in DOMAIN row[i] : row[i][j] \in {Space, Newline, Return, BOM}

\* Only the blank rows at the end: the numbers of the others stay those of the file.
DropTrailingBlank(read) ==
  LET written == {i \in DOMAIN read : ~ IsBlank(read[i])}
  IN IF written = {} THEN <<>>
     ELSE SubSeq(read, 1, CHOOSE i \in written : \A j \in written : j <= i)

\* An unterminated final record is still a record; a trailing newline is not.
ParseCsv(source) ==
  LET r == ReadAll(source)
      whole == IF r.quoted \/ r.field # <<>> \/ r.row # <<>> THEN EndRow(r) ELSE r
  IN IF whole.refused THEN Refused ELSE DropTrailingBlank(whole.rows)

------------------------------------------------------------------------------
(* The writer.                                                              *)

Endings == {<<Newline>>, <<Return>>, <<Return, Newline>>}

FileInit ==
  /\ ending \in Endings
  /\ finished = <<>>
  /\ rowAtHand = <<>>
  /\ cellAtHand = <<>>
  /\ writing = "not yet"
  /\ starts = <<1>>
  /\ onLine = 1
  /\ text \in {<<>>, <<BOM>>}
  /\ parsed = <<>>

Write(addition) ==
  /\ Len(text) + Len(addition) <= Typed
  /\ text' = text \o addition
  /\ parsed' = ParseCsv(text')

WritePlain(c) ==
  /\ writing \in {"not yet", "plain"}
  /\ Write(<<c>>)
  /\ cellAtHand' = Append(cellAtHand, c)
  /\ writing' = "plain"
  /\ UNCHANGED <<ending, finished, rowAtHand, starts, onLine>>

OpenQuotes ==
  /\ writing = "not yet"
  /\ Write(<<Quote>>)
  /\ writing' = "in quotes"
  /\ UNCHANGED <<ending, finished, rowAtHand, cellAtHand, starts, onLine>>

\* A quote within quotes is doubled; a line that ends there does not end the row.
WriteQuoted(c) ==
  /\ writing = "in quotes"
  /\ Write(IF c = Quote THEN <<c, c>> ELSE <<c>>)
  /\ cellAtHand' = Append(cellAtHand, c)
  /\ onLine' = IF c = Newline THEN onLine + 1 ELSE onLine
  /\ UNCHANGED <<ending, finished, rowAtHand, writing, starts>>

CloseQuotes ==
  /\ writing = "in quotes"
  /\ Write(<<Quote>>)
  /\ writing' = "after quotes"
  /\ UNCHANGED <<ending, finished, rowAtHand, cellAtHand, starts, onLine>>

WriteComma ==
  /\ writing # "in quotes"
  /\ Write(<<Comma>>)
  /\ rowAtHand' = Append(rowAtHand, cellAtHand)
  /\ cellAtHand' = <<>>
  /\ writing' = "not yet"
  /\ UNCHANGED <<ending, finished, starts, onLine>>

WriteLineEnd ==
  /\ writing # "in quotes"
  /\ Write(ending)
  /\ finished' = Append(finished, Append(rowAtHand, cellAtHand))
  /\ rowAtHand' = <<>>
  /\ cellAtHand' = <<>>
  /\ writing' = "not yet"
  /\ starts' = Append(starts, onLine + 1)
  /\ onLine' = onLine + 1
  /\ UNCHANGED ending

FileNext ==
  \/ \E c \in Letters \cup {Space} : WritePlain(c)
  \/ OpenQuotes
  \/ \E c \in Letters \cup {Space, Quote, Comma, Newline, Return} : WriteQuoted(c)
  \/ CloseQuotes
  \/ WriteComma
  \/ WriteLineEnd

FileSpec == FileInit /\ [][FileNext]_fileVars

------------------------------------------------------------------------------
FileTypeOK ==
  /\ ending \in Endings
  /\ writing \in {"not yet", "plain", "in quotes", "after quotes"}
  /\ text \in Seq(Characters) /\ Len(text) <= Typed
  /\ rowAtHand \in Seq(Seq(Characters)) /\ cellAtHand \in Seq(Characters)
  /\ finished \in Seq(Seq(Seq(Characters)))
  /\ starts \in Seq(Nat) /\ Len(starts) = Len(finished) + 1 /\ onLine \in Nat

\* The reader sees nothing of a last row that has no character in it yet.
Written ==
  IF writing = "in quotes" \/ cellAtHand # <<>> \/ rowAtHand # <<>>
  THEN Append(finished, Append(rowAtHand, cellAtHand)) ELSE finished

RowFits(row) == Len(row) <= MaxColumns /\ \A j \in DOMAIN row : Len(row[j]) <= MaxCell

Fits(read) == Len(read) <= MaxRows /\ \A i \in DOMAIN read : RowFits(read[i])

\* A register within the limits is read back cell for cell, whatever its cells hold,
\* however its lines end and wherever it breaks off; one over them is refused whole.
ReadBack ==
  FileTypeOK /\ parsed = IF Fits(Written) THEN DropTrailingBlank(Written) ELSE Refused

\* What RawImportRow.rowNumber says: the line in the source file.
RowNumberIsTheLine == parsed # Refused => \A i \in DOMAIN parsed : starts[i] = i

==============================================================================
