------------------------------ MODULE DevScripts ------------------------------
(***************************************************************************)
(* The operator's scripts that take draws back: of one commune in a year,  *)
(* of every commune in one year or in all, or of everybody registered; and *)
(* the three that move draws and the year between their statuses.  They    *)
(* read what there is, then undo it in one transaction in which no trigger *)
(* and no foreign key holds.                                               *)
(*                                                                         *)
(* The server's operations are the other modules'; here each is one step   *)
(* that changes what the scripts read and undo, an import a line at a      *)
(* time.  Abstracted: the selection events, the archive and the reserves,  *)
(* which come and go with a result, and years that were archived.          *)
(***************************************************************************)
EXTENDS FiniteSets, Integers

CONSTANTS
  None,
  Years, Draws, Applications, People,
  YearOf,         \* of each commune draw
  DrawOf,         \* of each application
  Occupants,      \* of each application
  OldRecords,     \* bound: the lines that may be imported, [person, year, won]
  MayCorrect,     \* people whose rows of the ledger may be corrected
  Live,           \* whether the server serves while a script runs
  MaxFreezes      \* bound: the pools frozen

ScriptsAssumption ==
  /\ Live \in BOOLEAN /\ MaxFreezes \in Nat
  /\ YearOf \in [Draws -> Years]
  /\ DrawOf \in [Applications -> Draws]
  /\ Occupants \in [Applications -> SUBSET People]
  /\ OldRecords \subseteq [person : People, year : Years, won : BOOLEAN]
  /\ None \notin {"ELIGIBLE", "SELECTED", "NOT_SELECTED"}
  /\ None \notin [id : Nat, entries : SUBSET Applications]
  /\ None \notin [pool : Nat, winner : Applications]

VARIABLES
  year,           \* the status of each draw year
  draw,           \* the status of each commune draw
  pool,           \* [id, entries]
  result,         \* [pool, winner], with everything that belongs to it
  application,    \* the status of each application, None when there is none
  hasWon, legacy, \* people with the mark of a winner, and with an imported win
  ledger,         \* the rows of participation_history, [person, year, source]
  trail,          \* what the trail says of pools and results
  froze,          \* pools frozen so far
  script          \* the script under way, with what it read

vars == <<year, draw, pool, result, application, hasWon, legacy, ledger, trail, froze, script>>
drawn == <<draw, pool, result, application, hasWon, ledger, trail, froze>>

Idle == [at |-> "idle"]
Of(d) == {a \in Applications : DrawOf[a] = d}
YearIn(a) == YearOf[DrawOf[a]]

Row(p, y, source) == [person |-> p, year |-> y, source |-> source]

Init ==
  /\ year = [y \in Years |-> "DRAFT"]
  /\ draw = [d \in Draws |-> "DRAFT"]
  /\ pool = [d \in Draws |-> None] /\ result = [d \in Draws |-> None]
  /\ application = [a \in Applications |-> None]
  /\ hasWon = {} /\ legacy = {}
  /\ ledger = {} /\ trail = {}
  /\ froze = 0
  /\ script = Idle

-----------------------------------------------------------------------------
(* The server.                                                              *)

Serves == Live \/ script = Idle

NoneIsOpen == \A y \in Years : year[y] # "REGISTRATION_OPEN"

\* One year at a time: the unique index over the years that are open.
OpenRegistration(y) ==
  /\ Serves /\ year[y] = "DRAFT" /\ NoneIsOpen
  /\ year' = [year EXCEPT ![y] = "REGISTRATION_OPEN"]
  /\ UNCHANGED <<drawn, legacy, script>>

CloseRegistration(y) ==
  /\ Serves /\ year[y] = "REGISTRATION_OPEN"
  /\ year' = [year EXCEPT ![y] = "REGISTRATION_CLOSED"]
  /\ UNCHANGED <<drawn, legacy, script>>

Registered == {a \in Applications : application[a] # None}

\* Nobody who has won, and nobody twice in a year.
Register(a) ==
  /\ Serves /\ year[YearIn(a)] = "REGISTRATION_OPEN"
  /\ application[a] = None /\ Occupants[a] \cap hasWon = {}
  /\ \A b \in Registered : YearIn(b) = YearIn(a) => Occupants[b] \cap Occupants[a] = {}
  /\ draw[DrawOf[a]] \in {"DRAFT", "READY"}
  /\ application' = [application EXCEPT ![a] = "ELIGIBLE"]
  /\ UNCHANGED <<year, draw, pool, result, hasWon, legacy, ledger, trail, froze, script>>

Candidates(d) == {a \in Of(d) : application[a] = "ELIGIBLE"}

Freeze(d) ==
  /\ Serves /\ year[YearOf[d]] = "REGISTRATION_CLOSED" /\ draw[d] = "READY"
  /\ pool[d] = None /\ froze < MaxFreezes
  /\ Candidates(d) # {} /\ \A a \in Candidates(d) : Occupants[a] \cap hasWon = {}
  /\ draw' = [draw EXCEPT ![d] = "LOCKED"]
  /\ froze' = froze + 1
  /\ pool' = [pool EXCEPT ![d] = [id |-> froze', entries |-> Candidates(d)]]
  /\ trail' = trail \cup {[action |-> "DRAW_POOL_FROZEN", draw |-> d, pool |-> froze']}
  /\ UNCHANGED <<year, result, application, hasWon, legacy, ledger, script>>

Pooled(d) == UNION {Occupants[a] : a \in pool[d].entries}

\* A row of the year of anybody in the pool makes the whole transaction fail, and so does
\* somebody drawn who is in the archive of winners; the mark is set whether or not it was.
Execute(d) == \E winner \in pool[d].entries :
  /\ \A row \in ledger : row.year = YearOf[d] => row.person \notin Pooled(d)
  /\ \A e \in Draws : result[e] # None => Occupants[result[e].winner] \cap Occupants[winner] = {}
  /\ draw' = [draw EXCEPT ![d] = "COMPLETED"]
  /\ result' = [result EXCEPT ![d] = [pool |-> pool[d].id, winner |-> winner]]
  /\ application' = [a \in Applications |->
       IF a = winner THEN "SELECTED" ELSE IF a \in pool[d].entries THEN "NOT_SELECTED" ELSE application[a]]
  /\ hasWon' = hasWon \cup Occupants[winner]
  /\ ledger' = ledger \cup {Row(p, YearOf[d], "APPLICATION") : p \in Pooled(d)}
  /\ trail' = trail \cup {[action |-> "COMMUNE_DRAW_EXECUTED", draw |-> d, pool |-> pool[d].id]}
  /\ UNCHANGED <<year, pool, legacy, froze, script>>

Publish(d) ==
  LET event == [action |-> "DRAW_RESULT_PUBLISHED", draw |-> d, pool |-> result[d].pool] IN
  /\ event \notin trail
  /\ trail' = trail \cup {event}
  /\ UNCHANGED <<year, draw, pool, result, application, hasWon, legacy, ledger, froze, script>>

\* One row for a person and a year, one imported win for a person, and none of somebody
\* with the mark.
Import(old) ==
  /\ Serves
  /\ \A row \in ledger : row.person = old.person => row.year # old.year
  /\ old.won => old.person \notin hasWon \cup legacy
  /\ ledger' = ledger \cup {Row(old.person, old.year, "LEGACY_IMPORT")}
  /\ legacy' = IF old.won THEN legacy \cup {old.person} ELSE legacy
  /\ hasWon' = IF old.won THEN hasWon \cup {old.person} ELSE hasWon
  /\ UNCHANGED <<year, draw, pool, result, application, trail, froze, script>>

Correct(row) ==
  /\ Serves /\ row.person \in MayCorrect
  /\ ledger' = (ledger \ {row}) \cup {Row(row.person, row.year, "ADMIN_CORRECTION")}
  /\ UNCHANGED <<year, draw, pool, result, application, hasWon, legacy, trail, froze, script>>

-----------------------------------------------------------------------------
(* The scripts.                                                             *)

In(y) == {d \in Draws : YearOf[d] = y}

\* What a script that takes back some commune draws reads of them.
Read(ds) ==
  LET taken == {d \in ds : pool[d] # None \/ result[d] # None} IN
  /\ script = Idle /\ taken # {}
  /\ script' = [at |-> "read", draws |-> taken,
                pools |-> {[draw |-> d, id |-> pool[d].id] : d \in {e \in taken : pool[e] # None}},
                results |-> {[draw |-> d, id |-> result[d].pool] : d \in {e \in taken : result[e] # None}},
                entries |-> UNION {pool[d].entries : d \in {e \in taken : pool[e] # None}}]
  /\ UNCHANGED <<year, drawn, legacy>>

\* --year names the draw, or the commune has but one with a pool or a result.
ResetCommuneDraw(d) == Read({d})

\* Of one year with --year, else of all.
ResetCommuneDraws == Read(Draws) \/ \E y \in Years : Read(In(y))

\* The participants of the pools read, and of those of one year.
Touched(s) == UNION {Occupants[a] : a \in s.entries}
TouchedIn(s, y) == UNION {Occupants[a] : a \in {e \in s.entries : YearIn(e) = y}}

StatusAfter(s) == [d \in Draws |-> IF d \in s.draws THEN "READY" ELSE draw[d]]

\* Faulty: the ledger is taken for permanent.
LedgerKept(s) == ledger

LedgerAfter(s) ==
  {row \in ledger : ~ (row.source = "APPLICATION" /\ row.person \in TouchedIn(s, row.year))}

\* Whatever else they won, in another year or by an import.
WonAfter(s) == hasWon \ Touched(s)

\* The transaction of both: what was read is deleted by its id, and restored.
Undo ==
  LET s == script
      gone(d, id, of) == [draw |-> d, id |-> id] \in of
  IN
  /\ s.at = "read"
  /\ result' = [d \in Draws |->
       IF result[d] # None /\ gone(d, result[d].pool, s.results) THEN None ELSE result[d]]
  /\ pool' = [d \in Draws |-> IF pool[d] # None /\ gone(d, pool[d].id, s.pools) THEN None ELSE pool[d]]
  /\ trail' = {t \in trail : ~ \/ t.action = "DRAW_POOL_FROZEN" /\ gone(t.draw, t.pool, s.pools)
                               \/ t.action # "DRAW_POOL_FROZEN" /\ gone(t.draw, t.pool, s.results)}
  /\ hasWon' = WonAfter(s)
  /\ application' = [a \in Applications |-> IF a \in s.entries THEN "ELIGIBLE" ELSE application[a]]
  /\ ledger' = LedgerAfter(s)
  /\ draw' = StatusAfter(s)
  /\ script' = Idle
  /\ UNCHANGED <<year, legacy, froze>>

\* Everybody registered goes, with every draw; the trail stays.
ResetParticipants ==
  /\ script = Idle
  /\ pool' = [d \in Draws |-> None] /\ result' = [d \in Draws |-> None]
  /\ application' = [a \in Applications |-> None]
  /\ hasWon' = {} /\ legacy' = {} /\ ledger' = {}
  /\ draw' = [d \in Draws |-> IF draw[d] \in {"LOCKED", "COMPLETED"} THEN "READY" ELSE draw[d]]
  /\ UNCHANGED <<year, trail, froze, script>>

Move(ds, from, to) ==
  /\ script = Idle
  /\ \E d \in ds : draw[d] = from
  /\ draw' = [d \in Draws |-> IF d \in ds /\ draw[d] = from THEN to ELSE draw[d]]
  /\ UNCHANGED <<year, pool, result, application, hasWon, legacy, ledger, trail, froze, script>>

ReadyCommuneDraws == Move(Draws, "DRAFT", "READY") \/ \E y \in Years : Move(In(y), "DRAFT", "READY")
DraftCommuneDraws == Move(Draws, "READY", "DRAFT") \/ \E y \in Years : Move(In(y), "READY", "DRAFT")

ReopenRegistration(y) ==
  /\ script = Idle /\ NoneIsOpen
  /\ year[y] = "REGISTRATION_CLOSED"
  /\ year' = [year EXCEPT ![y] = "REGISTRATION_OPEN"]
  /\ UNCHANGED <<drawn, legacy, script>>

Next ==
  \/ \E y \in Years : OpenRegistration(y) \/ CloseRegistration(y) \/ ReopenRegistration(y)
  \/ \E a \in Applications : Register(a)
  \/ \E d \in Draws :
       \/ Freeze(d)
       \/ Serves /\ draw[d] = "LOCKED" /\ pool[d] # None /\ result[d] = None /\ Execute(d)
       \/ Serves /\ result[d] # None /\ Publish(d)
       \/ ResetCommuneDraw(d)
  \/ \E old \in OldRecords : Import(old)
  \/ \E row \in ledger : Correct(row)
  \/ ResetCommuneDraws \/ Undo
  \/ ResetParticipants
  \/ ReadyCommuneDraws \/ DraftCommuneDraws

Spec == Init /\ [][Next]_vars

-----------------------------------------------------------------------------

TypeOK ==
  /\ year \in [Years -> {"DRAFT", "REGISTRATION_OPEN", "REGISTRATION_CLOSED"}]
  /\ draw \in [Draws -> {"DRAFT", "READY", "LOCKED", "COMPLETED"}]
  /\ \A d \in Draws :
       /\ pool[d] = None \/ pool[d] \in [id : 1 .. froze, entries : (SUBSET Of(d)) \ {{}}]
       /\ result[d] = None \/ result[d] \in [pool : 1 .. froze, winner : Of(d)]
  /\ application \in [Applications -> {None, "ELIGIBLE", "SELECTED", "NOT_SELECTED"}]
  /\ hasWon \subseteq People /\ legacy \subseteq People
  /\ ledger \subseteq [person : People, year : Years,
                       source : {"APPLICATION", "LEGACY_IMPORT", "ADMIN_CORRECTION"}]

(* Whatever was taken back, a draw's status says what there is of it: locked  *)
(* with a pool, completed with a result of that pool, ready with neither.     *)
StatusTellsPool == \A d \in Draws :
  /\ draw[d] \in {"LOCKED", "COMPLETED"} <=> pool[d] # None
  /\ draw[d] = "COMPLETED" <=> result[d] # None
  /\ result[d] # None => pool[d] # None /\ result[d].pool = pool[d].id

(* A pool frozen anew after a reset can be drawn: no row that an execution     *)
(* wrote bars it, of whatever draws were taken back before.                    *)
NoRowLeftBehind == \A d \in Draws : draw[d] = "LOCKED" =>
  \A row \in ledger : row.source = "APPLICATION" /\ row.year = YearOf[d] => row.person \notin Pooled(d)

Winners == UNION {Occupants[result[d].winner] : d \in {e \in Draws : result[e] # None}}

(* Nobody is kept out by a draw that was taken back: whoever has the mark of   *)
(* a winner holds a place of some year or an imported win.                     *)
MarkMeansWin == hasWon \subseteq legacy \cup Winners

OthersStay == \A d \in Draws \ script.draws :
  /\ draw'[d] = draw[d] /\ pool'[d] = pool[d] /\ result'[d] = result[d]
  /\ \A a \in Of(d) :
       /\ application'[a] = application[a]
       /\ application[a] # None => \A row \in ledger \ ledger' :
            row.year = YearOf[d] => row.person \notin Occupants[a]

(* Taking back some draws changes nothing of the others, nor the rows of       *)
(* those who are in them: a person is in one application of a year, which is   *)
(* what reset-commune-draws.ts groups its deletions by.                        *)
OthersUntouched == [][Undo => OthersStay]_vars

(* What the scripts do not keep: that whoever holds a place or an imported     *)
(* win has the mark.  They take it off everybody in the pools they read.       *)
WinMeansMark == legacy \cup Winners \subseteq hasWon

(* Only what freezes and executions wrote leaves the trail.                     *)
OnlyTheirRowsLeave ==
  [][\A t \in trail \ trail' : t.action \in {"DRAW_POOL_FROZEN", "COMMUNE_DRAW_EXECUTED"}]_vars

==============================================================================
