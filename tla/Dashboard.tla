------------------------------ MODULE Dashboard ------------------------------
(***************************************************************************)
(* The dashboard of an administrator: the current draw year is looked up,  *)
(* then the draws and results of that year within the reader's territory   *)
(* are counted by queries that run side by side, while draws go on.        *)
(*                                                                         *)
(* Abstracted: of the fourteen figures, those of the draws and the         *)
(* results; applications, abandonments and the national queues are counted *)
(* the same way.                                                           *)
(***************************************************************************)
EXTENDS Integers, FiniteSets

CONSTANTS
  Years, Communes,
  Territory,     \* the communes of the reader
  None

Statuses == {"DRAFT", "READY", "LOCKED", "COMPLETED", "CANCELLED"}

DashboardAssumption ==
  /\ Years \subseteq Nat /\ IsFiniteSet(Years)
  /\ Territory \subseteq Communes /\ IsFiniteSet(Communes)
  /\ None \notin Years /\ None \notin Statuses \cup {"REGISTRATION_OPEN"}

VARIABLES
  year,       \* [year -> None or its status]
  draw,       \* [year -> [commune -> None or the status of its draw]]
  announced,  \* {year and commune of a published result}
  reading,    \* None, or the queries of a dashboard: year, what is still to ask, what came back
  page,       \* None, or the dashboard shown
  before,     \* what was true when the page was asked for, to compare with
  quiet       \* whether nothing was done since

vars == <<year, draw, announced, reading, page, before, quiet>>

Exists(y) == year[y] # None
Drawn(y) == {c \in Communes : draw[y][c] = "COMPLETED"}

(***************************************************************************)
(* What a dashboard counts, and of which year.                             *)
(***************************************************************************)
\* The groups of draws by status, the results, and those announced.
DrawGroups(y, places) ==
  [s \in Statuses |-> Cardinality({c \in places : draw[y][c] = s})]
Results(y, places) == Cardinality(Drawn(y) \cap places)
Published(y, places) == Cardinality({c \in places : <<y, c>> \in announced})

OpenYears == {y \in Years : year[y] = "REGISTRATION_OPEN"}
Latest(years) == IF years = {} THEN None ELSE CHOOSE y \in years : \A z \in years : z <= y

Snapshot ==
  [year |-> year,
   groups |-> [y \in Years |-> DrawGroups(y, Territory)],
   results |-> [y \in Years |-> Results(y, Territory)],
   published |-> [y \in Years |-> Published(y, Territory)]]

Init ==
  /\ year = [y \in Years |-> None]
  /\ draw = [y \in Years |-> [c \in Communes |-> None]]
  /\ announced = {}
  /\ reading = None /\ page = None /\ before = None /\ quiet = TRUE

(***************************************************************************)
(* The draws go on (DrawCycle).                                            *)
(***************************************************************************)
ToYear(y, from, to) ==
  /\ year[y] = from
  /\ to = "REGISTRATION_OPEN" => OpenYears = {}
  /\ year' = [year EXCEPT ![y] = to]
  /\ quiet' = FALSE
  /\ UNCHANGED <<draw, announced, reading, page, before>>

YearMoves ==
  \E y \in Years :
    \/ ToYear(y, None, "DRAFT")
    \/ ToYear(y, "DRAFT", "REGISTRATION_OPEN")
    \/ ToYear(y, "REGISTRATION_OPEN", "REGISTRATION_CLOSED")

ToDraw(y, c, from, to) ==
  /\ draw[y][c] = from
  /\ draw' = [draw EXCEPT ![y][c] = to]
  /\ quiet' = FALSE
  /\ UNCHANGED <<year, announced, reading, page, before>>

DrawMoves ==
  \E y \in Years, c \in Communes :
    \/ Exists(y) /\ ToDraw(y, c, None, "DRAFT")
    \/ ToDraw(y, c, "DRAFT", "READY") \/ ToDraw(y, c, "READY", "DRAFT")
    \/ ToDraw(y, c, "DRAFT", "CANCELLED") \/ ToDraw(y, c, "READY", "CANCELLED")
    \/ year[y] = "REGISTRATION_CLOSED" /\ ToDraw(y, c, "READY", "LOCKED")
    \/ ToDraw(y, c, "LOCKED", "COMPLETED")

Announce(y, c) ==
  /\ c \in Drawn(y) /\ <<y, c>> \notin announced
  /\ announced' = announced \cup {<<y, c>>}
  /\ quiet' = FALSE
  /\ UNCHANGED <<year, draw, reading, page, before>>

(***************************************************************************)
(* The dashboard.                                                          *)
(***************************************************************************)
NoCounts == [groups |-> [s \in Statuses |-> 0], results |-> 0, published |-> 0]

\* AdminDashboard: opened, or reloaded.
Open ==
  /\ reading = None
  /\ reading' = [year |-> None, ask |-> {"open"}, got |-> NoCounts]
  /\ page' = None
  /\ before' = Snapshot /\ quiet' = TRUE
  /\ UNCHANGED <<year, draw, announced>>

CountsOf(y) == [year |-> y, ask |-> {"groups", "results", "published"}, got |-> NoCounts]

\* currentDrawYear, first: the year open for registration.
FindOpen ==
  /\ reading # None /\ reading.ask = {"open"}
  /\ reading' = IF OpenYears # {} THEN CountsOf(Latest(OpenYears))
                ELSE [reading EXCEPT !.ask = {"latest"}]
  /\ UNCHANGED <<year, draw, announced, page, before, quiet>>

\* currentDrawYear, second: the latest year there is; with none, no counts.
FindMostRecent ==
  /\ reading # None /\ reading.ask = {"latest"}
  /\ LET y == Latest({z \in Years : Exists(z)}) IN
     reading' = IF y # None THEN CountsOf(y) ELSE [reading EXCEPT !.ask = {}]
  /\ UNCHANGED <<year, draw, announced, page, before, quiet>>

\* countsFor: one of the queries that run side by side.
Count(query) ==
  /\ reading # None /\ query \in reading.ask
  /\ LET y == reading.year IN
     reading' = [reading EXCEPT !.ask = @ \ {query},
       !.got = CASE query = "groups"    -> [@ EXCEPT !.groups = DrawGroups(y, Territory)]
                 [] query = "results"   -> [@ EXCEPT !.results = Results(y, Territory)]
                 [] query = "published" -> [@ EXCEPT !.published = Published(y, Territory)]]
  /\ UNCHANGED <<year, draw, announced, page, before, quiet>>

Answer ==
  /\ reading # None /\ reading.ask = {}
  /\ page' = [year |-> reading.year, groups |-> reading.got.groups,
              published |-> reading.got.published,
              unpublished |-> reading.got.results - reading.got.published]
  /\ reading' = None
  /\ UNCHANGED <<year, draw, announced, before, quiet>>

Next ==
  \/ YearMoves \/ DrawMoves
  \/ \E y \in Years, c \in Communes : Announce(y, c)
  \/ Open \/ FindOpen \/ FindMostRecent
  \/ \E query \in {"groups", "results", "published"} : Count(query)
  \/ Answer

Spec == Init /\ [][Next]_vars

-----------------------------------------------------------------------------
(***************************************************************************)
(* Properties.                                                             *)
(***************************************************************************)
TypeOK ==
  /\ year \in [Years -> {None, "DRAFT", "REGISTRATION_OPEN", "REGISTRATION_CLOSED"}]
  /\ \A y \in Years : draw[y] \in [Communes -> Statuses \cup {None}]
  /\ announced \subseteq Years \X Communes
  /\ \A pair \in announced : pair[2] \in Drawn(pair[1])
  /\ Cardinality(OpenYears) <= 1
  /\ page # None => page.year \in Years \cup {None}

\* If nothing was done while it was counted, a dashboard is exact, and of the
\* year that is open, if one is.
QuietIsExact ==
  page # None /\ quiet =>
    /\ OpenYears # {} => page.year \in OpenYears
    /\ page.year = None => \A y \in Years : ~ Exists(y)
    /\ page.year # None =>
         /\ page.groups = DrawGroups(page.year, Territory)
         /\ page.unpublished = Results(page.year, Territory) - Published(page.year, Territory)

\* shared/src/admin-console: the results awaiting a decision are a number of
\* concluded draws.
AwaitingIsANumber == page # None => page.unpublished >= 0

\* admin-console.service: with no year open, the year people are still working
\* on is the one that just ended.
TheYearThatJustEnded ==
  page # None /\ quiet /\ OpenYears = {}
    /\ (\E y \in Years : year[y] = "REGISTRATION_CLOSED")
    => year[page.year] = "REGISTRATION_CLOSED"
==============================================================================
