--------------------------------- MODULE Pages ---------------------------------
(***************************************************************************)
(* What people look at, and act on, while others change it: the form of a  *)
(* citizen (RegisterForm), the pages of one draw (DrawConsole), the        *)
(* batches of a year (Batch), the console's counts and listings            *)
(* (Dashboard, Listing), the public pages of a draw and of the results     *)
(* (DrawWatch, PublicResults), and the scripts that take data back         *)
(* (DevScripts).  They keep separate state; what each promises is put      *)
(* together here, for any values of their constants.                       *)
(*                                                                         *)
(* DrawConsole and Batch come in several settings, records of the values   *)
(* of their constants; `setting' names the one there is.                   *)
(***************************************************************************)
EXTENDS Integers, FiniteSets

CONSTANTS
  Nothing, Awaited,                                                 \* no value; not there yet
  Births, Ids, Places, Days, FormYear,                              \* RegisterForm
  Consoles,                                                         \* DrawConsole
  Batches,                                                          \* Batch
  Calendars, Towns, Territory,                                      \* Dashboard
  StatusFilters, Texts, ListRows, RowsPerPage,                      \* Listing
  Watched, Polls, MaxFailures,                                      \* DrawWatch
  Announcing, YearHeld, Followers, Visitors, Amended, ResultsPerPage, \* PublicResults
  DrawnYears, TownDraws, Entries, People, YearDrawn, DrawFor, OccupantsOf, OldRecords,
  MayCorrect, MaxFreezes                                            \* DevScripts

VARIABLES
  setting,
  form, stepIndex, day, rendered, registration, loaded, asked, sent, told,      \* RegisterForm
  draw, page, editor, last,                                                     \* DrawConsole
  stage, inFlight, run, year, dialog, previews, audit, openings, faults,        \* Batch
  calendar, draws, announced, reading, dashboard, before, quiet,                \* Dashboard
  filters, settled, requests, shown,                                            \* Listing
  watched, row, at, visible, loading, failed, hidden, polling, armed, handle, asking, answer,
  failures,                                                                     \* DrawWatch
  feed, outcome, listCopy, copy, list, result,                                  \* PublicResults
  theYear, drawOf, pool, resultOf, standing, hasWon, legacy, ledger, trail, froze,
  script                                                                        \* DevScripts

ofForm == <<form, stepIndex, day, rendered, registration, loaded, asked, sent, told>>
ofConsole == <<draw, page, editor, last>>
ofBatch == <<stage, inFlight, run, year, dialog, previews, audit, openings, faults>>
ofDashboard == <<calendar, draws, announced, reading, dashboard, before, quiet>>
ofListing == <<filters, settled, requests, shown>>
ofWatch == <<watched, row, at, visible, loading, failed, hidden, polling, armed, handle, asking,
             answer, failures>>
ofResults == <<feed, outcome, listCopy, copy, list, result>>
ofScripts == <<theYear, drawOf, pool, resultOf, standing, hasWon, legacy, ledger, trail,
               froze, script>>

RegisterForm == INSTANCE RegisterForm WITH
  CommunesOf <- Places, Year <- FormYear, None <- Nothing

DrawConsole(s) == INSTANCE DrawConsole WITH
  Pages <- Consoles[s].pages, National <- Consoles[s].national, Editors <- Consoles[s].editors,
  Winners <- Consoles[s].winners, Positions <- Consoles[s].positions,
  Spots <- Consoles[s].spots, Draw0 <- Consoles[s].draw, MaxVersion <- Consoles[s].edits,
  None <- Nothing, Loading <- Awaited

Batch(s) == INSTANCE Batch WITH
  Admins <- Batches[s].admins, Processes <- Batches[s].processes,
  ServedBy <- Batches[s].servedBy, Kinds <- Batches[s].kinds, Draws <- Batches[s].draws,
  YearOf <- Batches[s].years, Stage0 <- Batches[s].stages, Uncovered <- Batches[s].uncovered,
  Unfillable <- Batches[s].unfillable, MaxOpenings <- Batches[s].openings,
  MaxFaults <- Batches[s].faults, asked <- previews, None <- Nothing

Dashboard == INSTANCE Dashboard WITH
  Years <- Calendars, Communes <- Towns, year <- calendar, draw <- draws, page <- dashboard,
  None <- Nothing

Listing == INSTANCE Listing WITH
  Statuses <- StatusFilters, Rows <- ListRows, PageSize <- RowsPerPage, None <- Nothing

DrawWatch == INSTANCE DrawWatch WITH
  Communes <- Watched, Requests <- Polls, draw <- watched, copy <- row, shown <- visible,
  asked <- asking, None <- Nothing

PublicResults == INSTANCE PublicResults WITH
  Communes <- Announcing, Year <- YearHeld, Readers <- Followers, PageSize <- ResultsPerPage,
  None <- Nothing

DevScripts == INSTANCE DevScripts WITH
  Years <- DrawnYears, Draws <- TownDraws, Applications <- Entries, YearOf <- YearDrawn,
  DrawOf <- DrawFor, Occupants <- OccupantsOf, Live <- FALSE, year <- theYear, draw <- drawOf,
  result <- resultOf, application <- standing, None <- Nothing

ASSUME PagesAssumption ==
  /\ RegisterForm!FormAssumption
  /\ \A s \in DOMAIN Consoles : DrawConsole(s)!ConsoleAssumption
  /\ \A s \in DOMAIN Batches : Batch(s)!BatchAssumption
  /\ Dashboard!DashboardAssumption
  /\ Listing!ListingAssumption
  /\ DrawWatch!WatchAssumption
  /\ PublicResults!ResultsAssumption
  /\ DevScripts!ScriptsAssumption

------------------------------------------------------------------------------
\* The form sends nothing that the server's own rules refuse of people it does not know
\* yet, a birthday between the filling in and the arrival included: no review is shown of an
\* answer that is missing or has come to be wrong.
SentIsAccepted ==
  RegisterForm!TypeOK /\ RegisterForm!ReviewIsComplete /\ RegisterForm!SentIsAccepted

\* What somebody confirmed is what is executed, and the answer recorded of a reserve is for
\* the place the page offered, whatever happened behind the page.
ExecutesAsShown == \A s \in DOMAIN Consoles : setting = s =>
  /\ DrawConsole(s)!TypeOK
  /\ DrawConsole(s)!ExecutesAsShown /\ DrawConsole(s)!AnswersForThePlaceShown

\* However many batches run, in as many processes, a draw is acted on once, in its year,
\* and none is left marked as in hand by a batch that is over.
DoneOnce == \A s \in DOMAIN Batches : setting = s =>
  /\ Batch(s)!TypeOK
  /\ Batch(s)!DoneOnce /\ Batch(s)!NeverAnotherYear /\ Batch(s)!MarksAreLive

\* A table shows what was last asked for, whatever the order in which answers arrive, and a
\* dashboard behind which nothing happened shows what is the case.
ShownIsAsked ==
  /\ Listing!TypeOK /\ Listing!ShownIsAsked
  /\ Dashboard!TypeOK /\ Dashboard!QuietIsExact

\* A page in view that still waits for something has a request on its way or a timer that
\* will send one, and says that it watches only then.
NeverForgotten == DrawWatch!TypeOK /\ DrawWatch!NeverForgotten /\ DrawWatch!SaysItWatches

\* A page that says there is no result is right at that moment, whatever caches keep, no
\* page shows a result that is not announced, and no page of the list is past its end.
NotFoundIsTrue ==
  /\ [](PublicResults!TypeOK /\ PublicResults!NothingUnannounced /\ PublicResults!NeverPastTheEnd)
  /\ PublicResults!NotFoundIsTrue

\* A draw that was taken back can be drawn again, whatever draws of whatever years were
\* taken back with it: no row of an earlier execution bars the next one (a correction or an
\* import may), and nobody in it is kept out by the mark of a win that is gone; a status
\* tells whether there is a pool, and of the other draws nothing is undone.
DrawableAgain ==
  /\ [](/\ DevScripts!TypeOK /\ DevScripts!StatusTellsPool
        /\ DevScripts!NoRowLeftBehind /\ DevScripts!MarkMeansWin)
  /\ DevScripts!OthersUntouched

===============================================================================
