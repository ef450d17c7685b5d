# Hajj-Lottery: a verification project in TLA+

Hajj-Lottery draws the pilgrims of each commune by lot.  A national administrator
opens a draw year, citizens register alone or in pairs, an administrator freezes the
eligible applications of a commune into a pool, the lottery draws winners and
reserves from it, the result is published, and places that winners give up are
offered to the reserves in the order the lottery drew them.  The server is an
Express application over PostgreSQL (Prisma), the client a React application that
shows what the server says; every rule that matters is kept by transactions,
conditional updates, unique indexes and triggers rather than by anything in the
process.

This directory holds models of that system, the TLC runs that check them on small
instances, and proofs of the main properties of its core for every instance.

## 1. Inventory

### How the system works, as far as the models are concerned

- Requests run concurrently.  A handler reads, decides, and then writes in one
  `$transaction`; the isolation level is PostgreSQL's default, READ COMMITTED.
  **What a handler read before its transaction may be stale when it writes**, and
  inside one, each statement sees what was committed when it ran.
- A transaction commits whole or not at all, so a crash or a refusal writes nothing.
- Races are settled by *claims*: `updateMany` whose `where` names the state the row
  must still be in, with the count of changed rows checked; and by unique indexes.
- The records of a concluded lottery (pool, entries, result, winners, selection
  events, publication, abandonment) are immutable by trigger.
- The server has no background work and no timer: what happens next is always
  somebody's request.  That is why almost nothing on the server *must* eventually
  happen.  The client has timers (the watch of a draw, the delay of a typed filter).
- A page of the console never hears of anybody else's acts: it shows what it loaded.

### Components

| Component | State it keeps | Operations | What makes it correct |
| --- | --- | --- | --- |
| Draw configuration (`draw-configuration.service.ts`, `draw-lifecycle.ts`) | `draw_years.status`; `commune_draws.status`, `.allocated_spots`, `.updated_at` | create, patch status, patch allocation | lifecycles move forward; LOCKED and COMPLETED are never an administrator's doing; a locked allocation never moves |
| Registration (`registration.service.ts`, `participant.service.ts`) | `participants`, `applications` | register | one application per person and year; a refusal leaves nobody behind; every one lawful |
| Eligibility (`eligibility-rules.ts`, `eligibility.service.ts`) | none | judge on registration and again at the freeze | the refusal does not tell one applicant about the other |
| Weights (`weight-rules.ts`, `participation-streak.ts`, `weight.service.ts`) | `applications.calculated_weight` | walk a history back, freeze a weight | nothing bridges a gap, an unproven year or a win; a weight is written once |
| Pool freeze (`draw-pool.service.ts`, `draw-pool-hash.ts`) | `draw_pools`, `draw_pool_entries` | validate, store weights, freeze; fingerprint | one pool per draw, whole, in agreement with the draw it locks; a changed row is noticed |
| Lottery engine (`lottery.ts`, `lottery.service.ts`) | none; a pure function of the pool and random values | draw | exact quotas, fair shares, replayable |
| Execution (`draw-execution.service.ts`) | `draw_results`, `draw_winners`, `draw_reserves`, `winner_archive`, `participation_history` | execute | one result per draw, every pooled application settled, all records agree |
| Reserves (`reserve.service.ts`) | `winner_abandonments`, lifecycle columns of `draw_reserves` | abandon, call, decline, promote | order of the lottery, one holder per place, one win per person |
| Publication (`result-publication.service.ts`, `result-integrity.ts`) | `result_publications` | publish | only a drawn, consistent result becomes public, once |
| Participation history (`participation-history.service.ts`) | `participation_history` | create, correct | the row is what the last audited correction says, with the win of a promotion since |
| Approvals (`approval.service.ts`) | `approval_requests` | request, approve, reject, cancel | decided once, by somebody else, and applied with the decision |
| Legacy import (`legacy-import.service.ts`, `import-validation.ts`, `csv.ts`, `import-template.ts`) | `import_batches`, `import_rows`, `legacy_winners` | read, judge, upload, stage, approve, reject, execute | a register is judged whole, by somebody else, written once, and never over what is there |
| Batch freeze and execution (`batch-*.service.ts`, the console's dialog) | a set of draws at work, in the process | preview, confirm, loop over the single operations | a draw is acted on once, whoever else is at it |
| Administrator accounts (`admin-account.service.ts`, the bootstrap script) | `users` | create, change scope, deactivate, bootstrap | a deactivation outlives every call being served |
| Sign-in and sessions (`auth.service.ts`, `require-authenticated-user.ts`, `login-rate-limit.ts`, `client/lib/auth.tsx`) | `sessions`; the cookie; a tab's answer to who it is; a counter of failures | sign in, check, sign out | whoever was told that a session is over is served nothing more on it |
| Authorization scope (`authorization.service.ts`, `scope.ts`) and audit trail (`audit.service.ts`) | `audit_logs` and the scope each row is filed under | read within reach; file an event | whoever reaches a commune sees every event about it |
| Public results and lookup (`public-results.service.ts`, `application-status.service.ts`, their caches and limits; `client/lib/draw-watch.ts`) | shared caches; counters; the watch of a page | list, show, look up, watch | nothing is told early; an absence is never kept; a watch does not die |
| Console queries (`admin-console.service.ts`, the listings) | the page's filters and rows | dashboard, listing | what is shown is what was asked for |
| Operator scripts (`server/src/scripts`) | all of the above | take draws back, move statuses, reopen a year | what is taken back can be drawn again, and the other draws stay as they are |
| Client | the registration wizard, the pages of a draw, the dialogs | fill in, confirm | what is sent is what was shown, and what the server accepts |

### What interacts with what

- The *year* gates registration (OPEN) and freezing (CLOSED).
- A *commune draw* gates registration (DRAFT, READY), allocation edits (DRAFT,
  READY), freezing (READY) and execution (LOCKED).
- A *freeze* reads applications, people, the ledger and the allocation, writes weights,
  and then the pool and LOCKED.
- An *execution* reads the pool, writes COMPLETED, the result, application statuses
  and the facts about people: archive, exclusion, ledger.
- A *promotion* of a reserve, an *import* of earlier winners and a *correction* of the
  ledger write the same facts about people.
- A *publication* counts rows that all of the above wrote, one statement at a time.
- A *status lookup* and the *public pages* read behind caches while all this goes on.
- A *script* undoes what a freeze and an execution wrote, with triggers and foreign
  keys off.

### The hard behaviours

They are listed in `PROJECT.json` under `hazards`, each at its line.  In short:
decisions on rows read before a transaction (status patches, allocation patches,
freezes, corrections, deactivations, imports planned before they are written);
statements of two transactions interleaving (registrations, freezes, publications);
a transaction that waits for one that waits for it (two couples' registrations);
pairs, which are one entry and two pilgrims; the boundary arithmetic of the lottery
and of a birthday; a place that is given up, offered, refused and offered again; the
same person reached from two draws and an import; a process that dies between two
statements of a freeze or two chunks of an import; answers that overtake each other on
their way to a page; caches; what a tab believes about a cookie it shares.

## 2. Modules

| Module | What it is |
| --- | --- |
| `DrawLifecycle` | the status sets, transition tables and predicates of `shared/src/draw-configuration.ts` and `lib/draw-lifecycle.ts` |
| `DrawPromise` | abstract: terms fixed once, drawn once from those terms, announced after that |
| `DrawCycle` | years, commune draws, registration, freeze, execution and publication under concurrent requests; implements `DrawPromise` |
| `Lottery` | the sampling loop over a frozen pool |
| `PlaceBook` | abstract: a place is held, vacant, offered or filled, and reserves are asked in order |
| `Reserves` | abandonment, calling, declining and promoting, beside other draws and imports; implements `PlaceBook` |
| `EligibilityRules` | the rules of an application: pure operators |
| `Registration` | submissions of one year, statement by statement, with deadlocks, retries and unique indexes |
| `PoolFreeze` | the weight of an application, and a freeze, statement by statement: two dry runs, the weights between them, the claim; with crashes, and status patches judged before they are written |
| `Snapshot` | the fingerprint of a pool, what may become of its rows, and the check before a draw |
| `Settlement` | what an execution, a promotion, an import and a correction write about people, and the counts of a publication |
| `Corrections` | one row of the ledger, requests for corrections, decisions, and direct corrections; the promotion of a reserve, which grants the row a win |
| `ImportFile` | the reader of CSV files against a writer that follows RFC 4180 |
| `ImportRules`, `ImportVerdicts` | the passes that judge a register's lines; any register with a few cells misread, staged |
| `LegacyImport` | the life of import batches beside draws, registrations and corrections; staging that may die |
| `Batch` | the batch dialogs, their previews and the two loops, in one process or several |
| `DrawConsole` | the pages of a commune's draw and the allocation dialog |
| `AdminAccounts` | accounts and sessions under concurrent calls |
| `SignIn` | the tabs of a browser, their cookie and the session, with answers in any order and lost |
| `Reach` | where records, requests, imports and events are filed, and who reaches them, while accounts move |
| `Dashboard`, `Listing` | the console's counts of a moving system; a listing with filters, a delay and answers in any order |
| `DrawWatch` | a page that polls the status of a draw through caches |
| `StatusLookup` | the lookup of an application: two counters, two reads, and the draw in between |
| `PublicResults` | the list of announced results and each result, through caches that keep successes |
| `RegisterForm` | the registration wizard, over midnight |
| `DevScripts` | the scripts that take draws of any years back, beside registrations, draws, imports and corrections |
| `Records`, `Access`, `Pages` | compositions, for any constants: `Corrections` and `Settlement`; `SignIn`, `AdminAccounts`, `Reach` and `StatusLookup`; and what people look at, `RegisterForm` to `DevScripts` |
| `DrawCycleProofs`, `LotteryProofs`, `ReservesProofs`, `AdministrationProofs`, `PoolFreezeProofs`, `LegacyImportProofs`, `RegistrationProofs` | inductive invariants, theorems and proofs; `AdministrationProofs` of `Records` and `Access`, `DrawCycleProofs` of `DrawCycle` and `Pages` |
| `Induction` | lemmas: the least number, induction on numbers and on the size of finite sets, what sums are |
| `MCDrawCycle`, `MCApplications` | the instances of `DrawCycle` and `Registration` (`Lottery` and `Reserves` are checked as they stand) |
| `MCRules`, `MCRecords`, `MCAccounts`, `MCConsoles`, `MCProgress` | suites: the instances of the other modules, several side by side |

Operators whose comment begins with "Faulty" are not part of a specification.  Each
is a definition of its module as a plausible bug would have it, and is used only to
see that a property notices.  Some modules state, beside the properties the runs check,
what a document or a comment of the repository promises and the code does not keep;
section 4 lists them.

### Suites

The components of a suite move one at a time: the variable `observed` is chosen at the
start and names the one that moves, the others stay as they began.  A suite is therefore
the union of its components' state graphs and not their product, and each property of a
suite is a conjunction of properties of its components, each under the component's own
name.  A suite extends the modules that there are proofs about (`MCRules` `ImportVerdicts`, which
extends `LegacyImport`, and `Snapshot`,
`MCProgress` `PoolFreeze`, and `MCRecords`, `MCAccounts`, `MCConsoles` the compositions
`Records`, `Access` and `Pages`), so that the properties and the assumptions TLC evaluates
are the very definitions the theorems are about; it instantiates what else it checks.
`DrawConsole` and `Batch` come in several settings, records of the values of their
constants: `setting` is chosen at the start and names the one there is, in TLC's instance
and in the theorems alike.  Where components do interact, the interaction is inside a module, as the
environment's actions: `Reserves` has the executions and imports of elsewhere,
`LegacyImport` the executions, registrations and corrections, `Settlement` the imports,
corrections and promotions, `Corrections` the promotions, `PoolFreeze` the corrections,
wins and status patches, `StatusLookup` and
`PublicResults` the draw, `AdminAccounts` everything that touches a session.

### DrawCycle and the code

Tables are variables: `drawYear` and `communeDraw` are functions to rows,
`application` is the status column, `pools` and `results` are sets of rows,
`publications` the set of published draws.  `request[c]` is what handler `c` has read
and not yet used; `Clients` is the number of requests at work.

| Code | Actions |
| --- | --- |
| `createDrawYear`, `createCommuneDraw` | `CreateDrawYear`, `CreateCommuneDraw` (an insert under a unique index: one step) |
| `updateDrawYearStatus` | `BeginYearPatch` (`findUnique`, transition check), `CommitYearPatch` (update by id, under the single-open-year index) |
| `updateCommuneDraw` | `BeginDrawPatch` (`PatchAllowed` on the row read), `CommitDrawPatch` (conditional on `updated_at` when an allocation is in the body, unconditional otherwise) |
| `register`, `assertCommuneIsDrawing`, `createApplication` | `BeginRegister`, `CheckCommuneIsDrawing`, `CommitRegister` |
| `validate`, `freeze` | `BeginFreeze` (draw and year), `ReadCandidates` (pool, applications), `CommitFreeze` (claim READY, insert the pool as validated) |
| `execute` | `Execute` (one transaction that reads and claims for itself) |
| `publishResult`, `publish` | `BeginPublish` (the controller's read), `CommitPublish` |
| any refusal, unique violation, crash | `Refuse` |

`updated_at` is a revision counter that every write moves.  Two writes in the same
millisecond would share a timestamp in PostgreSQL; the model does not.  A lottery is
any pair of winner and reserve sets that `Lottery` can give: exact quotas, disjoint,
from the pool (`Drawn`); `Lottery`'s property `ExactlyFilled` is what justifies it.

### Lottery and the code

One state per turn of the `while` loop of `weightedCapacitySample`: `Begin` is
`drawFrom` up to the call, `Select` one turn, `NextQuota` the step of the `for` loop,
`Finish` and `RefuseUnfillable` the two ends.  `phases` and `events` are the function's
results.  A random value is any value below the total (`randomInt` is external and
checked by `assertDrawnInRange`).  The entries' order is that of application ids.

### Reserves and the code

`reserve` holds the two lifecycle columns of a `draw_reserves` row.  Positions and
selection orders are numbers.  A call is three steps, the others one, since each of them
stands on a single conditional write whose row lock is held to the commit.  `archive`,
`legacy`, `excluded`, `application` and `ledger` are what a promotion writes;
`WinElsewhere` and `ImportLegacyWin` are the other writers of the same rows.  Only
draws the lottery can produce are considered: winners and reserves are as many pilgrims
(`DrawAssumption`).

### The rules and the code

`EligibilityRules` is pure operators: `EvaluateEligibility` gives the set of reasons, in
the order of `REASON_PRECEDENCE`, `RegistrationErrorFor` the answer a citizen gets.
`PoolFreeze!CalculateStreak` is the walk back over the years, a recursive function.
Dates are records of year, month and day.  `Snapshot` takes the digest to be the text
that is hashed, and an application's id to be its place in the order of all of them.
Between freeze and draw, entries are changed, exchanged, lost or read in another order,
one to an application (the unique index), and the row's spots are changed.
`ImportRules` has one operator per pass of `import-validation.ts`; a cell is blank,
unreadable or one of a few values, and the four name columns are one.  `ImportFile` is
`parseCsv` over characters as far as the reader tells them apart: `ReadCharacter` is one
turn of its loop, `Turns` the recursive function of all of them.  A limit that is passed is
remembered to the end of the file, where the code throws on the spot: the file is refused
either way.  The writer is not the repository's: it writes cells character by character as
RFC 4180 has them, plain or quoted, with or without a byte order mark, and the file is
read as it stands after every addition.

### Registration, PoolFreeze and the code

Each request's transaction is a sequence of statements, one step each.  In
`Registration`, a person's row that another open transaction has inserted blocks the
second insertion of the same national id until the first ends, which may close a circle:
`Deadlocked` is PostgreSQL's answer to it, a failure of one transaction with all it
created.  A unique violation becomes `ALREADY_APPLIED`, except that of a reference,
which is drawn again.  In `PoolFreeze`, `Work` is the next statement of a freeze: of the
first dry run, of the weights, of the second dry run, or the claim (`Conclude`); `Crash`
ends the process with what it committed.  A status patch is `ReadForPatch`, which finds the
row and judges it, and `WritePatch`, which writes by id whatever became of the row: a freeze
may come in between, and the draw is then unlocked with its pool.  Applications that arrive
late and changes of the allocation are in `DrawCycle`.

### Settlement, Corrections, LegacyImport and the code

In `Settlement`, an execution, an abandonment and a promotion are single steps, as each
is one transaction on claimed rows (`DrawCycle` and `Reserves` have their races); a
publication is a step for each of its counts.  `Corrections` follows the calls of
`ApprovalService` and of the history controller, each read and each transaction a step;
`ReadExisting` is `correct()`'s read through another connection than its caller's
transaction; `Promote` is the one other writer of a row that is there, `promoteReserve`,
which sets `won` and is in the trail as a promotion only.  `LegacyImport` stages row by row in chunks (`Staging`, `FailStaging`,
`Crash`); executing an import is two steps, since it plans before it writes.

### The console, the public pages and the code

In `DrawConsole`, `Batch`, `RegisterForm`, `SignIn`, `Listing` and `DrawWatch` the
variables are the React state of a page (what it loaded, what is open, what was typed),
the requests on their way, and what the server holds.  A page acts on what it shows, the
server on what it has.  `Batch` has a set of draws in flight for each process, as the
services keep it in memory.  `DrawWatch` keeps the handle of the last timer apart from
the timer itself, since the code clears the one and asks.  Caches (`PublicResults`,
`DrawWatch`) hold a copy until it expires, at any time.  `Reach` files an event where
`scopeOf...` computes it at that moment, and an account's requests go on with the reach
they were authenticated with.  `DevScripts` reads first and then undoes, in one step: pools, results and rows of a draw by
their ids and years, the mark of a winner by person alone, as the scripts do.  A person may
apply in every year, so somebody whose draw is taken back may hold a place of another.
`Batch`'s loop works on the places of its list in order; `PublicResults`' list is the
announcements in the order of the query, and a page of it the rows whose numbers in it
`skip` and `take` leave.

## 3. Runs

| Run | Instance | Shows |
| --- | --- | --- |
| `draw_concurrent` | 1 year, 1 draw, three applications (one a pair), 2 requests at a time, 2 places, 4 edits | `TypeOK`, `StatusIsBacked`, `OutcomesFinalized`, `FrozenAllocation`, `KeepsPromise` under every interleaving |
| `lottery` | 4 entries, weights 1 to 2, 1 to 3 places: every pool and every random value | `ExactlyFilled`, `RefusedOnLastPlaceOnly`, `FairShares`, `Replayable`, `Terminates` |
| `reserves` | two winning pairs, reserves single-pair-single, 2 calls at a time | `TypeOK`, `PromotionIsWhole`, `PromotedOnceInLife`, `RoomForEveryCall`, `KeepsPlaceBook` |
| `rules` | pools of up to two entries, their rows changed again and again; registers of two lines with a cell misread; files of seven characters, with 3 rows of 2 cells of one character as the limits; `LegacyImport`: 2 registers that have one person win in different years | `TamperingIsNoticed`, `OneStory`, `ReadBack`, `WholeRegister`, `SpendsAndKeeps` |
| `records` | `Corrections`: 3 administrators, 2 requests, 3 calls and a promotion. `Settlement`: 2 places, a pair and two others | `ApprovedByTwo`, `LedgerIsLastAudited`, `OneStory` |
| `applications` | `Registration` of three people by 2 submissions with 7 forms | `NamesNeither`, `OneLawfulApplication` |
| `accounts` | `SignIn`: 2 tabs, 2 wrong passwords. `AdminAccounts`: 2 accounts, 2 sessions, 2 calls. `Reach`: 2 administrators, one moved, and an upload; and again with listings. `StatusLookup`: 2 visitors behind one address, 2 applications | `OnlySignedIn`, `TrailReachesTerritory`, `NoEarlyOutcome` |
| `consoles` | `RegisterForm` over two birthdays; `DrawConsole` before and after the draw; `Batch` in two processes, in one, and with both kinds; `Dashboard`; `Listing`; `PublicResults` by result and by list; `DrawWatch`; `DevScripts`: 2 years, 3 applications of 3 people, one of them in both years, whose win is imported and whose rows are corrected, 3 freezes | `SentIsAccepted`, `ExecutesAsShown`, `DoneOnce`, `ShownIsAsked`, `NeverForgotten`, `DrawableAgain`, `NotFoundIsTrue` |
| `progress` | `PoolFreeze` of a couple, one of them with a gap in the years, and a man by 2 freezers, beside a late verification, a win elsewhere and status patches, and the same undisturbed but for a crash and patches between DRAFT and READY; `Registration`, `DrawWatch`, `SignIn` and `SignIn` with losses, each with the fairness it states | `StreakIsUnbroken`, `FrozenForGood`, `FrozenInTheEnd`, `EveryoneAnswered`, `AnnouncementArrives` |
| `draw_pool_locks_draw` | as `draw_concurrent` | the documentation's `PoolLocksDraw` fails |
| `rules_one_win` | the imports of `rules` | the documentation's `OneWinPerLife` fails |
| `accounts_way_in` | as `accounts` | the comment's `WayIn` fails |

What each property says, and of which code, stands before it in its module.  Those of
the suites carry the type invariants of their components with them.

Why these bounds are enough.  Every race on the server is between one stale reader and
one writer, so two requests show it; a third only repeats one of the roles.
(`Corrections` has three calls: a request, its decision, and a correction that goes
behind both.)  One draw suffices for what concerns a single draw; where years or
communes must not be mixed up (`Batch`, `PublicResults`, `DevScripts`, `Reach`) there are two.
`MaxSpots` 2 admits a pair and an odd allocation.  `MaxRevision` bounds administrative
edits of a draw, in the guard of `BeginDrawPatch`: it leaves room for a configuration, an
edit overtaken by another and a freeze.  Four entries admit winners, reserves and
leftovers of both sizes, and pools that are too small or cannot be filled.  Three reserves
over two places admit a refusal, a second offer and a list that runs out.  Two lines of
a register admit a pair that contradicts, repeats or completes itself; seven characters
admit a quoted cell with a doubled quote or a line end inside.  The bounds in guards are
`MaxCrashes`, `MaxReopenings`, `MaxCorrections`, `MaxOpenings`, `MaxFaults`, `MaxFailures`,
`MaxCounted`, `MaxFreezes`, `MaxVersion`, `Guesses`: each lets what it counts happen at
least once, and what depends on a limit (two counters, `MaxAttempts`) go one past it.

`DrawableAgain` is checked with the amendments that may come between a freeze and a script,
imported and corrected records, and with draws of two years that share a person.  It says
what the scripts do keep: no row that an execution wrote bars the next one (one that was
corrected or imported may), and whoever has the mark of a winner holds a place of some year
or an imported win.  That winners keep the mark it does not say (`WinMeansMark`, section 4).
`FrozenForGood` is checked with patches written on a draw that a freeze has locked: the
pool stands, whole, and a draw that is locked has one; that a draw with a pool is locked is
what `draw_pool_locks_draw` refutes.  In the first instance of `PoolFreeze` no process
crashes: a request that is given up is one that does not go on.

No run checks for deadlock: the system is at rest whenever nobody asks anything, and
every bounded instance comes to the end of its records.

Requests are symmetric (`SYMMETRY`) in runs without liveness properties.

### Fairness

Each module assumes of its own actors only what the code makes them do by themselves.

- `Lottery`: a draw that has begun goes on, since it is a loop of one function call.
  Whether anybody begins it, or tries again after a refusal, is a person's decision.
- `PoolFreeze`: a freeze that is running takes its next statement, unless the process
  dies; and, for `FrozenInTheEnd`, the year is closed, the draw is patched to READY
  (`ReadForPatch`, `WritePatch`) and the freeze asked for again.  These last are people; the property says that nothing the code
  left behind then stands in their way.
- `Registration`: a request that was accepted is served (a blocked one, once it is not
  blocked).
- `DrawWatch`: a timer that is armed fires, a request is served and its answer arrives or
  fails, a cached copy is renewed when it is old.
- `SignIn`: the check of a session and the calls of a console in use are served and
  answered.  In the instance with losses, an answer may be lost instead.

## 4. What was found

Each of these is a run that TLC must find violated, with the quotation in
`PROJECT.json`.

- **A frozen pool whose draw is unlocked** (`draw_pool_locks_draw`).  A status patch is
  judged on the row read before and written unconditionally, so one overtaken by a
  freeze puts the draw back to DRAFT, READY or CANCELLED, with its pool in place.
  Nothing is drawn wrongly after that (`KeepsPromise` still holds), but the draw cannot
  go on: freezing answers that it is frozen, executing that it is not locked.
- **Two wins in a life** (`rules_one_win`).  A register imported after the freeze makes
  somebody of the pool a winner of an earlier year; the execution looks at no legacy
  winner and sets the exclusion whatever it was.
- **Nobody left to sign in** (`accounts_way_in`).  The last national administrator is
  counted before the transaction that deactivates.

The following were met in the same way.  Each is a named property of its module, which
an instance of the module that has the case in it violates: two open years for
`TheYearThatJustEnded`, amendments where the table says so, and so on.

| Property | What is promised, and where the code departs from it |
| --- | --- |
| `DrawCycle!TermsAgree` | the pool's allocation is the draw's (`schema.prisma:503`): a freeze writes what it validated, and claims on the status alone |
| `DrawCycle!NoRouteBack` | a closed registration stays closed (`draw-configuration.ts:62`): a year's update is by id alone |
| `DrawCycle!PoolHoldsEveryEligible` | the pool holds every eligible application (`draw-pool.md:91`): one can arrive between validation and claim |
| `Reserves!NeverMorePilgrimsThanAllocated` | a promotion never exceeds the allocation (`pilgrim-capacity.md:219`): places are counted in entries |
| `Lottery!RetryMayFill` | a refused draw stays recoverable (`pilgrim-capacity.md:119`): a pool of pairs strands an odd allocation at every try |
| `Registration!AlreadyAppliedIsTrue` | "already applied" means so: every unique violation is told so, that of a national id entered meanwhile included |
| `PoolFreeze!PoolAsReconciled`, `NothingLeftBehind`, `LoserGetsThePool` | a pool is never built from stale numbers, a failed freeze leaves nothing, the second of two gets the pool (`draw-pool.service.ts:130`, `draw-pool.md:175`, `:169`) |
| `PoolFreeze!EventuallyFrozen`, with amendments | a record verified after a freeze that failed leaves a stored weight stale for good |
| `Settlement!LedgerCountIsExact`, `TotalsOfARealDraw`, `EventuallyDrawn`, `PublishedAsVerified` | a corrected or imported ledger row, or a pair's place filled by one more, stops an announcement or an execution for good; counts are of different moments |
| `Corrections!OnlyWhatWasAsked`, `TrailReconstructs` | a correction writes back every field it read, and so may take the win of a promotion it did not see; the trail's `before` may never have been |
| `ImportVerdicts!RepeatsOnlyWarn`, `RecordedOnlyWarns`, `OneIdentity` | a winning line typed twice, and a win recorded already, block; lines of one new person are not compared on identity |
| `ImportFile!RowNumberIsTheLine`, `LegacyImport!OnlyTableTransitions` | row numbers fall behind after a line break in a cell; `fail()` takes a transition that is not in the table |
| `AdminAccounts!GrantedByNational` | a demoted or disabled account's call, waiting, still grants national access |
| `Batch!ConfirmsAFreshPreview`, `SkippedWasDone`, `BatchIsOnTheTrail` | a late preview of another opening is confirmed; a draw in hand is told as done; a crash leaves no batch row |
| `DrawConsole!FreezesAsShown`, `NoBlindOverwrite` | a freeze names no version; after a conflict the typed value is sent with a fresh token |
| `DrawWatch!OneRequestAtATime`, `AnnouncedForGood`, `StopsForGood`, `ShowsItsCommune` | a tab shown again starts a second chain; older answers take an announcement back; a settled watch asks again; a status outlives its address |
| `StatusLookup!SelectedHoldsAPlace` | a winner who gave up the place is told "selected" for good |
| `PublicResults!NoRowTwice`, `PublishedNeverChanges` | the list moves under whoever pages; a published result is amended while caches keep it |
| `Reach!FiledWhereItTouches`, `AuthorMayWithdraw` | a moved uploader's import is filed elsewhere; a moved author cannot withdraw |
| `Dashboard!AwaitingIsANumber`, `TheYearThatJustEnded` | a difference of two counts of different moments may be −1; a draft of the next year hides the last one |
| `SignIn!SignedOutIsTrue`, `LabelTellsWhose` | a late check signs a live session out of its tab; a tab names the account before |
| `Listing!PageOfItsFilter` | a page turned while a text waits is kept for the text |
| `DevScripts!WinMeansMark`, `OnlyTheirRowsLeave`, and `StatusTellsPool` in live use | a reset unmarks everybody in the pools it read, also who won in another year or by an import, and they may register and win again (`reset-commune-draw.ts:133`, `reset-commune-draws.ts:157`); it takes a publication's audit row along; a draw executed meanwhile keeps its result |

## 5. What is proved

The proofs hold for every value of the constants: any number of years, draws,
applications, entries, people, pages and requests at a time, under the named assumptions
of the modules, which TLC evaluates.  They give the constants their types, keep `None` and
the marks of an unreadable cell apart from values, and state what the data are:

- winners and reserves are as many pilgrims (`DrawAssumption`, from `ExactlyFilled`);
- a draw year is none before the first of the lottery, and an application is somebody's
  (`FreezeAssumption`: `validation/draw-configuration.ts:28` takes no year before 2000,
  and every application has its applicant);
- a pool is finite, and nobody is in two of its applications (`RecordsAssumption`: the
  unique indexes that `OneLawfulApplication` is about);
- somebody is appointed national administrator to begin with, a commune lies in one
  wilaya, and the windows of the lookup's counters count one for each visitor past their
  limit (`AccessAssumption`);
- days pass in order, a commune of the form lies in one wilaya, two rows of a listing differ
  in rank, a batch's list has each draw once, and there is a commune whose draw was held
  (`PagesAssumption`);
- an entry of a pool has its fields, with a number for its application and its weight
  (`SnapshotAssumption`), and somebody the database knows has an outcome of each year
  (`VerdictAssumption`, from the unique index of the ledger);
- the reader's limits are positive, and a character that means nothing to it is none of
  those that do (`LimitAssumption`).

`OnlyTheSignedInAreServed` also has the hypothesis `Production`: outside production the
bootstrap script turns a disabled account on again.

| Theorem | States, for every value of the constants |
| --- | --- |
| `DrawCycleProofs`: `TypeCorrect`, `StatusBacked`, `OutcomesCorrect`, `AllocationFrozen`, `PromiseKept` | `TypeOK`, `StatusIsBacked`, `OutcomesFinalized`, `FrozenAllocation`, `KeepsPromise` (a refinement) |
| `LotteryProofs`: `QuotasExactlyFilled`, `RefusalsJustified`, `ChancesAreFair`, `RecordReplays`, `SinglesAreEnough` | `ExactlyFilled`, `RefusedOnLastPlaceOnly`, `FairShares`, `Replayable`, `SinglesSuffice` |
| `LotteryProofs`, of `Snapshot`: `TheFrozenPoolIsDrawn` | `TamperingIsNoticed` |
| `ReservesProofs`: `TypeCorrect`, `PromotionsAreWhole`, `OnceInLife`, `RoomForCalled`, `PlaceBookKept` | `TypeOK`, `PromotionIsWhole`, `PromotedOnceInLife`, `RoomForEveryCall`, `KeepsPlaceBook` (a refinement) |
| `DrawCycleProofs`, of `Pages`: `TablesShowWhatWasAsked`, `AWatchGoesOn`, `ABatchActsOnce`, `APageExecutesAsItShows`, `AFormIsSentWhole`, `ATakenBackDrawIsAsNew`, `AbsenceIsNeverRemembered` | `ShownIsAsked`, `NeverForgotten`, `DoneOnce`, `ExecutesAsShown`, `SentIsAccepted`, `DrawableAgain`, `NotFoundIsTrue` |
| `AdministrationProofs`, of `Records`: `ApprovalIsApplication`, `TwoAdministrators`, `TrailAgreesWithLedger`, `EverybodyHasOneStory` | `ApprovedByTwo`, `FourEyes`, `LedgerIsLastAudited`, `OneStory` |
| `AdministrationProofs`, of `Access`: `OnlyTheSignedInAreServed`, `TrailsReachTheirTerritory`, `NothingIsToldEarly` | `OnlySignedIn`, `TrailReachesTerritory`, `NoEarlyOutcome` |
| `PoolFreezeProofs`: `StreakCounts`, `StreaksAreUnbroken`, `PoolStaysWhole` | what a weight counts; `StreakIsUnbroken`; `FrozenForGood` |
| `LegacyImportProofs`: `RegistersAreWhole`, `SpendsOnceAndKeeps` | `WholeRegister`, `SpendsAndKeeps` |
| `LegacyImportProofs`, of `ImportVerdicts` and `ImportFile`: `ARegisterTellsOneStory`, `ARegisterIsReadBack` | `OneStory`, `ReadBack` |
| `RegistrationProofs`: `ApplicationsAreLawful`, `OthersAreToldTheSame`, `AnswersNameNeither` | `OneLawfulApplication`; what two applicants are told; `NamesNeither` |

Each proof has an inductive invariant, from which the theorems follow.  Where a module of
proofs is about one component it is `IInv`, and the theorem `Invariance` is
`Spec => []IInv`; `Corrections` has its own `IInv`, and the other components of `Records`,
`Access` and `Pages` theirs (`SettlementIInv`, `BatchIInv` and so on).  `Induction` has none: it is
lemmas on numbers, finite sets and sums.

`DrawCycleProofs` proves `Invariance`: `Spec => []IInv`.  None of the safety properties
is inductive alone, because a request in flight may act on something long gone:

- `PatchesAreJudged` says what a draw patch in flight may contain: a status
  that an administrator may set, and an expected version no newer than the row
  (`StatusIsBacked` and `FrozenAllocation` rest on it);
- `OnePool` and `DrawnFromPool`: a draw has at most one pool and one result, and the
  result was drawn from the pool;
- `PoolsAreLocal`: pools hold applications of their own draw, so that settling one
  draw cannot touch another's;
- with these, `TypeCorrect`, `StatusBacked`, `OutcomesCorrect` follow at once,
  `AllocationFrozen` from the invariant step by step, and `PromiseKept` by showing that
  each action is a step of `DrawPromise` or leaves its variables alone.

`ReservesProofs` has the same shape.  What makes the two safety properties of `Reserves`
and its refinement inductive:

- `CallsAreForVacancies`: a reserve that was ever called stands for an abandoned place;
- `OneReplacement`: no place has two reserves that have not declined it (the partial
  unique index);
- `CalledInOrder`: whoever stands before a called reserve was called;
- `CallsReadTrue`: what a call in flight has read stays true, because an abandonment is
  never undone and a called reserve never waits again (`NothingIsTakenBack`); only the
  two facts its conditional write checks once more may have changed;
- `ImportsExclude`: an imported win sets the exclusion that a promotion compares.

From it follow `TypeCorrect`, `PromotionsAreWhole` and `OnceInLife`; `RoomForCalled`, by
counting: called and accepted reserves stand for different abandoned places; and
`PlaceBookKept`: an abandonment is `GiveUp`, a written claim `Offer`, the two answers
`TurnDown` and `TakeUp`, every other step is unseen.

`LotteryProofs` proves the two properties of the quotas for every pool.  Its invariant is
`SelectedOnce` (the entries left are those not selected, and the lists have no
repetition), `PlacesAddUp` (pilgrims selected and places left make up the quota at work)
and `EndsForAReason`.  `QuotasExactlyFilled` is immediate from it.  `RefusalsJustified`
also needs that a pool of enough pilgrims cannot be exhausted with places left, so that
somebody is left, nobody fits, and the one place is too small for a pair.
`SinglesAreEnough` adds when a refusal cannot happen at all: as many single applications
as there are places (`SinglesSuffice`) leave somebody who fits at every turn.

`ChancesAreFair` is about a fold, the sum of the candidates' weights, and so needs
induction over data.  `Induction` has it without an operator as a parameter: a set of
numbers that holds 0 and every successor is `Nat`, from the least-number principle.  From it
follow what a sum over a finite set is, that one more element adds its weight, and that
sums of smaller sets are smaller.  The values that pick a candidate are then those from
the weight of the candidates before it on, as many as it weighs (`SharesOf`).
`RecordReplays` strengthens the invariant by what the record and the lists have to do
with each other: the events name both lists in order (`RecordNamesLists`), no reserve is
drawn before the winners are complete (`ReservesCome`), and each round follows from the
pool and from the events before it alone (`RoundsFollow`), which later rounds leave true.

`AdministrationProofs` first proves, from `AdminAssumption`, what `records` checks of corrections
and approvals.  A call acts on what it read several steps before, so its invariant says what
each phase of a call still knows:

- `CallMay`: whoever is about to correct is a national administrator, and, on a request,
  not its author, who never changes once it is made;
- `ClaimsHold`: a claim in flight holds a pending request, and no other claim holds it.
  This is what the row lock of the conditional update gives, and what makes an approval
  the request's only decision;
- `TrailTells`: the trail names only requests that exist, by their authors, and nobody
  corrects on a request of their own.

`ApprovalIsApplication` (`ApprovedByTwo`), `TwoAdministrators` and `TrailAgreesWithLedger` follow.  That the row is
what was last audited needs nothing of what a correction read: the trail is told what the
update returned, in the update's transaction.  What the trail says the row was *before* is
another matter (section 4, `TrailReconstructs`).  A promotion is told of in the trail as well,
though not by a row `after`, and there is one at most, so that the row is what the last of
these events made of it, and the win of a promotion goes only by a correction.

`EverybodyHasOneStory` is about the tables of one drawn commune.  `SettlementIInv` says that
nobody has won, lost or given up anything before the execution, and that afterwards
application, archive, exclusion and ledger each speak of the same set: the winners of
the result and the reserves promoted since (`Told`).  That the gate of an announcement lets
such a draw pass compares a count of people with a sum over entries; that the two are
equal for disjoint entries is `PilgrimsAreCounted`, by induction on the size of a set.

`OnlyTheSignedInAreServed` has two invariants.  `AccountsIInv`: a session, and every call that
moves or disables somebody, belongs to an account that exists, and a token whose owner was
told of the sign-out is deleted, for good.  `SignInIInv`: every answer on its way that says
"signed out" is of a session that has ended.  The limit of wrong passwords is `CountIInv`:
each attempt that is counted is a wrong password, or not judged yet, or lost.

`TrailsReachTheirTerritory` rests on `ReachIInv`: an event about a commune is filed under it
with its wilaya, wherever its author was moved since, and some account is national, so
that reaches nest (`Filings`).

`NothingIsToldEarly` needs what a lookup between its two reads knows (`ReadsAreTrue`): the
status it read still leads to the one there is (`Leads`), and an outcome is told only when
the second read finds the results announced.  Counters stay bounded because each key was paid for by a
lookup (`KeysArePaidFor`).

`PoolFreezeProofs` first proves of the weights that `CalculateStreak` is the number of years
before the draw after which every year counts (`StreakCounts`), by induction on the
years, whatever is amended meanwhile (`StreaksAreUnbroken`), so that a weight is positive and bounded by the years of the lottery.  Of a freeze
it proves `FrozenForGood`.  A freeze reads in one transaction and claims in another, while others
store weights and amend records, so its invariant says what a request in flight knows:

- `Sound`: a weight that a dry run has read is the one stored (what was read before the
  weights are stored is dropped, since the second dry run reads again); whatever is not
  among the applications left has been entered or has left a blocker; a dry run that ends
  without blockers has therefore entered everybody, at the stored weight;
- `PoolStands`: once there is a pool, every weight is stored, so none is written any more;
  a draw is locked only by the claim that writes its pool, as no patch sets LOCKED
  (`IsAdministrativelySettable`).

That a draw with a pool is locked does not follow and is false: a patch that was judged
before the claim unlocks it (`draw_pool_locks_draw`).  A second claim of the unlocked draw
then fails on the unique index of the pools, so the pool stays the first.

Weights are only ever added (`Adds`), which is what keeps `Sound` true of the others.

`LegacyImportProofs` proves `WholeRegister` and `SpendsAndKeeps`:

- `StagedAsRead`: a stored row says what its line says, whatever chunk of whatever attempt
  wrote it, carries the issues found in the file, and is called recorded only when the
  ledger has its year;
- `StagedWhole`: nothing is under review before its last chunk, nor approved by who
  brought it;
- `PlansWhole`: an import at work is about to write every line that the ledger does not
  have, and one fact for a person and year, whatever draws and registrations did since
  it planned;
- `ImportsWhole` and `WinnersExcluded`: an imported line stays in the ledger, and whoever any table
  calls a winner is excluded, as long as nobody corrects the ledger by hand.

That no exclusion is spent twice rests on the compare-and-set of the write; that no year is
overwritten, on the unique indexes, which fail an import whose plan others have overtaken.

`RegistrationProofs` proves `OneLawfulApplication`, invariants and action property:

- `Sound`, with `Vouched`: what an open transaction found of an applicant agrees with what
  is recorded, or with what it inserted itself; and who is about to be written into an
  application was judged by that (`Judged`);
- `Apart`: no two open transactions have inserted the same person, since the unique index
  makes the second wait;
- `AllLawful`: every application is lawful by what is recorded today, since no form
  changes what is recorded of a person (`Persists`).

That a refusal names neither of two applicants (`NamesNeither`) is first proved of the rules, for
every couple, commune and year (`OthersAreToldTheSame`).  Reasons fall into six tiers of
`REASON_PRECEDENCE` with one answer each; exchanging what the two have done exchanges
reasons within a tier (`TradersTiers`), so the reason that leads stays in its tier.

### The pages

What somebody looks at was true once.  Each invariant of `DrawCycleProofs` about `Pages` says
what of it still is.

- `ListingIInv`: whoever is still waited for was asked what is asked now, so that an older
  answer is dropped.  `DashboardIInv`: counts that came back are right as long as nothing
  happened since the page asked (`YearIsSought`, `YearIsCounted`).
- `WatchIInv` counts: armed timers and requests on their way never outnumber the polls, and
  without a page to watch there are none.
- `BatchIInv`: whoever works has a draw in hand, of the batch's year (`WorkIsListed`), and of
  all that claim to have taken a draw on, all are the same one, which did
  (`ClaimsAreTrue`).  A row of the trail inherits the claim of its run.
- `ConsoleIInv` rests on `GoesOnTo`, what no act of anybody takes back: a final draw stays
  final with its places, a pool stays, who was called for a place is that place's
  reserve.  A stale page is therefore still right about these, and a dialog is only
  offered by a page that has them (`DialogIsBacked`).
- `FormIInv`: what the steps before the shown one have made sure of (`Behind`) stays so while
  birthdays pass, since nobody gets younger and the list of steps only grows; and what
  is so assured is accepted by each of the seventeen reasons of the server's rules.
- `ScriptsIInv`: winners are in the pool; a row written by an execution is of somebody in
  the pool of a draw of its year that has a result (`RowsAreDrawn`); two applications of a
  year have nobody in common (`EntriesAreApart`, from the check at registration, not from an
  assumption), and a pool holds applications there are; whoever has the mark of a winner
  has a win; and what a script has read is what there is (`StillAsRead`), as no server runs
  beside it (`Live` is `FALSE` in `Pages`; section 4 says what happens otherwise).
- `ResultsIInv`: the feed names a commune once, the newest year first; an answer of the list
  stays true as the feed grows (`RowsAreTrue`, `PageExists`), so the page its reader turns
  to has rows on it, whichever of the two queries came first.  That a page with rows before
  it is not empty needs that the rows' numbers leave none out (`EveryRankIsHeld`), and
  that it has no more than a page's rows, that they are distinct.

The theorems about `Batch` and `DrawConsole` are for every setting `s` there is, with `setting`
fixed to it.

### The fingerprint and the registers

`TheFrozenPoolIsDrawn` (in `LotteryProofs`) is about pools of any size and weights, from
`SnapshotInv`: the rows stay a list keyed by application, and the row of the pool what the
freeze made it, but for its spots.  The rest are facts about such lists:

- `SortedAtPlace`, `PlacesAreTaken`: the position of an entry in the text is one more than
  the number of entries before it, each position is of one entry and all are taken, as a
  one-to-one map of a finite set to itself reaches all of it;
- `SameListSortsTheSame`: so the text depends on which entries there are and not on their order, and
  `SortedListsTheSame`: it has them all, with every field, so equal texts are of equal
  entries (`SameTextSameEntries`);
- `TotalOfListed`: the totals depend on which entries there are alone, by induction on the
  number of places summed over.

`ARegisterTellsOneStory` (in `LegacyImportProofs`) is about registers of any length, with any
number of cells misread, against whatever the database may know (`VerdictAssumption`: an outcome
of every year, and any years of wins, several included).  `RegisterInv` says that the lines have a cell of its
column in every column and that the verdicts, once there, are those of `StageFile`.  Then:

- `AloneIsNeither`, `FileIsNotRecord`, `JudgedByDatabase`: each issue comes from one pass
  alone, so that a register in which nothing blocks is one in which no pass found
  anything that does (`NothingBlocks`);
- `WrittenCouldBe`, from what the passes over the file compare of two lines about one
  person, and `BesideTheDatabase`, from what the passes against the database do: one account of
  a year, one win, none of who is excluded, no draw entered after it;
- `SameCompany`: in another order each line meets the same lines about its person and its
  year; with `ImportableInAnyOrder` the finding stays, and so do the facts that are written.

`ARegisterIsReadBack` (in `LegacyImportProofs`) is about files of any length, over any
characters and for any limits.  `FileInv` says that some turn of the reader's loop ends
at the end of the file with exactly what the writer has in hand: the finished rows, the
row and the cell it is at, whether it is within quotes, and whether a limit is passed
(`AtHand`).  `ReadBack` alone is not inductive, as what is read of a part of a file does
not determine how the rest of it is taken; `FileInv` does, with `WriterKnows`, by which
the two looks ahead of the reader mislead it nowhere: a quote never follows one that
closed a cell, nor a line feed a carriage return that ended a row.  Then:

- `TurnsFollow`, `ArrivedStays`: the recursive function is its recursion, and a reader
  at the end stays there, by induction on the turns;
- `SameTurn`, `OneTurnMore`: a file that is written on is read as before up to there, so
  that an addition costs one more turn;
- `FieldEnds`, `RowEnds`: the limits, checked cell by cell and row by row, add up to
  those of the whole file;
- one lemma for each action of the writer (`PlainKeeps` to `LineEndKeeps`): that turn
  does to the reader what the action does to the writer.

### What is only model-checked

- The liveness properties (`Terminates`, `FrozenInTheEnd`, `EveryoneAnswered`,
  `AnnouncementArrives`): liveness under fairness is out of the prover's reach.
- What is proved of `Pages` and `Access` is what their components promise by themselves;
  the instances of `progress` that lose answers (`MayFail`), and what comes about in the
  end, are TLC's.

## 6. Plan

The system is modelled as far as section 7 says, and all the safety the runs check is
proved; the liveness they check is TLC's.  What is left: the disagreements of section 4
stay properties of their modules, and when the code is corrected each becomes a property
of the run of its component.

## 7. Not modelled, and why

- The redaction of audit payloads, and the formats of names, numbers, spreadsheets,
  tokens and digests: data the properties do not distinguish.  The audit trail is
  therefore "partly" modelled: where its rows are filed and who reads them.
- Pages of the client that only present what the server answers, and texts,
  translations and styles.
- Public statistics, and single reads of the console: one query, no state.
- `applyEligibilityResult`, `ParticipantService.findOrCreate`, `purgeExpiredSessions`,
  `ParticipationHistoryService.create`: nothing calls them.
- The pool of database connections: `correct()` reads through a second connection while
  its caller's transaction holds one, so as many approvals at once as the pool has
  connections would wait for each other until they time out.  The timeouts and the size
  of the pool are configuration outside the code.
- Years beyond those the ledger can hold, at which `assertUsable*` would refuse a weight.
