-------------------------------- MODULE Batch --------------------------------
(***************************************************************************)
(* Freezing, or executing, every ready draw of a year in one action: the   *)
(* console's dialog (a preview, then a confirmation that sends the ids the *)
(* preview named), the loop on the server that takes the ids one after the *)
(* other, each in its own transaction, and the audit row at its end.       *)
(*                                                                         *)
(* A single freeze or execution is one step here: PoolFreeze and DrawCycle *)
(* have their insides.  Abstracted: the reasons why a draw is not ready;   *)
(* the geography of the caller, who is national on both routes; a page     *)
(* without a year, where neither dialog exists.                            *)
(***************************************************************************)
EXTENDS Integers, Sequences, FiniteSets, FiniteSetsExt, Functions

CONSTANTS
  Admins, Processes,
  ServedBy,        \* the server process that serves each administrator
  Kinds,           \* the batches in use: "freeze", "execute"
  Draws,           \* the commune draws, in the order the server lists them
  YearOf,          \* the year of each
  Stage0,          \* where each stands at first
  Uncovered,       \* draws whose pool does not cover twice the allocation
  Unfillable,      \* draws that every execution refuses: a stranded last place
  None,
  MaxOpenings, MaxFaults

Stages == {"DRAFT", "READY", "LOCKED", "COMPLETED"}
AllDraws == Range(Draws)

BatchAssumption ==
  /\ MaxOpenings \in Nat /\ MaxFaults \in Nat
  /\ Kinds \subseteq {"freeze", "execute"}
  /\ ServedBy \in [Admins -> Processes]
  /\ IsInjective(Draws) /\ Draws \in Seq(AllDraws)
  /\ Stage0 \in [AllDraws -> Stages]

VARIABLES
  stage,           \* of each draw: what CommuneDraw.status and its pool say
  inFlight,        \* per process and kind: the sets named inFlight
  run,             \* the batch request of each administrator and kind; the draws it still
                   \* has to do, by their place in Draws
  year,            \* the year each administrator's page is filtered to
  dialog,          \* the dialog of each administrator and kind
  asked,           \* previews on their way, asked and perhaps answered
  audit,           \* the batch rows of the audit trail
  openings, faults

vars == <<stage, inFlight, run, year, dialog, asked, audit, openings, faults>>
client == <<year, dialog, asked, openings>>

Years == {YearOf[d] : d \in AllDraws}
DrawsOf(y) == {d \in AllDraws : YearOf[d] = y}

Done(kind, d) == IF kind = "freeze" THEN stage[d] \in {"LOCKED", "COMPLETED"}
                                    ELSE stage[d] = "COMPLETED"

\* The bucket "ready" of a preview.
Ready(kind, d) == IF kind = "freeze" THEN stage[d] = "READY"
                                     ELSE stage[d] = "LOCKED" /\ d \notin Uncovered

\* Faulty: the claim does not ask where the draw stands.
ClaimAnything(kind, d) == kind = "execute" => d \notin Unfillable

\* What freeze and execute ask at their own claim.
Claimable(kind, d) == Ready(kind, d) /\ (kind = "execute" => d \notin Unfillable)

Idle == [at |-> "idle", year |-> None, from |-> 0, todo |-> {}, outcome |-> <<>>]
Closed == [open |-> FALSE, opening |-> 0, phase |-> "validating", shown |-> None,
           pending |-> FALSE, result |-> None]

Init ==
  /\ stage = Stage0
  /\ inFlight = [p \in Processes |-> [k \in Kinds |-> {}]]
  /\ run = [a \in Admins |-> [k \in Kinds |-> Idle]]
  /\ year \in [Admins -> Years]
  /\ dialog = [a \in Admins |-> [k \in Kinds |-> Closed]]
  /\ asked = {}
  /\ audit = <<>>
  /\ openings = 0 /\ faults = 0

(***************************************************************************)
(* The console.                                                            *)
(***************************************************************************)
Show(a, k, record) == dialog' = [dialog EXCEPT ![a][k] = record]

\* A modal dialog: the filter behind it cannot be reached while one is open.
ChooseYear(a) ==
  /\ \A k \in Kinds : ~ dialog[a][k].open
  /\ \E y \in Years \ {year[a]} : year' = [year EXCEPT ![a] = y]
  /\ UNCHANGED <<stage, inFlight, run, dialog, asked, audit, openings, faults>>

\* Opening forgets what an earlier opening showed, and asks for a preview.
\* pending is not reset: it belongs to a request that may still be running.
Open(a, k) ==
  /\ openings < MaxOpenings /\ openings' = openings + 1
  /\ \A j \in Kinds : ~ dialog[a][j].open
  /\ Show(a, k, [Closed EXCEPT !.open = TRUE, !.opening = openings',
                               !.pending = dialog[a][k].pending])
  /\ asked' = asked \cup {[admin |-> a, kind |-> k, opening |-> openings',
                           year |-> year[a], ready |-> None]}
  /\ UNCHANGED <<stage, inFlight, run, year, audit, faults>>

Close(a, k) ==
  /\ dialog[a][k].open
  /\ Show(a, k, [dialog[a][k] EXCEPT !.open = FALSE])
  /\ UNCHANGED <<stage, inFlight, run, year, asked, audit, openings, faults>>

\* The server's preview, which changes nothing.
Validate(q) ==
  /\ q.ready = None
  /\ asked' = (asked \ {q})
       \cup {[q EXCEPT !.ready = {d \in DrawsOf(q.year) : Ready(q.kind, d)}]}
  /\ UNCHANGED <<stage, inFlight, run, year, dialog, audit, openings, faults>>

\* A preview arrives, at whatever the dialog is showing by then.
ReceivePreview(q) ==
  /\ q.ready # None
  /\ asked' = asked \ {q}
  /\ Show(q.admin, q.kind, [dialog[q.admin][q.kind] EXCEPT !.shown = q, !.phase = "confirm"])
  /\ UNCHANGED <<stage, inFlight, run, year, audit, openings, faults>>

LosePreview(q) ==
  /\ faults < MaxFaults /\ faults' = faults + 1
  /\ asked' = asked \ {q}
  /\ UNCHANGED <<stage, inFlight, run, year, dialog, audit, openings>>

\* The confirmation sends the page's year and the ids that are shown.
Confirm(a, k) ==
  LET d == dialog[a][k] IN
  /\ d.open /\ d.phase = "confirm" /\ ~ d.pending
  /\ d.shown # None /\ d.shown.ready # {}
  /\ Show(a, k, [d EXCEPT !.pending = TRUE])
  /\ run' = [run EXCEPT ![a][k] =
       [at |-> "next", year |-> year[a], from |-> d.shown.opening, outcome |-> <<>>,
        todo |-> {i \in DOMAIN Draws : Draws[i] \in d.shown.ready}]]
  /\ UNCHANGED <<stage, inFlight, year, asked, audit, openings, faults>>

\* The answer of a batch, or the error its connection ended with.
ReceiveOutcome(a, k) ==
  /\ run[a][k].at \in {"answered", "broken"}
  /\ Show(a, k, IF run[a][k].at = "answered"
                THEN [dialog[a][k] EXCEPT !.result = run[a][k].outcome, !.phase = "results",
                                          !.pending = FALSE]
                ELSE [dialog[a][k] EXCEPT !.pending = FALSE])
  /\ run' = [run EXCEPT ![a][k].at = "over"]
  /\ UNCHANGED <<stage, inFlight, year, asked, audit, openings, faults>>

(***************************************************************************)
(* The loop on the server.                                                 *)
(***************************************************************************)
\* The draws listed for the caller at the start of the batch.
Listed(r) == DrawsOf(r.year)

Record(a, k, d, status) ==
  run' = [run EXCEPT ![a][k] =
    [at |-> "next", year |-> @.year, from |-> @.from, todo |-> @.todo \ {Min(@.todo)},
     outcome |-> Append(@.outcome, [draw |-> d, status |-> status])]]

HasNext(a, k) == run[a][k].at = "next" /\ run[a][k].todo # {}
Current(a, k) == Draws[Min(run[a][k].todo)]

RefuseUnlisted(a, k) ==
  /\ HasNext(a, k)
  /\ Current(a, k) \notin Listed(run[a][k])
  /\ Record(a, k, Current(a, k), "failed")
  /\ UNCHANGED <<stage, inFlight, client, audit, faults>>

\* Somebody's batch in this process has the draw in hand: it is not touched.
SkipInFlight(a, k) ==
  /\ HasNext(a, k)
  /\ Current(a, k) \in Listed(run[a][k]) \cap inFlight[ServedBy[a]][k]
  /\ Record(a, k, Current(a, k), "skipped")
  /\ UNCHANGED <<stage, inFlight, client, audit, faults>>

Start(a, k) ==
  /\ HasNext(a, k)
  /\ Current(a, k) \in Listed(run[a][k]) \ inFlight[ServedBy[a]][k]
  /\ inFlight' = [inFlight EXCEPT ![ServedBy[a]][k] = @ \cup {Current(a, k)}]
  /\ run' = [run EXCEPT ![a][k].at = "working"]
  /\ UNCHANGED <<stage, client, audit, faults>>

StageAfter(kind) == IF kind = "freeze" THEN "LOCKED" ELSE "COMPLETED"

\* The finally block.
Release(a, k) ==
  inFlight' = [inFlight EXCEPT ![ServedBy[a]][k] = @ \ {Current(a, k)}]

Succeed(a, k) ==
  LET d == Current(a, k) IN
  /\ run[a][k].at = "working" /\ Claimable(k, d)
  /\ stage' = [stage EXCEPT ![d] = StageAfter(k)]
  /\ Record(a, k, d, "completed")
  /\ Release(a, k)
  /\ UNCHANGED <<client, audit, faults>>

FindDone(a, k) ==
  LET d == Current(a, k) IN
  /\ run[a][k].at = "working" /\ Done(k, d)
  /\ Record(a, k, d, "skipped")
  /\ Release(a, k)
  /\ UNCHANGED <<stage, client, audit, faults>>

\* The draw's own refusal, which ends nothing but its own turn.
Fail(a, k) ==
  LET d == Current(a, k) IN
  /\ run[a][k].at = "working" /\ ~ Claimable(k, d) /\ ~ Done(k, d)
  /\ Record(a, k, d, "failed")
  /\ Release(a, k)
  /\ UNCHANGED <<stage, client, audit, faults>>

\* An error of the database or of the program: INTERNAL_ERROR.
Break(a, k) ==
  /\ run[a][k].at = "working"
  /\ faults < MaxFaults /\ faults' = faults + 1
  /\ Record(a, k, Current(a, k), "failed")
  /\ Release(a, k)
  /\ UNCHANGED <<stage, client, audit>>

Report(a, k) ==
  /\ run[a][k].at = "next" /\ run[a][k].todo = {}
  /\ audit' = Append(audit, [by |-> a, kind |-> k, from |-> run[a][k].from,
                              outcome |-> run[a][k].outcome])
  /\ run' = [run EXCEPT ![a][k].at = "answered"]
  /\ UNCHANGED <<stage, inFlight, client, faults>>

\* A process ends: its sets, and the requests it was serving.
Crash(p) ==
  /\ faults < MaxFaults /\ faults' = faults + 1
  /\ inFlight' = [inFlight EXCEPT ![p] = [k \in Kinds |-> {}]]
  /\ run' = [a \in Admins |-> [k \in Kinds |->
       IF ServedBy[a] = p /\ run[a][k].at \in {"next", "working"}
       THEN [run[a][k] EXCEPT !.at = "broken", !.todo = {}]
       ELSE run[a][k]]]
  /\ UNCHANGED <<stage, client, audit>>

\* Somebody takes a draw one step on from its own page.
Alone(d) ==
  /\ \/ stage[d] = "DRAFT" /\ stage' = [stage EXCEPT ![d] = "READY"]
     \/ Claimable("freeze", d) /\ stage' = [stage EXCEPT ![d] = "LOCKED"]
     \/ Claimable("execute", d) /\ stage' = [stage EXCEPT ![d] = "COMPLETED"]
  /\ UNCHANGED <<inFlight, run, client, audit, faults>>

Serve(a, k) ==
  \/ RefuseUnlisted(a, k) \/ SkipInFlight(a, k) \/ Start(a, k)
  \/ Succeed(a, k) \/ FindDone(a, k) \/ Fail(a, k) \/ Report(a, k)

Next ==
  \/ \E a \in Admins : ChooseYear(a)
  \/ \E a \in Admins, k \in Kinds :
       \/ Open(a, k) \/ Close(a, k) \/ Confirm(a, k) \/ ReceiveOutcome(a, k)
       \/ Serve(a, k) \/ Break(a, k)
  \/ \E q \in asked : Validate(q) \/ ReceivePreview(q) \/ LosePreview(q)
  \/ \E p \in Processes : Crash(p)
  \/ \E d \in AllDraws : Alone(d)

Spec == Init /\ [][Next]_vars

-----------------------------------------------------------------------------
(***************************************************************************)
(* Properties.                                                             *)
(***************************************************************************)
TypeOK ==
  /\ stage \in [AllDraws -> Stages]
  /\ \A p \in Processes, k \in Kinds : inFlight[p][k] \subseteq AllDraws
  /\ \A a \in Admins, k \in Kinds :
       /\ run[a][k].at \in {"idle", "next", "working", "answered", "broken", "over"}
       /\ run[a][k].todo \subseteq DOMAIN Draws
       /\ dialog[a][k].phase \in {"validating", "confirm", "results"}
  /\ \A i \in DOMAIN audit : audit[i].by \in Admins /\ audit[i].kind \in Kinds

\* A run, or the audit row it left, that says it was the one to take a draw on.
Claims(kind, d) ==
  {<<"row", i>> : i \in {j \in DOMAIN audit :
      audit[j].kind = kind /\ [draw |-> d, status |-> "completed"] \in Range(audit[j].outcome)}}
  \cup
  {<<"run", a>> : a \in {b \in Admins :
      /\ run[b][kind].at \in {"next", "working", "broken"}
      /\ [draw |-> d, status |-> "completed"] \in Range(run[b][kind].outcome)}}

\* Of all the batches that named a draw, in every process and after every
\* crash, at most one reports that it was the one to freeze, or execute, it.
DoneOnce == \A k \in Kinds, d \in AllDraws : Cardinality(Claims(k, d)) <= 1

\* Ids that an outdated preview put on the screen go out with another year
\* than theirs; a batch for a year moves no draw of another year.
NeverAnotherYear ==
  \A a \in Admins, k \in Kinds : \A o \in Range(run[a][k].outcome) :
    o.status # "failed" => YearOf[o.draw] = run[a][k].year

\* A draw marked as in flight is being worked on by a request that this very
\* process serves: an error or a crash leaves no mark that skips it for ever.
MarksAreLive ==
  \A p \in Processes, k \in Kinds : \A d \in inFlight[p][k] :
    \E a \in Admins : ServedBy[a] = p /\ run[a][k].at = "working" /\ Current(a, k) = d

\* AdminCommunes: the preview that is confirmed was computed since this opening.
ConfirmsAFreshPreview ==
  \A a \in Admins, k \in Kinds :
    LET d == dialog[a][k] IN
    d.open /\ d.phase = "confirm" /\ d.shown # None => d.shown.opening = d.opening

\* docs/admin-dashboard.md: a skipped draw turned out to be done already
\* (or, at the least, whoever had it in hand still has).
SkippedWasDone == \A k \in Kinds : \A i \in DOMAIN audit : audit[i].kind = k =>
  \A o \in Range(audit[i].outcome) : o.status = "skipped" =>
    Done(k, o.draw) \/ \E p \in Processes : o.draw \in inFlight[p][k]

\* docs/admin-dashboard.md: a batch that changed something is on the trail,
\* so that the whole operation can be reconstructed.
BatchIsOnTheTrail ==
  \A a \in Admins, k \in Kinds :
    (run[a][k].at = "broken" /\ \E o \in Range(run[a][k].outcome) : o.status = "completed")
      => \E i \in DOMAIN audit : audit[i].by = a /\ audit[i].from = run[a][k].from
==============================================================================
