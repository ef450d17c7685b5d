------------------------------ MODULE PoolFreeze ------------------------------
(***************************************************************************)
(* The freeze of one commune draw's pool, statement by statement: a dry    *)
(* run that weighs every application against the ledger, the snapshot of   *)
(* the weights nobody took yet, a second dry run, and the transaction that *)
(* locks the draw.  Meanwhile the ledger is corrected, people win          *)
(* elsewhere, and the draw's status is patched: read and judged by one     *)
(* statement, written whatever it has become by another.                   *)
(*                                                                         *)
(* Abstracted: the blockers that the constraints of the database exclude   *)
(* (a wrong commune or year, a half pair, a weight below one); applications *)
(* that arrive late and changes of the allocation (DrawCycle).             *)
(***************************************************************************)
EXTENDS Integers, Sequences, FiniteSets, DrawLifecycle

CONSTANTS
  None,
  Candidates,     \* the eligible applications of the commune, in the order of their ids
  People,         \* people on them
  Occupants,      \* who is on each
  Year,           \* the year of the draw
  Recorded0,      \* the ledger of each person before the freeze
  Amendments,     \* corrections and verifications of it: [person, year, record]
  Freezers,       \* administrators who freeze
  MayWin,         \* people who may win meanwhile, elsewhere
  Officials,      \* administrators who patch the status of the draw
  Settings,       \* the statuses they ask for
  MaxCrashes,
  MaxReopenings   \* bound: the patches to another status than READY

-----------------------------------------------------------------------------
(* What an application weighs: the consecutive years before the draw in which  *)
(* its applicants verifiably took part without winning.                        *)

EARLIEST_DRAW_YEAR == 2000
BASE_APPLICATION_WEIGHT == 1

\* What counts has no reason against it.
ASSUME ReasonAssumption ==
  None \notin {"NO_AUTHORITATIVE_RECORD", "UNVERIFIED_RECORD", "DID_NOT_PARTICIPATE", "WON"}

\* What a year's record is to a streak: None when the year counts.
StopReasonFor(record) ==
  CASE record = None -> "NO_AUTHORITATIVE_RECORD"
    [] record # None /\ ~ record.verified -> "UNVERIFIED_RECORD"
    [] record # None /\ record.verified /\ ~ record.participated -> "DID_NOT_PARTICIPATE"
    [] record # None /\ record.verified /\ record.participated /\ record.won -> "WON"
    [] OTHER -> None

Recorded(history, year) == IF year \in DOMAIN history THEN history[year] ELSE None

\* Faulty: a year without a record is passed over.
StreakAcrossGaps(target, history) ==
  LET count[year \in EARLIEST_DRAW_YEAR - 1 .. target - 1] ==
        IF year < EARLIEST_DRAW_YEAR THEN 0
        ELSE IF Recorded(history, year) = None THEN count[year - 1]
        ELSE IF StopReasonFor(history[year]) # None THEN 0
        ELSE 1 + count[year - 1]
  IN count[target - 1]

\* The years are walked backwards from the draw to the first that does not count.
CalculateStreak(target, history) ==
  LET count[year \in EARLIEST_DRAW_YEAR - 1 .. target - 1] ==
        IF year < EARLIEST_DRAW_YEAR \/ StopReasonFor(Recorded(history, year)) # None
        THEN 0 ELSE 1 + count[year - 1]
  IN count[target - 1]

IndividualWeight(streak) == streak + BASE_APPLICATION_WEIGHT

ParticipantWeight(target, history) == IndividualWeight(CalculateStreak(target, history))

\* A pair weighs what the heavier of the two does.
CombineWeights(weights) == CHOOSE w \in weights : \A v \in weights : v <= w

-----------------------------------------------------------------------------
(* The freeze. *)

Applications == {Candidates[i] : i \in DOMAIN Candidates}

Weights == 1 .. Year - EARLIEST_DRAW_YEAR + 1

Entry == [application : Applications, weight : Weights]

\* An application is somebody's; no pool is told from one that is not there.
ASSUME FreezeAssumption ==
  /\ Candidates \in Seq(Applications)
  /\ \A a \in Applications : Occupants[a] # {} /\ Occupants[a] \subseteq People
  /\ Year \in Int /\ Year >= EARLIEST_DRAW_YEAR
  /\ \A a \in Amendments : a.person \in People
  /\ MayWin \subseteq People
  /\ MaxCrashes \in Nat /\ MaxReopenings \in Nat
  /\ Settings \subseteq CommuneDrawStatus /\ None \notin CommuneDrawStatus
  /\ None \notin Weights /\ \A entries \in SUBSET Entry : None # entries

VARIABLES
  history,        \* participation_history, by person and year
  hasWon,
  weight,         \* calculated_weight of each application
  drawYear, communeDraw, pool,
  request,        \* what each freezing request has read so far
  patch,          \* the status each official's patch is about to write
  crashes, reopenings

vars ==
  <<history, hasWon, weight, drawYear, communeDraw, pool, request, patch, crashes, reopenings>>
ledger == <<history, hasWon>>
draw == <<drawYear, communeDraw, pool>>
bounds == <<patch, crashes, reopenings>>

Idle == [at |-> "idle"]
Answered(answer) == [at |-> "answered", answer |-> answer]

Init ==
  /\ history = Recorded0
  /\ hasWon = {}
  /\ weight = [a \in Applications |-> None]
  /\ drawYear = "REGISTRATION_OPEN" /\ communeDraw = "DRAFT" /\ pool = None
  /\ request = [r \in Freezers |-> Idle]
  /\ patch = [o \in Officials |-> None]
  /\ crashes = 0 /\ reopenings = 0

Become(r, record) == request' = [request EXCEPT ![r] = record]

\* evaluateApplication, of which only the winners can change while a pool is frozen.
Eligible(a) == Occupants[a] \cap hasWon = {}

CurrentWeight(a) == CombineWeights({ParticipantWeight(Year, history[p]) : p \in Occupants[a]})

Validating(pass, wrote) ==
  [at |-> "load", pass |-> pass, blockers |-> {}, found |-> None, left |-> <<>>,
   read |-> [a \in Applications |-> None], entries |-> {}, wrote |-> wrote]

Freeze(r) ==
  /\ request[r].at \in {"idle", "answered"}
  /\ Become(r, Validating(1, {}))
  /\ UNCHANGED <<ledger, weight, draw, bounds>>

\* validate, its first read: the commune draw with its year.
LoadDraw(r) ==
  /\ request[r].at = "load"
  /\ Become(r, [request[r] EXCEPT !.at = "find", !.blockers =
       (IF drawYear # "REGISTRATION_CLOSED" THEN {"REGISTRATION_STILL_OPEN"} ELSE {})
       \cup (IF communeDraw # "READY" THEN {"COMMUNE_DRAW_NOT_READY"} ELSE {})])
  /\ UNCHANGED <<ledger, weight, draw, bounds>>

FindPool(r) ==
  /\ request[r].at = "find"
  /\ Become(r, [request[r] EXCEPT !.at = "collect", !.found = pool,
       !.blockers = @ \cup (IF pool # None THEN {"POOL_ALREADY_EXISTS"} ELSE {})])
  /\ UNCHANGED <<ledger, weight, draw, bounds>>

CollectCandidates(r) ==
  /\ request[r].at = "collect"
  /\ Become(r, [request[r] EXCEPT !.at = IF Candidates = <<>> THEN "conclude" ELSE "evaluate",
       !.read = weight, !.left = Candidates,
       !.blockers = @ \cup (IF Candidates = <<>> THEN {"NO_ELIGIBLE_APPLICATIONS"} ELSE {})])
  /\ UNCHANGED <<ledger, weight, draw, bounds>>

\* On to the next application, with what this one adds.
Reconciled(req, blockers, entries) ==
  [req EXCEPT !.at = IF Len(req.left) = 1 THEN "conclude" ELSE "evaluate", !.left = Tail(@),
     !.blockers = @ \cup blockers, !.entries = @ \cup entries]

\* The stored weight, and what the rules say of the applicants today.
EvaluateCandidate(r) ==
  LET req == request[r]
      a == Head(req.left)
      missing == IF req.read[a] = None THEN {"MISSING_WEIGHT"} ELSE {}
  IN
  /\ req.at = "evaluate"
  /\ Become(r, CASE ~ Eligible(a) -> Reconciled(req, missing \cup {"PARTICIPANT_STATE_CONFLICT"}, {})
                 [] Eligible(a) /\ req.read[a] = None -> Reconciled(req, missing, {})
                 [] OTHER -> [req EXCEPT !.at = "weigh"])
  /\ UNCHANGED <<ledger, weight, draw, bounds>>

\* The stored weight against a fresh one, which judges the applicants once more.
WeighCandidate(r) ==
  LET req == request[r]
      a == Head(req.left)
  IN
  /\ req.at = "weigh"
  /\ Become(r, CASE ~ Eligible(a) -> Answered("APPLICATION_INELIGIBLE")
                 [] Eligible(a) /\ req.read[a] # CurrentWeight(a) -> Reconciled(req, {"STALE_WEIGHT"}, {})
                 [] OTHER -> Reconciled(req, {}, {[application |-> a, weight |-> req.read[a]]}))
  /\ UNCHANGED <<ledger, weight, draw, bounds>>

\* Faulty: a missing weight is only reported.
NothingIsResolvable(blockers) == FALSE

IsResolvableByFreezing(blockers) == blockers = {"MISSING_WEIGHT"}

Missing == SelectSeq(Candidates, LAMBDA a : weight[a] = None)

\* Faulty: what the freeze resolves is not checked again.
ConcludeOnce(r) ==
  LET req == request[r] IN
  /\ req.at = "conclude"
  /\ Become(r, CASE req.found # None -> Answered("ALREADY_FROZEN")
                 [] req.found = None /\ (req.blockers = {} \/ IsResolvableByFreezing(req.blockers))
                      -> [req EXCEPT !.at = "commit"]
                 [] OTHER -> Answered("POOL_NOT_READY"))
  /\ UNCHANGED <<ledger, weight, draw, bounds>>

\* What becomes of a freeze once its dry run is over.
Conclude(r) ==
  LET req == request[r]
      first == req.pass = 1
  IN
  /\ req.at = "conclude"
  /\ Become(r, CASE first /\ req.found # None -> Answered("ALREADY_FROZEN")
                 [] first /\ req.found = None /\ IsResolvableByFreezing(req.blockers)
                      -> IF Missing = <<>> THEN Validating(2, {})
                         ELSE [req EXCEPT !.at = "calculate", !.left = Missing]
                 [] (first => req.found = None) /\ req.blockers = {} -> [req EXCEPT !.at = "commit"]
                 [] OTHER -> Answered("POOL_NOT_READY"))
  /\ UNCHANGED <<ledger, weight, draw, bounds>>

NextMissing(req, wrote) ==
  IF Len(req.left) = 1 THEN Validating(2, wrote)
  ELSE [req EXCEPT !.at = "calculate", !.left = Tail(@), !.wrote = wrote]

\* freezeMissingWeights; whoever is not eligible any more is left to the second dry run.
CalculateMissing(r) ==
  LET req == request[r]
      a == Head(req.left)
  IN
  /\ req.at = "calculate"
  /\ Become(r, IF ~ Eligible(a) \/ weight[a] # None THEN NextMissing(req, req.wrote)
               ELSE [req EXCEPT !.at = "store", !.read[a] = CurrentWeight(a)])
  /\ UNCHANGED <<ledger, weight, draw, bounds>>

\* freezeApplicationWeight, its compare-and-set.
StoreMissing(r) ==
  LET req == request[r]
      a == Head(req.left)
      claims == weight[a] = None
  IN
  /\ req.at = "store"
  /\ weight' = IF claims THEN [weight EXCEPT ![a] = req.read[a]] ELSE weight
  /\ Become(r, NextMissing(req, IF claims THEN req.wrote \cup {a} ELSE req.wrote))
  /\ UNCHANGED <<ledger, draw, bounds>>

\* One transaction: the claim of the draw, the pool and its entries.
CommitFreeze(r) ==
  /\ request[r].at = "commit"
  /\ IF communeDraw = "READY" /\ pool = None
     THEN /\ communeDraw' = "LOCKED"
          /\ pool' = request[r].entries
          /\ Become(r, Answered("FROZEN"))
     ELSE /\ UNCHANGED <<communeDraw, pool>>
          /\ Become(r, Answered(IF communeDraw = "READY" THEN "ALREADY_FROZEN" ELSE "POOL_NOT_READY"))
  /\ UNCHANGED <<ledger, weight, drawYear, bounds>>

------------------------------------------------------------------------------
(* Meanwhile                                                                *)

Amend(a) ==
  /\ history[a.person] # [y \in DOMAIN history[a.person] \cup {a.year} |->
       IF y = a.year THEN a.record ELSE history[a.person][y]]
  /\ history' = [history EXCEPT ![a.person] =
       [y \in DOMAIN @ \cup {a.year} |-> IF y = a.year THEN a.record ELSE @[y]]]
  /\ UNCHANGED <<hasWon, weight, draw, request, bounds>>

Win(p) ==
  /\ p \in MayWin \ hasWon
  /\ hasWon' = hasWon \cup {p}
  /\ UNCHANGED <<history, weight, draw, request, bounds>>

CloseRegistration ==
  /\ drawYear = "REGISTRATION_OPEN"
  /\ drawYear' = "REGISTRATION_CLOSED"
  /\ UNCHANGED <<ledger, weight, communeDraw, pool, request, bounds>>

\* updateCommuneDraw: the row it reads decides whether the status may be set.
ReadForPatch(o, status) ==
  /\ patch[o] = None
  /\ IsAdministrativelySettable(status)
  /\ status = communeDraw \/ CanTransitionCommuneDraw(communeDraw, status)
  /\ status # "READY" => reopenings < MaxReopenings
  /\ patch' = [patch EXCEPT ![o] = status]
  /\ reopenings' = IF status = "READY" THEN reopenings ELSE reopenings + 1
  /\ UNCHANGED <<ledger, weight, draw, request, crashes>>

\* Its update, by id alone: a freeze may have come in between.
WritePatch(o) ==
  /\ patch[o] # None
  /\ communeDraw' = patch[o]
  /\ patch' = [patch EXCEPT ![o] = None]
  /\ UNCHANGED <<ledger, weight, drawYear, pool, request, crashes, reopenings>>

\* The process ends; whoever asked asks again.
Crash(r) ==
  /\ request[r].at \notin {"idle", "answered"} /\ crashes < MaxCrashes
  /\ Become(r, Idle)
  /\ crashes' = crashes + 1
  /\ UNCHANGED <<ledger, weight, draw, patch, reopenings>>

Work(r) ==
  \/ LoadDraw(r) \/ FindPool(r) \/ CollectCandidates(r)
  \/ EvaluateCandidate(r) \/ WeighCandidate(r) \/ Conclude(r)
  \/ CalculateMissing(r) \/ StoreMissing(r) \/ CommitFreeze(r)

Next ==
  \/ \E r \in Freezers : Freeze(r) \/ Work(r) \/ Crash(r)
  \/ \E a \in Amendments : Amend(a)
  \/ \E p \in People : Win(p)
  \/ CloseRegistration
  \/ \E o \in Officials :
       (\E status \in Settings : ReadForPatch(o, status)) \/ WritePatch(o)

Spec == Init /\ [][Next]_vars

\* A request is served until it is answered; somebody keeps asking, and the year is
\* closed and the draw marked ready in the end.
FairSpec ==
  /\ Spec
  /\ \A r \in Freezers : WF_vars(Freeze(r)) /\ WF_vars(Work(r))
  /\ WF_vars(CloseRegistration)
  /\ \A o \in Officials : WF_vars(ReadForPatch(o, "READY")) /\ WF_vars(WritePatch(o))

------------------------------------------------------------------------------
TypeOK ==
  /\ \A a \in Applications : weight[a] \in {None} \cup Weights
  /\ hasWon \subseteq People
  /\ drawYear \in {"REGISTRATION_OPEN", "REGISTRATION_CLOSED"}
  /\ communeDraw \in {"DRAFT", "READY", "LOCKED", "CANCELLED"}
  /\ \A o \in Officials : patch[o] \in {None, "DRAFT", "READY", "CANCELLED"}
  /\ crashes \in 0 .. MaxCrashes /\ reopenings \in 0 .. MaxReopenings

\* A frozen pool holds every candidate, once, at the weight its application carries, and
\* no draw is locked without one.  The converse is not the code's: a status patch that read
\* the draw before the freeze takes the lock off it and leaves the pool.
PoolIsWhole ==
  /\ communeDraw = "LOCKED" => pool # None
  /\ pool # None => pool = {[application |-> a, weight |-> weight[a]] : a \in Applications}

\* A year on record, verified, of somebody who took part and did not win.
Counts(past, year) ==
  LET record == Recorded(past, year)
  IN record # None /\ record.verified /\ record.participated /\ ~ record.won

\* A year counts only when every year between it and the draw counts: nothing bridges a
\* gap, an unproven claim or a win, whatever is verified meanwhile.
StreakIsUnbroken == \A p \in People :
  CalculateStreak(Year, history[p]) =
    Cardinality({y \in EARLIEST_DRAW_YEAR .. Year - 1 : \A z \in y .. Year - 1 : Counts(history[p], z)})

\* A weight that was frozen is never written again, whoever freezes and whatever the
\* ledger has come to say; nor is a pool, even one whose draw was set back to READY.
WrittenOnce == [][
  /\ \A a \in Applications : weight[a] # None => weight'[a] = weight[a]
  /\ pool # None => pool' = pool]_vars

\* Whoever else freezes, wins, corrects a record, patches the status on a stale reading or
\* dies meanwhile, a pool is whole when it is there, and what is frozen stays as it was.
FrozenForGood == [](TypeOK /\ PoolIsWhole) /\ WrittenOnce

\* What draw-pool.service.ts says of the reconciliation: no pool is built from a weight
\* or an eligibility that has changed since.
PoolAsReconciled == [][pool = None /\ pool' # None =>
  \A e \in pool' : Eligible(e.application) /\ e.weight = CurrentWeight(e.application)]_vars

\* What docs/draw-pool.md says of two freezes at once: the second is given the pool.
LoserGetsThePool == [][\A r \in Freezers :
  request[r].at = "commit" /\ pool # None => request'[r] # Answered("POOL_NOT_READY")]_vars

\* What docs/draw-pool.md says of a freeze that fails: no weight was altered by it.
NothingLeftBehind == [][\A r \in Freezers :
  request'[r] = Answered("POOL_NOT_READY") /\ request[r].at = "conclude" => request[r].wrote = {}]_vars

\* What draw-pool.service.ts says of weights frozen ahead of a pool: they do no harm. The
\* draw of a commune where nobody won is frozen in the end.
EventuallyFrozen == <>(pool # None)

==============================================================================
