----------------------------- MODULE Registration -----------------------------
(***************************************************************************)
(* The public registration of one draw year: each request resolves its     *)
(* applicants by national id, creating who is not known, has them judged,  *)
(* and inserts the application, all in one transaction whose statements    *)
(* interleave with those of other requests and with administrators.        *)
(*                                                                         *)
(* Abstracted: names and phone numbers; whether the year and the commune   *)
(* are open to applications (DrawCycle); a reference is a value of a set.  *)
(***************************************************************************)
EXTENDS EligibilityRules, FiniteSets

CONSTANTS
  Requests,       \* submissions, each made once
  Forms,          \* what is submitted: [primary, secondary, communeId, claimedWilaya]
  Communes,       \* commune ids with what is known of them
  Entered,        \* people an administrator may enter by themselves
  References,     \* application references that may be drawn
  Year, Today

REFERENCE_ATTEMPTS == 3

VARIABLES
  participants,   \* participants, by national id
  applications,   \* applications with their application_participants
  request         \* the transaction of each submission

vars == <<participants, applications, request>>

Roles == {"primary", "secondary"}
Applicants(form) == {form[role] : role \in Roles} \ {None}
IdsOf(form) == {a.id : a \in Applicants(form)}
Citizens == UNION {IdsOf(form) : form \in Forms} \cup {a.id : a \in Entered}

Births == [y : Nat, m : 1 .. 12, d : 1 .. 31]
Applicant == [id : Citizens, gender : {"FEMALE", "MALE"}, dob : Births]
Participant == [gender : {"FEMALE", "MALE"}, dob : Births, hasWon : BOOLEAN]
ApplicantState ==
  [id : Citizens, gender : {"FEMALE", "MALE"}, dob : Births, hasWon : BOOLEAN,
   applications : SUBSET References]

\* What applicantSchema and createApplicationSchema let through; nobody is told from
\* somebody.
ASSUME FormsAssumption ==
  /\ None \notin Citizens
  /\ None \notin Applicant /\ None \notin Participant /\ None \notin ApplicantState
  /\ Today.y \in Nat
  /\ Entered \subseteq Applicant
  /\ Forms \subseteq [primary : Applicant, secondary : Applicant \cup {None},
                     communeId : STRING, claimedWilaya : STRING]

Person(gender, dob) == [gender |-> gender, dob |-> dob, hasWon |-> FALSE]

Idle == [at |-> "idle"]
Answered(answer, form) == [at |-> "answered", answer |-> answer, form |-> form]

Init ==
  /\ participants = [id \in Citizens |-> None]
  /\ applications = {}
  /\ request = [r \in Requests |-> Idle]

\* createApplicationSchema
Wellformed(form) == form.secondary # None => form.secondary.id # form.primary.id

Begin(form, attempt) ==
  [at |-> "find", role |-> "primary", form |-> form, attempt |-> attempt,
   found |-> [primary |-> None, secondary |-> None], created |-> {}]

Become(r, record) == request' = [request EXCEPT ![r] = record]

OccupantsOf(a) == {a.primary, a.secondary} \ {None}

\* Who this transaction sees: what is committed, and what it inserted itself.
Seen(r, id) ==
  IF participants[id] # None THEN participants[id]
  ELSE IF \E c \in request[r].created : c.id = id
  THEN LET c == CHOOSE c \in request[r].created : c.id = id IN Person(c.gender, c.dob)
  ELSE None

InTransaction(r) == request[r].at \in {"find", "insert", "judge", "create"}

\* Another open transaction has inserted the same person and the index makes this one wait.
InsertedBy(r, id) == {q \in Requests \ {r} : InTransaction(q) /\ id \in {c.id : c \in request[q].created}}

Submit(r, form) ==
  /\ request[r] = Idle
  /\ IF Wellformed(form) THEN Become(r, Begin(form, 1)) ELSE Become(r, Answered("VALIDATION_FAILED", form))
  /\ UNCHANGED <<participants, applications>>

\* Faulty: the applicants are judged by what the form says.
StateAsTyped(r, role) ==
  LET a == request[r].form[role]
  IN IF a = None THEN None
     ELSE [id |-> a.id, gender |-> a.gender, dob |-> a.dob, hasWon |-> request[r].found[role].hasWon,
           applications |-> {app.ref : app \in {x \in applications : a.id \in OccupantsOf(x)}}]

\* The next applicant to resolve, or the verdict.
After(record) ==
  IF record.role = "primary" /\ record.form.secondary # None
  THEN [record EXCEPT !.at = "find", !.role = "secondary"]
  ELSE [record EXCEPT !.at = "judge"]

\* findOrCreateParticipant, its lookup: a known person is taken as recorded.
FindParticipant(r) ==
  LET req == request[r]
      known == Seen(r, req.form[req.role].id)
  IN
  /\ req.at = "find"
  /\ Become(r, IF known = None THEN [req EXCEPT !.at = "insert"]
               ELSE After([req EXCEPT !.found[req.role] = known]))
  /\ UNCHANGED <<participants, applications>>

\* findOrCreateParticipant, its insertion.
CreateParticipant(r) ==
  LET req == request[r]
      a == req.form[req.role]
  IN
  /\ req.at = "insert"
  /\ InsertedBy(r, a.id) = {}
  /\ Become(r, IF participants[a.id] # None THEN Answered("ALREADY_APPLIED", req.form)
               ELSE After([req EXCEPT !.found[req.role] = Person(a.gender, a.dob), !.created = @ \cup {a}]))
  /\ UNCHANGED <<participants, applications>>

\* Faulty: the database only notices a transaction that waits for itself.
SelfDeadlocked(r) ==
  LET req == request[r] IN
  /\ req.at = "insert"
  /\ req.form[req.role].id \in {c.id : c \in req.created}
  /\ Become(r, Answered("INTERNAL_ERROR", req.form))
  /\ UNCHANGED <<participants, applications>>

\* Two transactions wait for each other's person, and the database ends one of them.
Deadlocked(r) ==
  LET req == request[r] IN
  /\ req.at = "insert"
  /\ \E q \in InsertedBy(r, req.form[req.role].id) :
       /\ request[q].at = "insert"
       /\ r \in InsertedBy(q, request[q].form[request[q].role].id)
  /\ Become(r, Answered("INTERNAL_ERROR", req.form))
  /\ UNCHANGED <<participants, applications>>

State(r, role) ==
  LET req == request[r]
      a == req.form[role]
  IN IF a = None THEN None
     ELSE [id |-> a.id, gender |-> req.found[role].gender, dob |-> req.found[role].dob,
           hasWon |-> req.found[role].hasWon,
           applications |-> {app.ref : app \in {x \in applications : a.id \in OccupantsOf(x)}}]

ProposedApplication(r) ==
  LET form == request[r].form IN
  [applicationId |-> None, drawYear |-> Year, expectedDrawYear |-> Year,
   entryType |-> IF form.secondary = None THEN "SINGLE" ELSE "PAIRED",
   commune |-> IF form.communeId \in DOMAIN Communes THEN Communes[form.communeId] ELSE None,
   claimedWilaya |-> form.claimedWilaya,
   primary |-> State(r, "primary"), secondary |-> State(r, "secondary"), registrationDate |-> Today]

\* A refusal undoes the transaction, the people it created included.
Judge(r) ==
  /\ request[r].at = "judge"
  /\ \E reasons \in {EvaluateEligibility(ProposedApplication(r))} :
       Become(r, IF reasons = {} THEN [request[r] EXCEPT !.at = "create"]
                 ELSE Answered(RegistrationErrorFor(reasons), request[r].form))
  /\ UNCHANGED <<participants, applications>>

Taken(form) == \E app \in applications : OccupantsOf(app) \cap IdsOf(form) # {}

\* A reference that is taken, up to the last attempt, restarts the transaction.
CollideReference(r, ref) ==
  LET req == request[r] IN
  /\ req.at = "create"
  /\ \E app \in applications : app.ref = ref
  /\ Become(r, IF req.attempt < REFERENCE_ATTEMPTS THEN Begin(req.form, req.attempt + 1)
               ELSE Answered("ALREADY_APPLIED", req.form))
  /\ UNCHANGED <<participants, applications>>

LoseRace(r) ==
  /\ request[r].at = "create"
  /\ Taken(request[r].form)
  /\ Become(r, Answered("ALREADY_APPLIED", request[r].form))
  /\ UNCHANGED <<participants, applications>>

CreateApplication(r, ref) ==
  LET form == request[r].form IN
  /\ request[r].at = "create"
  /\ \A app \in applications : app.ref # ref
  /\ ~ Taken(form)
  /\ applications' = applications \cup
       {[ref |-> ref, primary |-> form.primary.id,
         secondary |-> IF form.secondary = None THEN None ELSE form.secondary.id]}
  /\ participants' = [id \in Citizens |-> Seen(r, id)]
  /\ Become(r, Answered("RECEIPT", form))

\* POST /api/participants, which waits and conflicts as a registration does.
EnterParticipant(a) ==
  /\ participants[a.id] = None
  /\ \A r \in Requests : InTransaction(r) => a.id \notin {c.id : c \in request[r].created}
  /\ participants' = [participants EXCEPT ![a.id] = Person(a.gender, a.dob)]
  /\ UNCHANGED <<applications, request>>

\* A draw or an imported register makes somebody a winner.
WinElsewhere(id) ==
  /\ participants[id] # None
  /\ participants' = [participants EXCEPT ![id].hasWon = TRUE]
  /\ UNCHANGED <<applications, request>>

Serve(r) ==
  \/ FindParticipant(r) \/ CreateParticipant(r) \/ Deadlocked(r)
  \/ Judge(r) \/ LoseRace(r)
  \/ \E ref \in References : CollideReference(r, ref) \/ CreateApplication(r, ref)

Next ==
  \/ \E r \in Requests : Serve(r) \/ (\E form \in Forms : Submit(r, form))
  \/ \E a \in Entered : EnterParticipant(a)
  \/ \E id \in Citizens : WinElsewhere(id)

Spec == Init /\ [][Next]_vars

\* A request that was received is worked on until it is answered.
FairSpec == Spec /\ \A r \in Requests : WF_vars(Serve(r))

------------------------------------------------------------------------------
TypeOK ==
  /\ \A id \in Citizens : participants[id] # None => participants[id].gender \in {"FEMALE", "MALE"}
  /\ \A app \in applications : app.ref \in References /\ OccupantsOf(app) \subseteq Citizens
  /\ \A r \in Requests : request[r].at \in {"idle", "find", "insert", "judge", "create", "answered"}
  /\ \A r \in Requests : InTransaction(r) => request[r].attempt \in 1 .. REFERENCE_ATTEMPTS

\* Nobody is in two applications of the year, whichever places they hold in them.
OneApplicationEach == \A app, other \in applications :
  app # other => OccupantsOf(app) \cap OccupantsOf(other) = {} /\ app.ref # other.ref

\* What is recorded of a person is never changed by a form.
IdentityStands == [][\A id \in Citizens : participants[id] # None =>
  participants'[id] # None /\ participants'[id].gender = participants[id].gender
  /\ participants'[id].dob = participants[id].dob]_vars

\* A refused application leaves nobody behind.
NobodyHalfRegistered == \A id \in Citizens \ {a.id : a \in Entered} :
  participants[id] # None => \E app \in applications : id \in OccupantsOf(app)

\* By what is recorded of them and whatever was typed, two applicants are a woman and a
\* man, and a woman who applies alone is old enough to.
Lawful == \A app \in applications :
  LET first == participants[app.primary]
      ageOf(p) == CalculateAgeAt(p.dob, Today)
  IN /\ \A id \in OccupantsOf(app) : participants[id] # None /\ ageOf(participants[id]) >= MINIMUM_APPLICATION_AGE
     /\ IF app.secondary = None
        THEN first.gender = "FEMALE" => ageOf(first) >= MAHRAM_OPTIONAL_AGE
        ELSE first.gender = "FEMALE" /\ participants[app.secondary].gender = "MALE"

\* A refusal does not say which of the two applicants it is about: the same couple is
\* told the same when it was the other who won, applied already or is too young.
NamesNeither == \A r \in Requests :
  request[r].at = "judge" => AnswersAlike(ProposedApplication(r))

\* However submissions, an administrator's entries and wins elsewhere interleave: nobody
\* is in two applications of the year, a refused one leaves nobody behind, and every one
\* is lawful by what is recorded of its people, which no form changes.
OneLawfulApplication ==
  /\ [](TypeOK /\ OneApplicationEach /\ NobodyHalfRegistered /\ Lawful)
  /\ IdentityStands

\* Every request is answered, transactions that wait for each other included.
EveryoneAnswered == \A r \in Requests : request[r] # Idle ~> request[r].at = "answered"

\* What registration.service.ts says of the conflict it reports: somebody on the form
\* already has an application this year.
AlreadyAppliedIsTrue == \A r \in Requests :
  request[r].at = "answered" /\ request[r].answer = "ALREADY_APPLIED" => Taken(request[r].form)

==============================================================================
