--------------------------- MODULE RegistrationProofs ---------------------------
(***************************************************************************)
(* Proofs about Registration, for any number of submissions, forms,        *)
(* people and references: nobody is in two applications of a year, nobody  *)
(* is left behind by a refusal, what is recorded of a person stands, and   *)
(* every application is lawful by it.                                      *)
(*                                                                         *)
(* A transaction reads its applicants in several steps, while others       *)
(* insert the same people.  What it found of an applicant goes on to agree *)
(* with what is recorded, or with what it inserted itself and nobody else  *)
(* can insert before it ends (Sound, Apart).                               *)
(***************************************************************************)
EXTENDS Registration, Induction, TLAPS

Working == {"find", "insert", "judge", "create"}
Fields == {"at", "role", "form", "attempt", "found", "created"}

IdsIn(created) == {c.id : c \in created}

Agrees(found, known) == known # None /\ found.gender = known.gender /\ found.dob = known.dob

\* What was found of an applicant is what is recorded, or what this transaction inserted.
Vouched(req, recorded, role) ==
  LET a == req.form[role] IN
  a # None =>
    /\ req.found[role] \in Participant
    /\ \/ recorded[a.id] # None /\ Agrees(req.found[role], recorded[a.id])
       \/ recorded[a.id] = None /\ a \in req.created /\ Agrees(req.found[role], a)

AgeToday(found) == CalculateAgeAt(found.dob, Today)

LawfulAlone(first) ==
  AgeToday(first) >= MINIMUM_APPLICATION_AGE
  /\ (first.gender = "FEMALE" => AgeToday(first) >= MAHRAM_OPTIONAL_AGE)

LawfulPair(first, second) ==
  /\ AgeToday(first) >= MINIMUM_APPLICATION_AGE /\ AgeToday(second) >= MINIMUM_APPLICATION_AGE
  /\ first.gender = "FEMALE" /\ second.gender = "MALE"

Judged(req) ==
  IF req.form["secondary"] = None THEN LawfulAlone(req.found["primary"])
  ELSE LawfulPair(req.found["primary"], req.found["secondary"])

\* A transaction that is open.
Sound(req, recorded) ==
  /\ DOMAIN req = Fields /\ req.at \in Working
  /\ req.form \in Forms /\ Wellformed(req.form)
  /\ req.role \in Roles /\ req.form[req.role] # None
  /\ req.attempt \in 1 .. REFERENCE_ATTEMPTS
  /\ DOMAIN req.found = Roles
  /\ req.created \subseteq Applicants(req.form)
  /\ \A c \in req.created : recorded[c.id] = None
  /\ req.role = "secondary" \/ req.at \in {"judge", "create"} => Vouched(req, recorded, "primary")
  /\ req.at \in {"judge", "create"} => Vouched(req, recorded, "secondary")
  /\ req.at = "create" => Judged(req)

AtRest(req) == req = Idle \/ req.at = "answered"

\* A person on record, at least as far as a form shows them.
Persists(before, after) ==
  \A id \in Citizens : before[id] # None => after[id] # None /\ Agrees(after[id], before[id])

LawfulBy(app, recorded) ==
  LET first == recorded[app.primary]
      second == recorded[app.secondary]
  IN
  /\ app.primary \in Citizens /\ first # None
  /\ app.secondary \in Citizens \cup {None} /\ app.primary # app.secondary
  /\ IF app.secondary = None THEN LawfulAlone(first) ELSE second # None /\ LawfulPair(first, second)

TypeInv ==
  /\ participants \in [Citizens -> {None} \cup Participant]
  /\ \A app \in applications : app.ref \in References
  /\ DOMAIN request = Requests

RequestsSound == \A r \in Requests : AtRest(request[r]) \/ Sound(request[r], participants)

\* No two open transactions have inserted the same person.
Apart == \A r, q \in Requests :
  r # q /\ InTransaction(r) /\ InTransaction(q) =>
    IdsIn(request[r].created) \cap IdsIn(request[q].created) = {}

AllLawful == \A app \in applications : LawfulBy(app, participants)

IInv == TypeInv /\ RequestsSound /\ Apart /\ AllLawful /\ OneApplicationEach /\ NobodyHalfRegistered

------------------------------------------------------------------------------
(* Forms                                                                    *)

\* Two applicants of a form are told apart by their ids, and everybody on one is a person.
LEMMA FormsAre ==
  ASSUME NEW form \in Forms
  PROVE  /\ form["primary"] \in Applicant /\ form["primary"] # None
         /\ form["secondary"] \in Applicant \cup {None}
         /\ \A role \in Roles : form[role] # None => form[role] \in Applicant /\ form[role].id \in Citizens
         /\ \A a \in Applicants(form) : a \in Applicant /\ a.id \in IdsOf(form) /\ a.id \in Citizens
         /\ IdsOf(form) \subseteq Citizens
         /\ Wellformed(form) => \A a, b \in Applicants(form) : a.id = b.id => a = b
  <1>1. /\ form["primary"] \in Applicant /\ form["primary"] # None
        /\ form["secondary"] \in Applicant \cup {None}
    BY FormsAssumption
  <1>2. \A a \in Applicant : a.id \in Citizens
    BY DEF Applicant
  <1>3. \A a : a \in Applicants(form) <=> a # None /\ (a = form["primary"] \/ a = form["secondary"])
    BY DEF Applicants, Roles
  <1>4. \A a \in Applicants(form) : a \in Applicant /\ a.id \in IdsOf(form) /\ a.id \in Citizens
    BY <1>1, <1>2, <1>3 DEF IdsOf
  <1>5. IdsOf(form) \subseteq Citizens
    BY <1>4 DEF IdsOf
  <1>6. Wellformed(form) => \A a, b \in Applicants(form) : a.id = b.id => a = b
    BY <1>3 DEF Wellformed
  <1>7. \A role \in Roles : form[role] # None => form[role] \in Applicant /\ form[role].id \in Citizens
    BY <1>1, <1>2 DEF Roles
  <1> QED
    BY <1>1, <1>4, <1>5, <1>6, <1>7

\* What a submission is told of an applicant it may hold: the record, or its own insertion.
LEMMA WhatIsSeen ==
  ASSUME NEW r \in Requests, NEW id
  PROVE  \/ participants[id] # None /\ Seen(r, id) = participants[id]
         \/ /\ participants[id] = None
            /\ \E c \in request[r].created : c.id = id /\ Seen(r, id) = Person(c.gender, c.dob)
         \/ /\ participants[id] = None /\ Seen(r, id) = None
            /\ id \notin IdsIn(request[r].created)
  <1>1. PICK created : created = request[r].created
    OBVIOUS
  <1>2. CASE \E c \in created : c.id = id
    <2>1. PICK d : d = CHOOSE c \in created : c.id = id
      OBVIOUS
    <2>2. d \in created /\ d.id = id
      BY <1>2, <2>1
    <2>3. participants[id] = None => Seen(r, id) = Person(d.gender, d.dob)
      BY <1>1, <1>2, <2>1 DEF Seen
    <2> QED
      BY <1>1, <2>2, <2>3 DEF Seen
  <1>3. CASE ~ \E c \in created : c.id = id
    BY <1>1, <1>3 DEF Seen, IdsIn
  <1> QED
    BY <1>2, <1>3

\* Whom somebody inserts is a participant.
LEMMA Inserted == \A a \in Applicant :
  /\ Person(a.gender, a.dob) \in Participant /\ Person(a.gender, a.dob) # None
  /\ Person(a.gender, a.dob).gender = a.gender /\ Person(a.gender, a.dob).dob = a.dob
  <1> TAKE a \in Applicant
  <1>1. Person(a.gender, a.dob) \in Participant
    BY DEF Person, Participant, Applicant
  <1> QED
    BY <1>1, FormsAssumption DEF Person

------------------------------------------------------------------------------
(* Transactions                                                             *)

\* What holds of a transaction goes on to hold as records are added elsewhere.
LEMMA SoundLater ==
  ASSUME NEW req, NEW before, NEW after, Sound(req, before), Persists(before, after),
         \A c \in req.created : after[c.id] = None
  PROVE  Sound(req, after)
  <1>1. ASSUME NEW role \in Roles, Vouched(req, before, role)
        PROVE  Vouched(req, after, role)
    <2>1. PICK a, found : a = req.form[role] /\ found = req.found[role]
      OBVIOUS
    <2>2. CASE a = None
      BY <2>1, <2>2 DEF Vouched
    <2>3. CASE a # None
      <3>1. a.id \in Citizens
        BY <2>1, <2>3, FormsAre DEF Sound
      <3>2. \/ before[a.id] # None /\ Agrees(found, before[a.id])
            \/ before[a.id] = None /\ a \in req.created /\ Agrees(found, a)
        BY <1>1, <2>1, <2>3 DEF Vouched
      <3>3. \/ after[a.id] # None /\ Agrees(found, after[a.id])
            \/ after[a.id] = None /\ a \in req.created /\ Agrees(found, a)
        BY <3>1, <3>2 DEF Persists, Agrees
      <3> QED
        BY <1>1, <2>1, <3>3 DEF Vouched
    <2> QED
      BY <2>2, <2>3
  <1> QED
    BY <1>1 DEF Sound, Roles

\* A transaction begins with nobody found.
LEMMA BeginIsSound ==
  ASSUME NEW form \in Forms, Wellformed(form), NEW attempt \in 1 .. REFERENCE_ATTEMPTS, NEW recorded
  PROVE  Sound(Begin(form, attempt), recorded) /\ Begin(form, attempt).created = {}
  <1>1. PICK req : req = Begin(form, attempt)
    OBVIOUS
  <1>2. /\ DOMAIN req = Fields /\ req.at = "find" /\ req.role = "primary" /\ req.form = form
        /\ req.attempt = attempt /\ req.created = {} /\ DOMAIN req.found = Roles
    BY <1>1 DEF Begin, Fields, Roles
  <1>3. form["primary"] # None
    BY FormsAre
  <1> QED
    BY <1>1, <1>2, <1>3 DEF Sound, Working, Roles

\* On to the next applicant, or to the verdict, with this one found.
LEMMA AfterIsSound ==
  ASSUME NEW req, NEW recorded, Sound(req, recorded), req.at \in {"find", "insert"},
         Vouched(req, recorded, req.role)
  PROVE  Sound(After(req), recorded) /\ After(req).created = req.created
  <1>1. CASE req.role = "primary" /\ req.form.secondary # None
    <2>1. PICK new : new = [req EXCEPT !.at = "find", !.role = "secondary"]
      OBVIOUS
    <2>2. After(req) = new
      BY <1>1, <2>1 DEF After
    <2>3. /\ DOMAIN new = Fields /\ new.at = "find" /\ new.role = "secondary" /\ new.form = req.form
          /\ new.attempt = req.attempt /\ new.created = req.created /\ new.found = req.found
      BY <2>1 DEF Sound, Fields
    <2>4. Vouched(new, recorded, "primary")
      BY <1>1, <2>3 DEF Vouched
    <2> QED
      BY <1>1, <2>2, <2>3, <2>4 DEF Sound, Working, Roles
  <1>2. CASE ~ (req.role = "primary" /\ req.form.secondary # None)
    <2>1. PICK new : new = [req EXCEPT !.at = "judge"]
      OBVIOUS
    <2>2. After(req) = new
      BY <1>2, <2>1 DEF After
    <2>3. /\ DOMAIN new = Fields /\ new.at = "judge" /\ new.role = req.role /\ new.form = req.form
          /\ new.attempt = req.attempt /\ new.created = req.created /\ new.found = req.found
      BY <2>1 DEF Sound, Fields
    <2>4. Vouched(req, recorded, "primary") /\ Vouched(req, recorded, "secondary")
      BY <1>2 DEF Sound, Roles, Vouched
    <2>5. Vouched(new, recorded, "primary") /\ Vouched(new, recorded, "secondary")
      BY <2>3, <2>4 DEF Vouched
    <2> QED
      BY <2>2, <2>3, <2>5 DEF Sound, Working, Roles
  <1> QED
    BY <1>1, <1>2

\* A submission whose transaction is open is sound.
LEMMA Open ==
  ASSUME IInv, NEW r \in Requests, request[r].at \in Working
  PROVE  Sound(request[r], participants) /\ InTransaction(r)
  BY DEF IInv, RequestsSound, AtRest, Idle, Working, InTransaction

\* A step of one transaction that commits nothing.
LEMMA OneRequest ==
  ASSUME IInv, NEW r \in Requests, NEW new, request' = [request EXCEPT ![r] = new],
         UNCHANGED <<participants, applications>>,
         \/ AtRest(new)
         \/ /\ Sound(new, participants)
            /\ \A q \in Requests \ {r} :
                 InTransaction(q) => IdsIn(new.created) \cap IdsIn(request[q].created) = {}
  PROVE  IInv' /\ Persists(participants, participants')
  <1>1. \A q \in Requests : request'[q] = IF q = r THEN new ELSE request[q]
    BY DEF IInv, TypeInv
  <1>2. TypeInv'
    BY DEF IInv, TypeInv
  <1>3. RequestsSound'
    BY <1>1 DEF IInv, RequestsSound
  <1>4. Apart'
    <2> SUFFICES ASSUME NEW p \in Requests, NEW q \in Requests, p # q, InTransaction(p)', InTransaction(q)'
                 PROVE  IdsIn(request'[p].created) \cap IdsIn(request'[q].created) = {}
      BY DEF Apart
    <2>1. ~ AtRest(request'[p]) /\ ~ AtRest(request'[q])
      BY DEF InTransaction, AtRest, Idle
    <2>2. CASE p # r /\ q # r
      BY <1>1, <2>2 DEF IInv, Apart, InTransaction
    <2>3. CASE p = r
      <3>1. InTransaction(q) /\ request'[q] = request[q] /\ request'[p] = new
        BY <1>1, <2>3 DEF InTransaction
      <3> QED
        BY <2>1, <2>3, <3>1
    <2>4. CASE q = r
      <3>1. InTransaction(p) /\ request'[p] = request[p] /\ request'[q] = new
        BY <1>1, <2>4 DEF InTransaction
      <3>2. IdsIn(new.created) \cap IdsIn(request[p].created) = {}
        BY <2>1, <2>4, <3>1
      <3> QED
        BY <3>1, <3>2
    <2> QED
      BY <2>2, <2>3, <2>4
  <1>5. AllLawful' /\ OneApplicationEach' /\ NobodyHalfRegistered'
    BY DEF IInv, AllLawful, OneApplicationEach, NobodyHalfRegistered, OccupantsOf
  <1>6. Persists(participants, participants')
    BY DEF Persists, Agrees
  <1> QED
    BY <1>2, <1>3, <1>4, <1>5, <1>6 DEF IInv

\* An answer is the end of a transaction.
LEMMA AnswerIsRest == \A answer, form : AtRest(Answered(answer, form))
  BY DEF AtRest, Answered

\* A step of an open transaction that inserts nobody.
LEMMA OneTransaction ==
  ASSUME IInv, NEW r \in Requests, NEW new, request' = [request EXCEPT ![r] = new],
         UNCHANGED <<participants, applications>>, InTransaction(r),
         Sound(new, participants), new.created \subseteq request[r].created
  PROVE  IInv' /\ Persists(participants, participants')
  <1>1. IdsIn(new.created) \subseteq IdsIn(request[r].created)
    BY DEF IdsIn
  <1>2. \A q \in Requests \ {r} :
          InTransaction(q) => IdsIn(new.created) \cap IdsIn(request[q].created) = {}
    BY <1>1 DEF IInv, Apart
  <1> QED
    BY <1>2, OneRequest

\* A submission begins, or is refused for its form.
LEMMA SubmittingKeeps ==
  ASSUME IInv, NEW r \in Requests, NEW form \in Forms, Submit(r, form)
  PROVE  IInv' /\ Persists(participants, participants')
  <1>1. 1 \in 1 .. REFERENCE_ATTEMPTS
    BY DEF REFERENCE_ATTEMPTS
  <1>2. CASE Wellformed(form)
    <2>1. Sound(Begin(form, 1), participants) /\ IdsIn(Begin(form, 1).created) = {}
      BY <1>1, <1>2, BeginIsSound DEF IdsIn
    <2> QED
      BY <1>2, <2>1, OneRequest DEF Submit, Become
  <1>3. CASE ~ Wellformed(form)
    BY <1>3, AnswerIsRest, OneRequest DEF Submit, Become
  <1> QED
    BY <1>2, <1>3

\* An applicant who is known is found as recorded.
LEMMA FindingKeeps ==
  ASSUME IInv, NEW r \in Requests, FindParticipant(r)
  PROVE  IInv' /\ Persists(participants, participants')
  <1>1. PICK req, a, known : req = request[r] /\ a = req.form[req.role] /\ known = Seen(r, a.id)
    OBVIOUS
  <1>2. Sound(req, participants) /\ req.at = "find" /\ InTransaction(r)
    BY <1>1, Open DEF FindParticipant, Working
  <1>3. /\ a \in Applicant /\ a # None /\ a.id \in Citizens /\ a \in Applicants(req.form)
        /\ \A c \in Applicants(req.form) : c \in Applicant /\ (c.id = a.id => c = a)
    BY <1>1, <1>2, FormsAre DEF Sound, Applicants
  <1>4. CASE known = None
    <2>1. PICK new : new = [req EXCEPT !.at = "insert"]
      OBVIOUS
    <2>2. /\ DOMAIN new = Fields /\ new.at = "insert" /\ new.role = req.role /\ new.form = req.form
          /\ new.attempt = req.attempt /\ new.created = req.created /\ new.found = req.found
      BY <1>2, <2>1 DEF Sound, Fields
    <2>3. Vouched(req, participants, "primary") => Vouched(new, participants, "primary")
      BY <2>2 DEF Vouched
    <2>4. Sound(new, participants)
      BY <1>2, <2>2, <2>3 DEF Sound, Working
    <2>5. request' = [request EXCEPT ![r] = new]
      BY <1>1, <1>4, <2>1 DEF FindParticipant, Become
    <2> QED
      BY <1>1, <1>2, <2>2, <2>4, <2>5, OneTransaction DEF FindParticipant
  <1>5. CASE known # None
    <2>1. PICK new : new = [req EXCEPT !.found[req.role] = known]
      OBVIOUS
    <2>2. /\ DOMAIN new = Fields /\ new.at = "find" /\ new.role = req.role /\ new.form = req.form
          /\ new.attempt = req.attempt /\ new.created = req.created
          /\ new.found = [req.found EXCEPT ![req.role] = known]
      BY <1>2, <2>1 DEF Sound, Fields
    <2>3. DOMAIN new.found = Roles /\ new.found[req.role] = known
          /\ (req.role = "secondary" => new.found["primary"] = req.found["primary"])
      BY <1>2, <2>2 DEF Sound
    <2>4. req.role = "secondary" => Vouched(new, participants, "primary")
      <3>1. req.role = "secondary" => Vouched(req, participants, "primary")
        BY <1>2 DEF Sound
      <3> QED
        BY <2>2, <2>3, <3>1 DEF Vouched
    <2>5. Vouched(new, participants, req.role)
      <3>1. CASE participants[a.id] # None /\ known = participants[a.id]
        <4>1. known \in Participant
          BY <1>3, <3>1 DEF IInv, TypeInv
        <4> QED
          BY <1>1, <2>2, <2>3, <3>1, <4>1 DEF Vouched, Agrees
      <3>2. ASSUME NEW c \in req.created, c.id = a.id, known = Person(c.gender, c.dob), participants[a.id] = None
            PROVE  Vouched(new, participants, req.role)
        <4>1. c = a
          BY <1>2, <1>3, <3>2 DEF Sound
        <4>2. known \in Participant /\ known.gender = a.gender /\ known.dob = a.dob
          BY <1>3, <3>2, <4>1, Inserted
        <4> QED
          BY <1>1, <1>3, <2>2, <2>3, <3>2, <4>1, <4>2 DEF Vouched, Agrees
      <3> QED
        BY <1>1, <1>5, <3>1, <3>2, WhatIsSeen
    <2>6. Sound(new, participants)
      BY <1>2, <2>2, <2>3, <2>4 DEF Sound, Working
    <2>7. Sound(After(new), participants) /\ After(new).created = req.created
      BY <2>2, <2>5, <2>6, AfterIsSound
    <2>8. request' = [request EXCEPT ![r] = After(new)]
      BY <1>1, <1>5, <2>1 DEF FindParticipant, Become
    <2> QED
      BY <1>1, <1>2, <2>7, <2>8, OneTransaction DEF FindParticipant
  <1> QED
    BY <1>4, <1>5

\* An applicant who is not known is inserted, when no other transaction has.
LEMMA CreatingKeeps ==
  ASSUME IInv, NEW r \in Requests, CreateParticipant(r)
  PROVE  IInv' /\ Persists(participants, participants')
  <1>1. PICK req, a : req = request[r] /\ a = req.form[req.role]
    OBVIOUS
  <1>2. Sound(req, participants) /\ req.at = "insert" /\ InTransaction(r)
    BY <1>1, Open DEF CreateParticipant, Working
  <1>3. a \in Applicant /\ a # None /\ a \in Applicants(req.form)
    BY <1>1, <1>2, FormsAre DEF Sound, Applicants
  <1>4. CASE participants[a.id] # None
    BY <1>1, <1>4, AnswerIsRest, OneRequest DEF CreateParticipant, Become
  <1>5. CASE participants[a.id] = None
    <2>1. PICK found : found = Person(a.gender, a.dob)
      OBVIOUS
    <2>2. PICK new : new = [req EXCEPT !.found[req.role] = found, !.created = @ \cup {a}]
      OBVIOUS
    <2>3. /\ DOMAIN new = Fields /\ new.at = "insert" /\ new.role = req.role /\ new.form = req.form
          /\ new.attempt = req.attempt /\ new.created = req.created \cup {a}
          /\ new.found = [req.found EXCEPT ![req.role] = found]
      BY <1>2, <2>2 DEF Sound, Fields
    <2>4. DOMAIN new.found = Roles /\ new.found[req.role] = found
          /\ (req.role = "secondary" => new.found["primary"] = req.found["primary"])
      BY <1>2, <2>3 DEF Sound
    <2>5. req.role = "secondary" => Vouched(new, participants, "primary")
      <3>1. req.role = "secondary" => Vouched(req, participants, "primary")
        BY <1>2 DEF Sound
      <3> QED
        BY <2>3, <2>4, <3>1 DEF Vouched
    <2>6. Vouched(new, participants, req.role)
      <3>1. found \in Participant /\ Agrees(found, a)
        BY <1>3, <2>1, Inserted DEF Agrees
      <3> QED
        BY <1>1, <1>5, <2>3, <2>4, <3>1 DEF Vouched
    <2>7. Sound(new, participants)
      BY <1>2, <1>3, <1>5, <2>3, <2>4, <2>5 DEF Sound, Working
    <2>8. Sound(After(new), participants) /\ After(new).created = req.created \cup {a}
      BY <1>2, <2>3, <2>6, <2>7, AfterIsSound
    <2>9. request' = [request EXCEPT ![r] = After(new)]
      BY <1>1, <1>5, <2>1, <2>2 DEF CreateParticipant, Become
    <2>10. ASSUME NEW q \in Requests \ {r}, InTransaction(q)
           PROVE  IdsIn(After(new).created) \cap IdsIn(request[q].created) = {}
      <3>1. a.id \notin IdsIn(request[q].created)
        BY <1>1, <2>10 DEF CreateParticipant, InsertedBy, IdsIn
      <3>2. IdsIn(req.created) \cap IdsIn(request[q].created) = {}
        BY <1>1, <1>2, <2>10 DEF IInv, Apart
      <3>3. IdsIn(After(new).created) = IdsIn(req.created) \cup {a.id}
        BY <2>8 DEF IdsIn
      <3> QED
        BY <3>1, <3>2, <3>3
    <2> QED
      BY <2>8, <2>9, <2>10, OneRequest DEF CreateParticipant
  <1> QED
    BY <1>4, <1>5

\* A reference that is taken restarts the transaction, or ends it.
LEMMA CollidingKeeps ==
  ASSUME IInv, NEW r \in Requests, NEW ref, CollideReference(r, ref)
  PROVE  IInv' /\ Persists(participants, participants')
  <1>1. PICK req : req = request[r]
    OBVIOUS
  <1>2. Sound(req, participants) /\ InTransaction(r)
    BY <1>1, Open DEF CollideReference, Working
  <1>3. CASE req.attempt < REFERENCE_ATTEMPTS
    <2>1. req.attempt + 1 \in 1 .. REFERENCE_ATTEMPTS
      BY <1>2, <1>3 DEF Sound, REFERENCE_ATTEMPTS
    <2>2. /\ Sound(Begin(req.form, req.attempt + 1), participants)
          /\ Begin(req.form, req.attempt + 1).created = {}
      BY <1>2, <2>1, BeginIsSound DEF Sound
    <2>3. request' = [request EXCEPT ![r] = Begin(req.form, req.attempt + 1)]
      BY <1>1, <1>3 DEF CollideReference, Become
    <2> QED
      BY <1>2, <2>2, <2>3, OneTransaction DEF CollideReference
  <1>4. CASE ~ req.attempt < REFERENCE_ATTEMPTS
    BY <1>1, <1>4, AnswerIsRest, OneRequest DEF CollideReference, Become
  <1> QED
    BY <1>3, <1>4

\* A transaction that the database ends, or that another has overtaken, leaves nothing.
LEMMA EndingKeeps ==
  ASSUME IInv, NEW r \in Requests, Deadlocked(r) \/ LoseRace(r)
  PROVE  IInv' /\ Persists(participants, participants')
  BY AnswerIsRest, OneRequest DEF Deadlocked, LoseRace, Become

------------------------------------------------------------------------------
(* The verdict                                                              *)

\* Whoever is judged without a reason against them is lawful.
LEMMA NoReasonIsLawful ==
  ASSUME NEW s, EvaluateEligibility(s) = {}
  PROVE  LET first == s.primary
             second == s.secondary
             ageOf(a) == CalculateAgeAt(a.dob, s.registrationDate)
             paired == s.entryType = "PAIRED"
         IN /\ first # None => ~ ageOf(first) < MINIMUM_APPLICATION_AGE
            /\ second # None => ~ ageOf(second) < MINIMUM_APPLICATION_AGE
            /\ ~ paired /\ first # None /\ first.gender = "FEMALE" => ~ ageOf(first) < MAHRAM_OPTIONAL_AGE
            /\ paired /\ first # None /\ second # None => first.gender = "FEMALE" /\ second.gender = "MALE"
  <1>1. /\ s.primary # None =>
             ~ CalculateAgeAt(s.primary.dob, s.registrationDate) < MINIMUM_APPLICATION_AGE
        /\ s.secondary # None =>
             ~ CalculateAgeAt(s.secondary.dob, s.registrationDate) < MINIMUM_APPLICATION_AGE
    <2>1. "UNDER_MINIMUM_AGE" \notin EvaluateEligibility(s)
      OBVIOUS
    <2>2. "SECONDARY_UNDER_MINIMUM_AGE" \notin EvaluateEligibility(s)
      OBVIOUS
    <2> QED
      BY <2>1, <2>2, Zenon DEF EvaluateEligibility
  <1>2. ~ s.entryType = "PAIRED" /\ s.primary # None /\ s.primary.gender = "FEMALE" =>
          ~ CalculateAgeAt(s.primary.dob, s.registrationDate) < MAHRAM_OPTIONAL_AGE
    <2>1. "MAHRAM_REQUIRED" \notin EvaluateEligibility(s)
      OBVIOUS
    <2> QED
      BY <2>1, Zenon DEF EvaluateEligibility
  <1>3. s.entryType = "PAIRED" /\ s.primary # None /\ s.secondary # None =>
          s.primary.gender = "FEMALE" /\ s.secondary.gender = "MALE"
    <2>1. "INVALID_PAIRED_GENDERS" \notin EvaluateEligibility(s)
      OBVIOUS
    <2> QED
      BY <2>1, Zenon DEF EvaluateEligibility
  <1> QED
    BY <1>1, <1>2, <1>3

\* What the rules are given of an applicant is what was found of them.
LEMMA StateIsFound ==
  ASSUME IInv, NEW r \in Requests, request[r].at = "judge", NEW role \in Roles,
         request[r].form[role] # None
  PROVE  /\ request[r].found[role] \in Participant
         /\ State(r, role) \in ApplicantState /\ State(r, role) # None
         /\ State(r, role).gender = request[r].found[role].gender
         /\ State(r, role).dob = request[r].found[role].dob
  <1>1. PICK req, a, found : req = request[r] /\ a = req.form[role] /\ found = req.found[role]
    OBVIOUS
  <1>2. Sound(req, participants)
    BY <1>1, Open DEF Working
  <1>3. a # None /\ a \in Applicant
    BY <1>1, <1>2, FormsAre DEF Sound, Roles
  <1>4. found \in Participant
    BY <1>1, <1>2, <1>3 DEF Sound, Vouched, Roles
  <1>5. PICK refs : refs = {app.ref : app \in {x \in applications : a.id \in OccupantsOf(x)}}
    OBVIOUS
  <1>6. State(r, role) = [id |-> a.id, gender |-> found.gender, dob |-> found.dob,
                          hasWon |-> found.hasWon, applications |-> refs]
    BY <1>1, <1>3, <1>5 DEF State
  <1>7. refs \in SUBSET References
    BY <1>5 DEF IInv, TypeInv
  <1>8. State(r, role) \in ApplicantState
    BY <1>3, <1>4, <1>6, <1>7 DEF ApplicantState, Participant, Applicant
  <1> QED
    BY <1>1, <1>4, <1>6, <1>8, FormsAssumption

\* A verdict keeps a transaction sound: no reason against the found is the law for them.
LEMMA JudgingKeeps ==
  ASSUME IInv, NEW r \in Requests, Judge(r)
  PROVE  IInv' /\ Persists(participants, participants')
  <1>1. PICK req, form : req = request[r] /\ form = req.form
    OBVIOUS
  <1>2. Sound(req, participants) /\ InTransaction(r) /\ req.at = "judge"
    BY <1>1, Open DEF Judge, Working
  <1>3. PICK s, reasons : s = ProposedApplication(r) /\ reasons = EvaluateEligibility(s)
    OBVIOUS
  <1>4. request' = [request EXCEPT ![r] =
          IF reasons = {} THEN [req EXCEPT !.at = "create"]
          ELSE Answered(RegistrationErrorFor(reasons), form)]
    BY <1>1, <1>3 DEF Judge, Become
  <1>5. CASE reasons # {}
    BY <1>4, <1>5, AnswerIsRest, OneRequest DEF Judge
  <1>6. CASE reasons = {}
    <2>1. PICK new : new = [req EXCEPT !.at = "create"]
      OBVIOUS
    <2>2. /\ DOMAIN new = Fields /\ new.at = "create" /\ new.role = req.role /\ new.form = req.form
          /\ new.attempt = req.attempt /\ new.created = req.created /\ new.found = req.found
      BY <1>2, <2>1 DEF Sound, Fields
    <2>3. Vouched(req, participants, "primary") /\ Vouched(req, participants, "secondary")
      BY <1>2 DEF Sound
    <2>4. Vouched(new, participants, "primary") /\ Vouched(new, participants, "secondary")
      BY <2>2, <2>3 DEF Vouched
    <2>5. PICK first, second, one, two :
            /\ first = s.primary /\ second = s.secondary
            /\ one = req.found["primary"] /\ two = req.found["secondary"]
      OBVIOUS
    <2>6. /\ first = State(r, "primary") /\ second = State(r, "secondary")
          /\ s.registrationDate = Today
          /\ s.entryType = IF form["secondary"] = None THEN "SINGLE" ELSE "PAIRED"
      BY <1>1, <1>3, <2>5 DEF ProposedApplication
    <2>7. one \in Participant /\ first # None /\ first.gender = one.gender /\ first.dob = one.dob
      <3>1. form["primary"] # None
        BY <1>1, <1>2, FormsAre DEF Sound
      <3> QED
        BY <1>1, <1>2, <2>5, <2>6, <3>1, StateIsFound DEF Roles
    <2>8. form["secondary"] # None =>
            two \in Participant /\ second # None /\ second.gender = two.gender /\ second.dob = two.dob
      BY <1>1, <1>2, <2>5, <2>6, StateIsFound DEF Roles
    <2>9. \A found \in Participant : AgeToday(found) \in Int
      BY FormsAssumption DEF AgeToday, CalculateAgeAt, Participant, Births
    <2>10. /\ ~ AgeToday(one) < MINIMUM_APPLICATION_AGE
           /\ form["secondary"] # None => ~ AgeToday(two) < MINIMUM_APPLICATION_AGE
           /\ form["secondary"] = None /\ one.gender = "FEMALE" => ~ AgeToday(one) < MAHRAM_OPTIONAL_AGE
           /\ form["secondary"] # None => one.gender = "FEMALE" /\ two.gender = "MALE"
      BY <1>3, <1>6, <2>5, <2>6, <2>7, <2>8, NoReasonIsLawful DEF AgeToday
    <2>11. Judged(new)
      BY <1>1, <2>2, <2>5, <2>7, <2>8, <2>9, <2>10
         DEF Judged, LawfulAlone, LawfulPair, MINIMUM_APPLICATION_AGE, MAHRAM_OPTIONAL_AGE
    <2>12. Sound(new, participants)
      BY <1>2, <2>2, <2>4, <2>11 DEF Sound, Working
    <2> QED
      BY <1>1, <1>2, <1>4, <1>6, <2>1, <2>2, <2>12, OneTransaction DEF Judge
  <1> QED
    BY <1>5, <1>6

------------------------------------------------------------------------------
(* What is committed                                                        *)

\* The law is by gender and date of birth.
LEMMA LawfulLater ==
  ASSUME NEW app, NEW before, NEW after, LawfulBy(app, before), Persists(before, after)
  PROVE  LawfulBy(app, after)
  <1>1. PICK one, one2, two, two2 : /\ one = before[app.primary] /\ one2 = after[app.primary]
                                    /\ two = before[app.secondary] /\ two2 = after[app.secondary]
    OBVIOUS
  <1>2. one # None /\ one2 # None /\ one.gender = one2.gender /\ one.dob = one2.dob
    BY <1>1 DEF LawfulBy, Persists, Agrees
  <1>3. app.secondary # None =>
          two # None /\ two2 # None /\ two.gender = two2.gender /\ two.dob = two2.dob
    BY <1>1 DEF LawfulBy, Persists, Agrees
  <1> QED
    BY <1>1, <1>2, <1>3 DEF LawfulBy, LawfulAlone, LawfulPair, AgeToday

\* People are added and win: whatever is open or was accepted stands.
LEMMA MeanwhileKeeps ==
  ASSUME IInv, UNCHANGED <<applications, request>>,
         participants' \in [Citizens -> {None} \cup Participant],
         Persists(participants, participants'),
         \A id \in Citizens : participants[id] = None /\ participants'[id] # None =>
           /\ id \in {a.id : a \in Entered}
           /\ \A r \in Requests : InTransaction(r) => id \notin IdsIn(request[r].created)
  PROVE  IInv'
  <1>1. TypeInv'
    BY DEF IInv, TypeInv
  <1>2. RequestsSound'
    <2> SUFFICES ASSUME NEW r \in Requests, ~ AtRest(request[r])
                 PROVE  Sound(request[r], participants')
      BY DEF RequestsSound
    <2>1. PICK req : req = request[r]
      OBVIOUS
    <2>2. Sound(req, participants) /\ InTransaction(r)
      BY <2>1 DEF IInv, RequestsSound, Sound, Working, InTransaction
    <2>3. ASSUME NEW c \in req.created
          PROVE  participants'[c.id] = None
      <3>1. c.id \in IdsIn(req.created) /\ participants[c.id] = None
        BY <2>2 DEF IdsIn, Sound
      <3>2. c.id \in Citizens
        BY <2>2, FormsAre DEF Sound
      <3> QED
        BY <2>1, <2>2, <3>1, <3>2
    <2> QED
      BY <2>1, <2>2, <2>3, SoundLater
  <1>3. Apart'
    BY DEF IInv, Apart, InTransaction
  <1>4. AllLawful'
    BY LawfulLater DEF IInv, AllLawful
  <1>5. OneApplicationEach' /\ NobodyHalfRegistered'
    BY DEF IInv, OneApplicationEach, NobodyHalfRegistered, OccupantsOf
  <1> QED
    BY <1>1, <1>2, <1>3, <1>4, <1>5 DEF IInv

\* POST /api/participants enters whom no open transaction has inserted.
LEMMA EnteringKeeps ==
  ASSUME IInv, NEW a \in Entered, EnterParticipant(a)
  PROVE  IInv' /\ Persists(participants, participants')
  <1>1. a \in Applicant /\ a.id \in Citizens
    BY FormsAssumption DEF Applicant
  <1>2. PICK person : person = Person(a.gender, a.dob) /\ person \in Participant
    BY <1>1, Inserted
  <1>3. /\ participants' = [participants EXCEPT ![a.id] = person] /\ participants[a.id] = None
        /\ UNCHANGED <<applications, request>>
    BY <1>2 DEF EnterParticipant
  <1>4. participants' \in [Citizens -> {None} \cup Participant]
    BY <1>2, <1>3 DEF IInv, TypeInv
  <1>5. Persists(participants, participants')
    BY <1>3 DEF Persists, Agrees, IInv, TypeInv
  <1>6. \A r \in Requests : InTransaction(r) => a.id \notin IdsIn(request[r].created)
    BY DEF EnterParticipant, IdsIn
  <1>7. \A id \in Citizens : participants[id] = None /\ participants'[id] # None => id = a.id
    BY <1>3 DEF IInv, TypeInv
  <1> QED
    BY <1>3, <1>4, <1>5, <1>6, <1>7, MeanwhileKeeps

\* Winning changes neither a gender nor a date of birth.
LEMMA WinningKeeps ==
  ASSUME IInv, NEW id \in Citizens, WinElsewhere(id)
  PROVE  IInv' /\ Persists(participants, participants')
  <1>1. PICK person, winner : person = participants[id] /\ winner = [person EXCEPT !.hasWon = TRUE]
    OBVIOUS
  <1>2. /\ participants' = [participants EXCEPT ![id] = winner] /\ person # None
        /\ UNCHANGED <<applications, request>>
    BY <1>1 DEF WinElsewhere
  <1>3. person \in Participant
    BY <1>1, <1>2 DEF IInv, TypeInv
  <1>4. winner \in Participant /\ winner.gender = person.gender /\ winner.dob = person.dob
    BY <1>1, <1>3 DEF Participant
  <1>5. winner # None
    BY <1>4, FormsAssumption
  <1>6. participants' \in [Citizens -> {None} \cup Participant]
    BY <1>2, <1>4 DEF IInv, TypeInv
  <1>7. Persists(participants, participants')
    BY <1>1, <1>2, <1>4, <1>5 DEF Persists, Agrees, IInv, TypeInv
  <1>8. \A other \in Citizens : participants[other] = None => participants'[other] = None
    BY <1>1, <1>2 DEF IInv, TypeInv
  <1> QED
    BY <1>2, <1>6, <1>7, <1>8, MeanwhileKeeps

\* The application, its people and its transaction's end: one step.
LEMMA AcceptingKeeps ==
  ASSUME IInv, NEW r \in Requests, NEW ref \in References, CreateApplication(r, ref)
  PROVE  IInv' /\ Persists(participants, participants')
  <1>1. PICK req, form : req = request[r] /\ form = req.form
    OBVIOUS
  <1>2. Sound(req, participants) /\ InTransaction(r) /\ req.at = "create"
    BY <1>1, Open DEF CreateApplication, Working
  <1>3. /\ form \in Forms /\ Wellformed(form) /\ req.created \subseteq Applicants(form)
        /\ form["primary"] \in Applicant /\ form["primary"] # None
        /\ form["secondary"] \in Applicant \cup {None}
        /\ \A c \in Applicants(form) : c \in Applicant /\ c.id \in IdsOf(form) /\ c.id \in Citizens
        /\ \A c, d \in Applicants(form) : c.id = d.id => c = d
    BY <1>1, <1>2, FormsAre DEF Sound
  <1>4. PICK app : app = [ref |-> ref, primary |-> form.primary.id,
                          secondary |-> IF form.secondary = None THEN None ELSE form.secondary.id]
    OBVIOUS
  <1>5. /\ app.ref = ref /\ app.primary = form["primary"].id
        /\ app.secondary = IF form["secondary"] = None THEN None ELSE form["secondary"].id
    BY <1>4
  <1>6. /\ applications' = applications \cup {app}
        /\ participants' = [id \in Citizens |-> Seen(r, id)]
        /\ request' = [request EXCEPT ![r] = Answered("RECEIPT", form)]
        /\ ~ Taken(form) /\ \A other \in applications : other.ref # ref
    BY <1>1, <1>4 DEF CreateApplication, Become
  <1>7. OccupantsOf(app) = IdsOf(form)
    <2>1. \A a : a \in Applicants(form) <=> a = form["primary"] \/ (a = form["secondary"] /\ a # None)
      BY <1>3 DEF Applicants, Roles
    <2>2. \A a \in Applicants(form) : a.id # None
      BY <1>3, FormsAssumption
    <2>3. \A id : id \in IdsOf(form) <=> id = app.primary \/ (id = app.secondary /\ id # None)
      BY <1>3, <1>5, <2>1, <2>2 DEF IdsOf
    <2>4. app.primary # None
      BY <1>3, <1>5, <2>1, <2>2
    <2> QED
      BY <2>3, <2>4 DEF OccupantsOf
  <1>8. ASSUME NEW id \in Citizens
        PROVE  \/ participants[id] # None /\ participants'[id] = participants[id]
               \/ /\ participants[id] = None /\ id \in IdsOf(form) /\ id \in IdsIn(req.created)
                  /\ participants'[id] \in Participant /\ participants'[id] # None
                  /\ \E c \in req.created : c.id = id /\ Agrees(participants'[id], c)
               \/ /\ participants[id] = None /\ participants'[id] = None
                  /\ id \notin IdsIn(req.created)
    <2>1. participants'[id] = Seen(r, id)
      BY <1>6
    <2>2. ASSUME NEW c \in req.created, c.id = id, Seen(r, id) = Person(c.gender, c.dob)
          PROVE  /\ id \in IdsOf(form) /\ id \in IdsIn(req.created)
                 /\ Seen(r, id) \in Participant /\ Seen(r, id) # None /\ Agrees(Seen(r, id), c)
      <3>1. c \in Applicant /\ c # None /\ id \in IdsOf(form) /\ id \in IdsIn(req.created)
        BY <1>3, <2>2 DEF Applicants, IdsIn
      <3> QED
        BY <2>2, <3>1, Inserted DEF Agrees
    <2> QED
      BY <1>1, <2>1, <2>2, WhatIsSeen
  <1>9. Persists(participants, participants')
    BY <1>8 DEF Persists, Agrees
  <1>10. TypeInv'
    <2>1. participants' \in [Citizens -> {None} \cup Participant]
      <3>1. \A id \in Citizens : participants'[id] \in {None} \cup Participant
        BY <1>8 DEF IInv, TypeInv
      <3> QED
        BY <1>6, <3>1
    <2> QED
      BY <1>5, <1>6, <2>1 DEF IInv, TypeInv
  <1>11. \A q \in Requests : request'[q] = IF q = r THEN Answered("RECEIPT", form) ELSE request[q]
    BY <1>6 DEF IInv, TypeInv
  <1>12. RequestsSound'
    <2> SUFFICES ASSUME NEW q \in Requests, q # r, ~ AtRest(request[q])
                 PROVE  Sound(request[q], participants')
      BY <1>11, AnswerIsRest DEF RequestsSound
    <2>1. PICK other : other = request[q]
      OBVIOUS
    <2>2. Sound(other, participants) /\ InTransaction(q)
      BY <2>1 DEF IInv, RequestsSound, Sound, Working, InTransaction
    <2>3. ASSUME NEW c \in other.created
          PROVE  participants'[c.id] = None
      <3>1. c.id \in IdsIn(other.created) /\ participants[c.id] = None /\ c.id \in Citizens
        BY <2>2, FormsAre DEF IdsIn, Sound
      <3>2. c.id \notin IdsIn(req.created)
        BY <1>1, <1>2, <2>1, <2>2, <3>1 DEF IInv, Apart
      <3> QED
        BY <1>8, <3>1, <3>2
    <2> QED
      BY <1>9, <2>1, <2>2, <2>3, SoundLater
  <1>13. Apart'
    BY <1>11 DEF IInv, Apart, InTransaction, Answered
  <1>14. LawfulBy(app, participants')
    <2>1. ASSUME NEW role \in Roles, form[role] # None
          PROVE  /\ form[role].id \in Citizens /\ participants'[form[role].id] # None
                 /\ Agrees(req.found[role], participants'[form[role].id])
      <3>1. PICK a, found, known : a = form[role] /\ found = req.found[role] /\ known = participants'[a.id]
        OBVIOUS
      <3>2. a \in Applicants(form) /\ a.id \in Citizens
        BY <1>3, <2>1, <3>1 DEF Applicants
      <3>3. Vouched(req, participants, role)
        BY <1>2 DEF Sound, Roles
      <3>4. CASE participants[a.id] # None
        BY <1>1, <1>8, <2>1, <3>1, <3>2, <3>3, <3>4 DEF Vouched, Agrees
      <3>5. CASE participants[a.id] = None
        <4>1. a \in req.created /\ Agrees(found, a)
          BY <1>1, <2>1, <3>1, <3>3, <3>5 DEF Vouched
        <4>2. a.id \in IdsIn(req.created)
          BY <4>1 DEF IdsIn
        <4>3. PICK c \in req.created : c.id = a.id /\ Agrees(known, c) /\ known # None
          BY <1>8, <3>1, <3>2, <3>5, <4>2
        <4>4. c = a
          BY <1>3, <3>2, <4>3
        <4> QED
          BY <3>1, <3>2, <4>1, <4>3, <4>4 DEF Agrees
      <3> QED
        BY <3>4, <3>5
    <2>2. Judged(req)
      BY <1>2 DEF Sound
    <2>3. "primary" \in Roles /\ "secondary" \in Roles
      BY DEF Roles
    <2>4. CASE form["secondary"] = None
      <3>1. app.primary \in Citizens /\ app.primary # None /\ app.secondary = None
        BY <1>3, <1>5, <2>1, <2>3, <2>4, FormsAssumption
      <3>2. PICK first, found : first = participants'[app.primary] /\ found = req.found["primary"]
        OBVIOUS
      <3>3. first # None /\ Agrees(found, first)
        BY <1>3, <1>5, <2>1, <2>3, <3>2
      <3>4. LawfulAlone(found)
        BY <1>1, <2>2, <2>4, <3>2 DEF Judged
      <3>5. LawfulAlone(first)
        BY <3>3, <3>4 DEF LawfulAlone, AgeToday, Agrees
      <3> QED
        BY <3>1, <3>2, <3>3, <3>5 DEF LawfulBy
    <2>5. CASE form["secondary"] # None
      <3>1. /\ app.primary \in Citizens /\ app.secondary \in Citizens /\ app.secondary # None
            /\ app.primary # app.secondary
        BY <1>3, <1>5, <2>1, <2>3, <2>5, FormsAssumption DEF Wellformed
      <3>2. PICK first, second, one, two :
              /\ first = participants'[app.primary] /\ one = req.found["primary"]
              /\ second = participants'[app.secondary] /\ two = req.found["secondary"]
        OBVIOUS
      <3>3. first # None /\ Agrees(one, first) /\ second # None /\ Agrees(two, second)
        BY <1>3, <1>5, <2>1, <2>3, <2>5, <3>2
      <3>4. LawfulPair(one, two)
        BY <1>1, <2>2, <2>5, <3>2 DEF Judged
      <3>5. LawfulPair(first, second)
        BY <3>3, <3>4 DEF LawfulPair, AgeToday, Agrees
      <3> QED
        BY <3>1, <3>2, <3>3, <3>5 DEF LawfulBy
    <2> QED
      BY <2>4, <2>5
  <1>15. AllLawful'
    BY <1>6, <1>9, <1>14, LawfulLater DEF IInv, AllLawful
  <1>16. OneApplicationEach'
    <2>1. \A other \in applications : OccupantsOf(other) \cap OccupantsOf(app) = {} /\ other.ref # app.ref
      BY <1>5, <1>6, <1>7 DEF Taken
    <2> QED
      BY <1>6, <2>1 DEF IInv, OneApplicationEach, OccupantsOf
  <1>17. NobodyHalfRegistered'
    <2> SUFFICES ASSUME NEW id \in Citizens \ {a.id : a \in Entered}, participants'[id] # None
                 PROVE  \E other \in applications' : id \in OccupantsOf(other)
      BY DEF NobodyHalfRegistered, OccupantsOf
    <2>1. CASE participants[id] # None
      BY <1>6, <2>1 DEF IInv, NobodyHalfRegistered
    <2>2. CASE participants[id] = None
      BY <1>6, <1>7, <1>8, <2>2
    <2> QED
      BY <2>1, <2>2
  <1> QED
    BY <1>9, <1>10, <1>12, <1>13, <1>15, <1>16, <1>17 DEF IInv

------------------------------------------------------------------------------
(* The specification                                                        *)

\* A step keeps the invariant, and whom a form shows stays as recorded.
LEMMA StepKeeps ==
  ASSUME IInv, [Next]_vars
  PROVE  IInv' /\ Persists(participants, participants')
  <1>1. ASSUME NEW r \in Requests, Serve(r)
        PROVE  IInv' /\ Persists(participants, participants')
    BY <1>1, FindingKeeps, CreatingKeeps, EndingKeeps, JudgingKeeps, CollidingKeeps, AcceptingKeeps
       DEF Serve
  <1>2. ASSUME NEW r \in Requests, NEW form \in Forms, Submit(r, form)
        PROVE  IInv' /\ Persists(participants, participants')
    BY <1>2, SubmittingKeeps
  <1>3. ASSUME NEW a \in Entered, EnterParticipant(a)
        PROVE  IInv' /\ Persists(participants, participants')
    BY <1>3, EnteringKeeps
  <1>4. ASSUME NEW id \in Citizens, WinElsewhere(id)
        PROVE  IInv' /\ Persists(participants, participants')
    BY <1>4, WinningKeeps
  <1>5. CASE UNCHANGED vars
    <2>1. UNCHANGED <<participants, applications, request>>
      BY <1>5 DEF vars
    <2> QED
      BY <2>1 DEF IInv, TypeInv, RequestsSound, Apart, InTransaction, AllLawful, OneApplicationEach,
                  NobodyHalfRegistered, OccupantsOf, Persists, Agrees
  <1> QED
    BY <1>1, <1>2, <1>3, <1>4, <1>5 DEF Next

\* Before the first submission nobody is recorded.
LEMMA FirstKeeps == Init => IInv
  <1> SUFFICES ASSUME Init PROVE IInv
    OBVIOUS
  <1>1. TypeInv /\ RequestsSound
    BY DEF Init, TypeInv, RequestsSound, AtRest
  <1>2. Apart
    BY DEF Init, Apart, InTransaction, Idle
  <1>3. AllLawful /\ OneApplicationEach /\ NobodyHalfRegistered
    BY DEF Init, AllLawful, OneApplicationEach, NobodyHalfRegistered
  <1> QED
    BY <1>1, <1>2, <1>3 DEF IInv

\* The invariant of the registrations of a year, for any number of them at a time.
THEOREM Invariance == Spec => []IInv
  <1>1. IInv /\ [Next]_vars => IInv'
    BY StepKeeps
  <1> QED
    BY <1>1, FirstKeeps, PTL DEF Spec

\* register: however submissions, an administrator's entries and wins elsewhere interleave,
\* nobody is in two applications of the year, a refusal leaves nobody behind, every application
\* is lawful by what is recorded of its people, and no form changes that.
THEOREM ApplicationsAreLawful == Spec => OneLawfulApplication
  <1>1. IInv => TypeOK
    <2> SUFFICES ASSUME IInv PROVE TypeOK
      OBVIOUS
    <2>1. \A id \in Citizens : participants[id] # None => participants[id].gender \in {"FEMALE", "MALE"}
      BY DEF IInv, TypeInv, Participant
    <2>2. \A app \in applications : app.ref \in References /\ OccupantsOf(app) \subseteq Citizens
      BY DEF IInv, TypeInv, AllLawful, LawfulBy, OccupantsOf
    <2>3. ASSUME NEW r \in Requests
          PROVE  /\ request[r].at \in {"idle", "find", "insert", "judge", "create", "answered"}
                 /\ InTransaction(r) => request[r].attempt \in 1 .. REFERENCE_ATTEMPTS
      BY DEF IInv, RequestsSound, AtRest, Idle, Sound, Working, InTransaction
    <2> QED
      BY <2>1, <2>2, <2>3 DEF TypeOK
  <1>2. IInv => Lawful
    <2> SUFFICES ASSUME IInv, NEW app \in applications, LawfulBy(app, participants)
                 PROVE  LET first == participants[app.primary]
                            ageOf(p) == CalculateAgeAt(p.dob, Today)
                        IN /\ \A id \in OccupantsOf(app) : participants[id] # None
                                                         /\ ageOf(participants[id]) >= MINIMUM_APPLICATION_AGE
                           /\ IF app.secondary = None
                              THEN first.gender = "FEMALE" => ageOf(first) >= MAHRAM_OPTIONAL_AGE
                              ELSE first.gender = "FEMALE" /\ participants[app.secondary].gender = "MALE"
      BY DEF IInv, AllLawful, Lawful
    <2> QED
      BY DEF LawfulBy, LawfulAlone, LawfulPair, AgeToday, OccupantsOf
  <1>3. IInv /\ [Next]_vars =>
          [\A id \in Citizens : participants[id] # None =>
             participants'[id] # None /\ participants'[id].gender = participants[id].gender
             /\ participants'[id].dob = participants[id].dob]_vars
    BY StepKeeps DEF Persists, Agrees
  <1>4. IInv => OneApplicationEach /\ NobodyHalfRegistered
    BY DEF IInv
  <1> QED
    BY <1>1, <1>2, <1>3, <1>4, Invariance, PTL DEF Spec, OneLawfulApplication, IdentityStands

------------------------------------------------------------------------------
(* What a citizen is told.                                                  *)

Ranks == 1 .. 17

\* Reasons of one tier have one answer; those of a lower tier speak first.
Tier(i) == IF i <= 5 THEN 1 ELSE IF i = 6 THEN 2 ELSE IF i = 7 THEN 3
           ELSE IF i <= 9 THEN 4 ELSE IF i <= 11 THEN 5 ELSE 6

AnswerOf(tier) ==
  CASE tier = 1 -> "VALIDATION_FAILED"
    [] tier = 2 -> "INVALID_COMMUNE"
    [] tier = 3 -> "REGISTRATION_CLOSED"
    [] tier = 5 -> "ALREADY_APPLIED"
    [] OTHER -> "APPLICANT_NOT_ELIGIBLE"

Leads(i, reasons) ==
  i \in Ranks /\ REASON_PRECEDENCE[i] \in reasons
  /\ \A j \in Ranks : REASON_PRECEDENCE[j] \in reasons => i <= j

\* Some reason leads, if there is any.
LEMMA SomeReasonLeads ==
  ASSUME NEW reasons, NEW i \in Ranks, REASON_PRECEDENCE[i] \in reasons
  PROVE  \E j \in Ranks : Leads(j, reasons)
  <1> DEFINE T == {j \in Ranks : REASON_PRECEDENCE[j] \in reasons}
  <1>1. T \in SUBSET Nat /\ T # {}
    BY DEF Ranks
  <1> HIDE DEF T
  <1>2. PICK j \in T : \A k \in T : j <= k
    BY <1>1, LeastNumber
  <1> QED
    BY <1>2 DEF T, Leads

\* The answer to a citizen is that of the tier of the reason that leads.
LEMMA AnswerByTier ==
  ASSUME NEW reasons, NEW i \in Ranks, Leads(i, reasons)
  PROVE  RegistrationErrorFor(reasons) = AnswerOf(Tier(i))
  <1>1. DOMAIN REASON_PRECEDENCE = Ranks
    BY DEF REASON_PRECEDENCE, Ranks
  <1>2. LeadingReason(reasons) = REASON_PRECEDENCE[i]
    <2> DEFINE ranks == {j \in DOMAIN REASON_PRECEDENCE : REASON_PRECEDENCE[j] \in reasons}
    <2>1. i \in ranks /\ \A j \in ranks : i <= j
      BY <1>1 DEF Leads
    <2>2. \A j \in ranks : j \in Int
      BY <1>1 DEF Ranks
    <2> HIDE DEF ranks
    <2>3. (CHOOSE j \in ranks : \A k \in ranks : j <= k) = i
      BY <2>1, <2>2
    <2> QED
      BY <2>3 DEF LeadingReason, ranks
  <1>3. PICK reason : reason = REASON_PRECEDENCE[i] /\ reason = LeadingReason(reasons)
    BY <1>2
  <1>4. CASE i <= 5
    <2>1. reason \in {"PARTICIPANT_NOT_FOUND", "SECONDARY_PARTICIPANT_NOT_FOUND",
                      "APPLICATION_INCOMPLETE", "ENTRY_TYPE_MISMATCH", "DUPLICATE_APPLICANTS"}
      BY <1>3, <1>4 DEF REASON_PRECEDENCE, Ranks
    <2> QED
      BY <1>3, <1>4, <2>1 DEF RegistrationErrorFor, AnswerOf, Tier
  <1>5. CASE i = 6
    BY <1>3, <1>5 DEF RegistrationErrorFor, AnswerOf, Tier, REASON_PRECEDENCE
  <1>6. CASE i = 7
    BY <1>3, <1>6 DEF RegistrationErrorFor, AnswerOf, Tier, REASON_PRECEDENCE
  <1>7. CASE i \in 8 .. 9 \/ i \in 12 .. 17
    <2>1. reason \in {"PARTICIPANT_HAS_ALREADY_WON", "SECONDARY_PARTICIPANT_HAS_ALREADY_WON",
                      "UNDER_MINIMUM_AGE", "SECONDARY_UNDER_MINIMUM_AGE", "GENDER_UNAVAILABLE",
                      "MAHRAM_REQUIRED", "INVALID_MAHRAM_GENDER", "INVALID_PAIRED_GENDERS"}
      BY <1>3, <1>7 DEF REASON_PRECEDENCE, Ranks
    <2>2. Tier(i) \in {4, 6}
      BY <1>7 DEF Tier, Ranks
    <2> QED
      BY <1>3, <2>1, <2>2 DEF RegistrationErrorFor, AnswerOf
  <1>8. CASE i \in 10 .. 11
    <2>1. reason \in {"DUPLICATE_ANNUAL_APPLICATION", "SECONDARY_ALREADY_REGISTERED"}
      BY <1>3, <1>8 DEF REASON_PRECEDENCE, Ranks
    <2>2. Tier(i) = 5
      BY <1>8 DEF Tier, Ranks
    <2> QED
      BY <1>3, <2>1, <2>2 DEF RegistrationErrorFor, AnswerOf
  <1> QED
    BY <1>4, <1>5, <1>6, <1>7, <1>8 DEF Ranks

\* Two sets of reasons that hit the same tiers have one answer.
LEMMA SameTiersSameAnswer ==
  ASSUME NEW one, NEW other,
         \A i \in Ranks : REASON_PRECEDENCE[i] \in one =>
           \E j \in Ranks : REASON_PRECEDENCE[j] \in other /\ Tier(j) <= Tier(i),
         \A i \in Ranks : REASON_PRECEDENCE[i] \in other =>
           \E j \in Ranks : REASON_PRECEDENCE[j] \in one /\ Tier(j) <= Tier(i),
         NEW k \in Ranks, REASON_PRECEDENCE[k] \in one
  PROVE  RegistrationErrorFor(one) = RegistrationErrorFor(other)
  <1>1. PICK i \in Ranks : Leads(i, one)
    BY SomeReasonLeads
  <1>2. PICK j \in Ranks : REASON_PRECEDENCE[j] \in other /\ Tier(j) <= Tier(i)
    BY <1>1 DEF Leads
  <1>3. PICK l \in Ranks : Leads(l, other)
    BY <1>2, SomeReasonLeads
  <1>4. PICK m \in Ranks : REASON_PRECEDENCE[m] \in one /\ Tier(m) <= Tier(l)
    BY <1>3 DEF Leads
  <1>5. i <= m /\ l <= j
    BY <1>1, <1>2, <1>3, <1>4 DEF Leads
  <1>6. \A a, b \in Ranks : a <= b => Tier(a) <= Tier(b)
    BY DEF Tier, Ranks
  <1>7. \A a \in Ranks : Tier(a) \in 1 .. 6
    BY DEF Tier, Ranks
  <1>8. Tier(i) <= Tier(m) /\ Tier(l) <= Tier(j)
    BY <1>5, <1>6
  <1>9. Tier(i) = Tier(l)
    BY <1>2, <1>4, <1>7, <1>8
  <1> QED
    BY <1>1, <1>3, <1>9, AnswerByTier

\* Each rule gives its reason.
LEMMA ReasonsAre ==
  ASSUME NEW s, s.primary # None, s.secondary # None
  PROVE  LET reasons == EvaluateEligibility(s)
             ageOf(a) == CalculateAgeAt(a.dob, s.registrationDate)
             paired == s.entryType = "PAIRED"
         IN
         /\ "PARTICIPANT_NOT_FOUND" \notin reasons /\ "SECONDARY_PARTICIPANT_NOT_FOUND" \notin reasons
         /\ "APPLICATION_INCOMPLETE" \notin reasons
         /\ "ENTRY_TYPE_MISMATCH" \in reasons <=> ~ paired
         /\ "DUPLICATE_APPLICANTS" \in reasons <=> s.primary.id = s.secondary.id
         /\ "INVALID_COMMUNE" \in reasons <=>
              \/ s.commune = None
              \/ ~ s.commune.isActive \/ ~ s.commune.wilayaIsActive
              \/ s.claimedWilaya # None /\ s.commune.wilaya # s.claimedWilaya
         /\ "DRAW_YEAR_INVALID" \in reasons <=>
              \/ s.drawYear \notin MIN_DRAW_YEAR .. MAX_DRAW_YEAR
              \/ s.expectedDrawYear # None /\ s.drawYear # s.expectedDrawYear
         /\ "PARTICIPANT_HAS_ALREADY_WON" \in reasons <=> s.primary.hasWon
         /\ "SECONDARY_PARTICIPANT_HAS_ALREADY_WON" \in reasons <=> s.secondary.hasWon
         /\ "DUPLICATE_ANNUAL_APPLICATION" \in reasons <=> OccupiesAnother(s.primary, s.applicationId)
         /\ "SECONDARY_ALREADY_REGISTERED" \in reasons <=> OccupiesAnother(s.secondary, s.applicationId)
         /\ "UNDER_MINIMUM_AGE" \in reasons <=> ageOf(s.primary) < MINIMUM_APPLICATION_AGE
         /\ "SECONDARY_UNDER_MINIMUM_AGE" \in reasons <=> ageOf(s.secondary) < MINIMUM_APPLICATION_AGE
         /\ "GENDER_UNAVAILABLE" \in reasons <=> s.primary.gender = None \/ s.secondary.gender = None
         /\ "MAHRAM_REQUIRED" \in reasons <=> ~ paired /\ s.primary.gender = "FEMALE"
                                            /\ ageOf(s.primary) < MAHRAM_OPTIONAL_AGE
         /\ "INVALID_MAHRAM_GENDER" \in reasons <=> paired /\ s.secondary.gender # "MALE"
         /\ "INVALID_PAIRED_GENDERS" \in reasons <=>
              paired /\ (s.primary.gender # "FEMALE" \/ s.secondary.gender # "MALE")
  BY DEF EvaluateEligibility

\* Every reason is somewhere in the order in which they speak.
LEMMA EveryReasonHasARank ==
  ASSUME NEW s, NEW code \in EvaluateEligibility(s)
  PROVE  \E i \in Ranks : REASON_PRECEDENCE[i] = code
  BY DEF EvaluateEligibility, REASON_PRECEDENCE, Ranks

\* The same commune, year, places and genders, each applicant with the deeds of the other.
Trades(s, t) ==
  /\ t.primary # None /\ t.secondary # None
  /\ t.commune = s.commune /\ t.claimedWilaya = s.claimedWilaya
  /\ t.drawYear = s.drawYear /\ t.expectedDrawYear = s.expectedDrawYear
  /\ t.entryType = s.entryType /\ t.applicationId = s.applicationId
  /\ t.registrationDate = s.registrationDate
  /\ t.primary.id = s.primary.id /\ t.secondary.id = s.secondary.id
  /\ t.primary.gender = s.primary.gender /\ t.secondary.gender = s.secondary.gender
  /\ t.primary.hasWon = s.secondary.hasWon /\ t.secondary.hasWon = s.primary.hasWon
  /\ t.primary.dob = s.secondary.dob /\ t.secondary.dob = s.primary.dob
  /\ t.primary.applications = s.secondary.applications
  /\ t.secondary.applications = s.primary.applications

\* Whatever speaks against the one, something of the same tier or a lower speaks against the other.
LEMMA TradersTiers ==
  ASSUME NEW s, NEW t, s.primary # None, s.secondary # None, Trades(s, t),
         NEW i \in Ranks, REASON_PRECEDENCE[i] \in EvaluateEligibility(s)
  PROVE  \E j \in Ranks : REASON_PRECEDENCE[j] \in EvaluateEligibility(t) /\ Tier(j) <= Tier(i)
  <1> DEFINE here == EvaluateEligibility(s)
             there == EvaluateEligibility(t)
             Twin(k) == CASE k = 8 -> 9 [] k = 9 -> 8 [] k = 10 -> 11 [] k = 11 -> 10
                          [] k = 12 -> 13 [] k = 13 -> 12 [] k = 15 -> 4 [] OTHER -> k
  <1>1. \A k \in Ranks : Twin(k) \in Ranks /\ Tier(Twin(k)) <= Tier(k)
    BY DEF Tier, Ranks
  <1>2. /\ "INVALID_COMMUNE" \in here => "INVALID_COMMUNE" \in there
        /\ "DRAW_YEAR_INVALID" \in here => "DRAW_YEAR_INVALID" \in there
        /\ "ENTRY_TYPE_MISMATCH" \in here => "ENTRY_TYPE_MISMATCH" \in there
        /\ "DUPLICATE_APPLICANTS" \in here => "DUPLICATE_APPLICANTS" \in there
        /\ "GENDER_UNAVAILABLE" \in here => "GENDER_UNAVAILABLE" \in there
        /\ "MAHRAM_REQUIRED" \in here => "ENTRY_TYPE_MISMATCH" \in there
        /\ "INVALID_MAHRAM_GENDER" \in here => "INVALID_MAHRAM_GENDER" \in there
        /\ "INVALID_PAIRED_GENDERS" \in here => "INVALID_PAIRED_GENDERS" \in there
    BY ReasonsAre DEF Trades
  <1>3. /\ "PARTICIPANT_HAS_ALREADY_WON" \in here => "SECONDARY_PARTICIPANT_HAS_ALREADY_WON" \in there
        /\ "SECONDARY_PARTICIPANT_HAS_ALREADY_WON" \in here => "PARTICIPANT_HAS_ALREADY_WON" \in there
        /\ "DUPLICATE_ANNUAL_APPLICATION" \in here => "SECONDARY_ALREADY_REGISTERED" \in there
        /\ "SECONDARY_ALREADY_REGISTERED" \in here => "DUPLICATE_ANNUAL_APPLICATION" \in there
        /\ "UNDER_MINIMUM_AGE" \in here => "SECONDARY_UNDER_MINIMUM_AGE" \in there
        /\ "SECONDARY_UNDER_MINIMUM_AGE" \in here => "UNDER_MINIMUM_AGE" \in there
    BY ReasonsAre DEF Trades, OccupiesAnother, CalculateAgeAt
  <1>4. /\ "PARTICIPANT_NOT_FOUND" \notin here /\ "SECONDARY_PARTICIPANT_NOT_FOUND" \notin here
        /\ "APPLICATION_INCOMPLETE" \notin here
    BY ReasonsAre
  <1>5. REASON_PRECEDENCE[Twin(i)] \in there
    <2> HIDE DEF here, there
    <2>1. CASE i \in 1 .. 5
      BY <1>2, <1>4, <2>1 DEF REASON_PRECEDENCE, here
    <2>2. CASE i \in 6 .. 9
      BY <1>2, <1>3, <2>2 DEF REASON_PRECEDENCE, here
    <2>3. CASE i \in 10 .. 13
      BY <1>3, <2>3 DEF REASON_PRECEDENCE, here
    <2>4. CASE i \in 14 .. 17
      BY <1>2, <2>4 DEF REASON_PRECEDENCE, here
    <2> QED
      BY <2>1, <2>2, <2>3, <2>4 DEF Ranks
  <1> QED
    BY <1>1, <1>5

\* Exchanging the deeds of two applicants is a trade, both ways.
LEMMA ExchangeTrades ==
  ASSUME NEW Id, NEW Gender, NEW Reference, NEW s,
         {"primary", "secondary"} \subseteq DOMAIN s,
         {s.primary, s.secondary} \subseteq
           [id : Id, gender : Gender, dob : Births, hasWon : BOOLEAN, applications : SUBSET Reference],
         None \notin [id : Id, gender : Gender, dob : Births, hasWon : BOOLEAN,
                      applications : SUBSET Reference]
  PROVE  /\ s.primary # None /\ s.secondary # None
         /\ Trades(s, Exchanged(s)) /\ Trades(Exchanged(s), s)
  <1> DEFINE A == [id : Id, gender : Gender, dob : Births, hasWon : BOOLEAN,
                   applications : SUBSET Reference]
             first == s.primary
             second == s.secondary
  <1>1. first \in A /\ second \in A /\ None \notin A
    OBVIOUS
  <1>2. PICK t : t = Exchanged(s)
    OBVIOUS
  <1>3. /\ t.primary = [first EXCEPT !.hasWon = second.hasWon, !.applications = second.applications,
                                     !.dob = second.dob]
        /\ t.secondary = [second EXCEPT !.hasWon = first.hasWon, !.applications = first.applications,
                                        !.dob = first.dob]
    BY <1>2 DEF Exchanged
  <1>4. /\ t.commune = s.commune /\ t.claimedWilaya = s.claimedWilaya
        /\ t.drawYear = s.drawYear /\ t.expectedDrawYear = s.expectedDrawYear
        /\ t.entryType = s.entryType /\ t.applicationId = s.applicationId
        /\ t.registrationDate = s.registrationDate
    BY <1>2 DEF Exchanged
  <1> HIDE DEF first, second
  <1>5. /\ t.primary = [id |-> first.id, gender |-> first.gender, dob |-> second.dob,
                        hasWon |-> second.hasWon, applications |-> second.applications]
        /\ t.secondary = [id |-> second.id, gender |-> second.gender, dob |-> first.dob,
                          hasWon |-> first.hasWon, applications |-> first.applications]
    BY <1>1, <1>3
  <1>6. t.primary \in A /\ t.secondary \in A
    BY <1>1, <1>5
  <1> QED
    BY <1>1, <1>2, <1>4, <1>5, <1>6 DEF Trades, first, second

\* registrationErrorFor, of two applicants who are both recorded: whatever the commune, the year
\* and the two people, a citizen is told the same when it was the other who won, applied
\* already or is too young.
THEOREM OthersAreToldTheSame ==
  ASSUME NEW Id, NEW Gender, NEW Reference, NEW s,
         {"primary", "secondary"} \subseteq DOMAIN s,
         {s.primary, s.secondary} \subseteq
           [id : Id, gender : Gender, dob : Births, hasWon : BOOLEAN, applications : SUBSET Reference],
         None \notin [id : Id, gender : Gender, dob : Births, hasWon : BOOLEAN,
                      applications : SUBSET Reference]
  PROVE  AnswersAlike(s)
  <1>1. PICK t, here, there :
          t = Exchanged(s) /\ here = EvaluateEligibility(s) /\ there = EvaluateEligibility(t)
    OBVIOUS
  <1>2. /\ s.primary # None /\ s.secondary # None
        /\ Trades(s, t) /\ Trades(t, s)
    BY <1>1, ExchangeTrades
  <1>3. t.primary # None /\ t.secondary # None
    BY <1>2 DEF Trades
  <1>4. ASSUME here # {}
        PROVE  there # {} /\ RegistrationErrorFor(here) = RegistrationErrorFor(there)
    <2>1. PICK i \in Ranks : REASON_PRECEDENCE[i] \in here
      BY <1>1, <1>4, EveryReasonHasARank
    <2>2. PICK j \in Ranks : REASON_PRECEDENCE[j] \in there
      BY <1>1, <1>2, <2>1, TradersTiers
    <2> QED
      BY <1>1, <1>2, <1>3, <2>1, <2>2, TradersTiers, SameTiersSameAnswer
  <1> QED
    BY <1>1, <1>4 DEF AnswersAlike

\* register: whatever a transaction has found of a couple while others submit, enter and win, the
\* answer names neither of them.
THEOREM AnswersNameNeither == Spec => []NamesNeither
  <1>1. IInv => NamesNeither
    <2> SUFFICES ASSUME IInv, NEW r \in Requests, request[r].at = "judge"
                 PROVE  AnswersAlike(ProposedApplication(r))
      BY DEF NamesNeither
    <2>1. PICK s : s = ProposedApplication(r)
      OBVIOUS
    <2>2. CASE s.secondary = None
      BY <2>1, <2>2 DEF AnswersAlike
    <2>3. CASE s.secondary # None
      <3>1. s.primary = State(r, "primary") /\ s.secondary = State(r, "secondary")
        BY <2>1 DEF ProposedApplication
      <3>2. request[r].form["secondary"] # None
        BY <2>3, <3>1 DEF State
      <3>3. request[r].form["primary"] # None
        BY Open, FormsAre DEF Working, Sound
      <3>4. {s.primary, s.secondary} \subseteq ApplicantState
        BY <3>1, <3>2, <3>3, StateIsFound DEF Roles
      <3>5. {"primary", "secondary"} \subseteq DOMAIN s
        BY <2>1 DEF ProposedApplication
      <3>6. AnswersAlike(s)
        <4>1. PICK Gender : Gender = {"FEMALE", "MALE"}
          OBVIOUS
        <4>2. ApplicantState = [id : Citizens, gender : Gender, dob : Births, hasWon : BOOLEAN,
                                applications : SUBSET References]
          BY <4>1 DEF ApplicantState
        <4>3. None \notin ApplicantState
          BY FormsAssumption
        <4> QED
          BY <3>4, <3>5, <4>2, <4>3, OthersAreToldTheSame
      <3> QED
        BY <2>1, <3>6
    <2> QED
      BY <2>2, <2>3
  <1> QED
    BY <1>1, Invariance, PTL

================================================================================
