----------------------------- MODULE RegisterForm -----------------------------
(***************************************************************************)
(* The wizard in which a citizen fills in an application. Its list of      *)
(* steps follows from the answers and from the date of the last rendering; *)
(* the step shown is an index into that list. A citizen goes forward, back *)
(* and from the review to any step, changes what was answered, and may sit *)
(* in front of the form when a birthday arrives.                           *)
(*                                                                         *)
(* Abstracted: the fields of which only the validity matters, names and    *)
(* phone number, count with the national id.                               *)
(***************************************************************************)
EXTENDS EligibilityRules, SequencesExt, FiniteSets

CONSTANTS
  Ids, Births,    \* the national ids and the dates of birth that may be typed
  CommunesOf,     \* wilayas with their communes
  Days,           \* the days the form stays open, in order
  Year

Wilayas == DOMAIN CommunesOf
Communes == UNION {CommunesOf[w] : w \in Wilayas}

Dates == [y : Nat, m : 1 .. 12, d : 1 .. 31]

NotAfter(a, b) ==
  a.y < b.y \/ (a.y = b.y /\ (a.m < b.m \/ (a.m = b.m /\ a.d <= b.d)))

FormAssumption ==
  /\ Year \in MIN_DRAW_YEAR .. MAX_DRAW_YEAR
  /\ Days \in Seq(Dates) /\ Days # <<>> /\ Births \subseteq Dates
  /\ \A i, j \in DOMAIN Days : i <= j => NotAfter(Days[i], Days[j])
  /\ \A v, w \in Wilayas : v # w => CommunesOf[v] \cap CommunesOf[w] = {}
  /\ None \notin Ids /\ None \notin Births
  /\ None \notin Wilayas \cup Communes \cup {"FEMALE", "MALE"}
  /\ None \notin [id : Ids, gender : {"FEMALE", "MALE"}, dob : Births, hasWon : {FALSE}, applications : {{}}]
  /\ None \notin [wilaya : Wilayas, isActive : {TRUE}, wilayaIsActive : {TRUE}]

VARIABLES
  form,           \* what was answered
  stepIndex,      \* setStepIndex
  day, rendered,  \* today, and the day of the last rendering, as indexes of Days
  registration,   \* what the page knows of the registration window
  loaded,         \* the wilaya whose communes CommuneSelect offers
  asked,          \* the wilayas whose communes have been asked for
  sent,           \* the request on its way
  told            \* what the page last said of a submission

vars == <<form, stepIndex, day, rendered, registration, loaded, asked, sent, told>>

Blank == [id |-> None, gender |-> None, dob |-> None]

\* What primaryNeedsMahram says of the form on a day.
NeedsMahram(f, d) ==
  /\ f.primary.gender = "FEMALE"
  /\ f.primary.dob # None
  /\ CalculateAgeAt(f.primary.dob, Days[d]) < MAHRAM_OPTIONAL_AGE

EntryTypeIsChoice(f, d) == f.primary.gender = "FEMALE" /\ ~ NeedsMahram(f, d)

StepKeys(f, d) ==
  <<"primary">>
  \o (IF EntryTypeIsChoice(f, d) THEN <<"entryType">> ELSE <<>>)
  \o <<"location">>
  \o (IF f.entryType = "PAIRED" THEN <<"secondary">> ELSE <<>>)
  \o <<"review">>

KeyAt(f, d, i) == IF i \in DOMAIN StepKeys(f, d) THEN StepKeys(f, d)[i] ELSE None
CurrentKey == KeyAt(form, rendered, stepIndex)

Init ==
  /\ form = [entryType |-> "SINGLE", wilaya |-> None, commune |-> None, primary |-> Blank, secondary |-> Blank]
  /\ stepIndex = 1
  /\ day = 1 /\ rendered = 1
  /\ registration = "loading"
  /\ loaded = None /\ asked = {}
  /\ sent = None /\ told = "nothing"

\* The form is on the screen.
Open == registration \in {"open", "unknown"} /\ told # "receipt"
At(key) == Open /\ CurrentKey = key
Render == rendered' = day /\ UNCHANGED day

-----------------------------------------------------------------------------
(* The checks, which read the clock when they are made. *)

AgeToday(applicant) == CalculateAgeAt(applicant.dob, Days[day])

ApplicantErrors(a) ==
  {field \in DOMAIN a : a[field] = None}
  \cup (IF a.dob # None /\ AgeToday(a) < MINIMUM_APPLICATION_AGE THEN {"dob"} ELSE {})

SecondaryErrors(f) ==
  ApplicantErrors(f.secondary)
  \cup (IF f.primary.id = f.secondary.id THEN {"id"} ELSE {})
  \cup (IF f.secondary.gender \notin {None, "MALE"} THEN {"gender"} ELSE {})

LocationErrors(f) == {place \in {"wilaya", "commune"} : f[place] = None}

Validate(f) ==
  ApplicantErrors(f.primary) \cup LocationErrors(f)
  \cup (IF f.entryType = "PAIRED" THEN SecondaryErrors(f) ELSE {})

-----------------------------------------------------------------------------
(* The steps. *)

WindowKnown ==
  /\ registration = "loading"
  /\ registration' \in {"open", "closed", "unknown"}
  /\ Render
  /\ UNCHANGED <<form, stepIndex, loaded, asked, sent, told>>

Answer(f) ==
  /\ form' = f
  /\ Render
  /\ UNCHANGED <<stepIndex, registration, sent, told>>

FillPrimary(field, value) ==
  /\ At("primary") /\ sent = None
  /\ Answer([form EXCEPT !.primary[field] = value])
  /\ UNCHANGED <<loaded, asked>>

FillSecondary(field, value) ==
  /\ At("secondary") /\ sent = None
  /\ field = "gender" => value = "MALE"
  /\ Answer([form EXCEPT !.secondary[field] = value])
  /\ UNCHANGED <<loaded, asked>>

ChooseEntryType(type) ==
  /\ At("entryType") /\ sent = None
  /\ Answer([form EXCEPT !.entryType = type])
  /\ UNCHANGED <<loaded, asked>>

\* With the effect of CommuneSelect: the choice of a commune is reset.
ChooseWilaya(w) ==
  /\ At("location") /\ w # form.wilaya
  /\ Answer([form EXCEPT !.wilaya = w, !.commune = None])
  /\ asked' = asked \cup {w}
  /\ UNCHANGED loaded

\* useCommunesByWilaya: the answer for a wilaya no longer chosen is cancelled.
CommunesLoaded(w) ==
  /\ w \in asked
  /\ asked' = asked \ {w}
  /\ loaded' = IF w = form.wilaya THEN w ELSE loaded
  /\ Render
  /\ UNCHANGED <<form, stepIndex, registration, sent, told>>

ChooseCommune(c) ==
  /\ At("location")
  /\ loaded = form.wilaya /\ loaded # None
  /\ c \in CommunesOf[loaded]
  /\ Answer([form EXCEPT !.commune = c])
  /\ UNCHANGED <<loaded, asked>>

\* CommuneSelect asks anew when its step is shown again.
Show(i, f) ==
  /\ form' = f
  /\ stepIndex' = i
  /\ Render
  /\ IF KeyAt(f, day, i) = "location"
     THEN loaded' = None /\ asked' = (IF f.wilaya = None THEN {} ELSE {f.wilaya})
     ELSE UNCHANGED <<loaded, asked>>
  /\ UNCHANGED <<registration, sent, told>>

ErrorsOfStep ==
  CASE CurrentKey = "primary" -> ApplicantErrors(form.primary)
    [] CurrentKey = "location" -> LocationErrors(form)
    [] CurrentKey = "secondary" -> SecondaryErrors(form)
    [] OTHER -> {}

\* Faulty: a pair is left to be chosen.
SettledForMen(f) ==
  [f EXCEPT !.entryType = IF f.primary.gender = "MALE" THEN "SINGLE" ELSE @]

\* Leaving the first step settles how its applicant applies, where that is no choice.
Settled(f) ==
  [f EXCEPT !.entryType =
     IF f.primary.gender = "MALE" THEN "SINGLE" ELSE IF NeedsMahram(f, rendered) THEN "PAIRED" ELSE @]

GoNext ==
  /\ Open /\ sent = None /\ CurrentKey # "review"
  /\ ErrorsOfStep = {}
  /\ Show(stepIndex + 1, IF CurrentKey = "primary" THEN Settled(form) ELSE form)

GoBack ==
  /\ Open /\ sent = None /\ stepIndex > 1
  /\ Show(stepIndex - 1, form)

\* The buttons of the review: they are not disabled while a request is on its way.
GoToStep(key) ==
  /\ At("review")
  /\ key \in ToSet(StepKeys(form, rendered)) \ {"review"}
  /\ Show(CHOOSE i \in DOMAIN StepKeys(form, rendered) : StepKeys(form, rendered)[i] = key, form)

\* The other half of handleSubmit, where a check fails, is never reached: ReviewIsComplete.
Submit ==
  /\ At("review") /\ sent = None
  /\ Validate(form) = {}
  /\ sent' = form
  /\ told' = "nothing"
  /\ Render
  /\ UNCHANGED <<form, stepIndex, registration, loaded, asked>>

\* The server answers, or nothing arrives.
Answered(answer) ==
  /\ sent # None
  /\ sent' = None
  /\ told' = answer
  /\ Render
  /\ UNCHANGED <<form, stepIndex, registration, loaded, asked>>

Midnight ==
  /\ day < Len(Days)
  /\ day' = day + 1
  /\ UNCHANGED <<form, stepIndex, rendered, registration, loaded, asked, sent, told>>

Next ==
  \/ WindowKnown
  \/ \E id \in Ids : FillPrimary("id", id) \/ FillSecondary("id", id)
  \/ \E gender \in {"FEMALE", "MALE"} : FillPrimary("gender", gender) \/ FillSecondary("gender", gender)
  \/ \E dob \in Births : FillPrimary("dob", dob) \/ FillSecondary("dob", dob)
  \/ \E type \in {"SINGLE", "PAIRED"} : ChooseEntryType(type)
  \/ \E w \in Wilayas : ChooseWilaya(w) \/ CommunesLoaded(w)
  \/ \E c \in Communes : ChooseCommune(c)
  \/ GoNext \/ GoBack
  \/ \E key \in {"primary", "entryType", "location", "secondary"} : GoToStep(key)
  \/ Submit
  \/ \E answer \in {"receipt", "refused", "unknown"} : Answered(answer)
  \/ Midnight

Spec == Init /\ [][Next]_vars

-----------------------------------------------------------------------------

Values == [id : Ids \cup {None}, gender : {"FEMALE", "MALE", None}, dob : Births \cup {None}]

FormStates == [entryType : {"SINGLE", "PAIRED"}, wilaya : Wilayas \cup {None},
          commune : Communes \cup {None}, primary : Values, secondary : Values]

\* The index of the step is one of the list, whatever the answers made of the list.
TypeOK ==
  /\ form \in FormStates
  /\ sent \in FormStates \cup {None}
  /\ stepIndex \in DOMAIN StepKeys(form, rendered)
  /\ day \in DOMAIN Days /\ rendered \in 1 .. day
  /\ loaded \in Wilayas \cup {None} /\ asked \subseteq Wilayas

(* The review is only reached with a form the last check lets through: its     *)
(* button never does nothing, whose errors would be shown by no field of that  *)
(* step.                                                                        *)
ReviewIsComplete == CurrentKey = "review" => Validate(form) = {}

\* The subject the server makes of a request, of people it did not know.
Subject(f) ==
  LET person(a) == [id |-> a.id, gender |-> a.gender, dob |-> a.dob, hasWon |-> FALSE, applications |-> {}]
  IN [primary |-> person(f.primary),
      secondary |-> IF f.entryType = "PAIRED" THEN person(f.secondary) ELSE None,
      entryType |-> f.entryType,
      commune |-> [wilaya |-> CHOOSE w \in Wilayas : f.commune \in CommunesOf[w],
                   isActive |-> TRUE, wilayaIsActive |-> TRUE],
      claimedWilaya |-> f.wilaya, drawYear |-> Year, expectedDrawYear |-> None,
      registrationDate |-> Days[day], applicationId |-> None]

(* The form sends nothing that the server's own rules refuse of people it does *)
(* not know yet, a birthday between the filling in and the arrival included.    *)
SentIsAccepted == sent # None => EvaluateEligibility(Subject(sent)) = {}

==============================================================================
