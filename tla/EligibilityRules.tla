--------------------------- MODULE EligibilityRules ---------------------------
(***************************************************************************)
(* The rules an application is judged by: a function of what is known of   *)
(* its applicants, its commune and its year, used when it is submitted and *)
(* again when its commune's pool is frozen.                                *)
(***************************************************************************)
EXTENDS Integers, Sequences

CONSTANT None

MINIMUM_APPLICATION_AGE == 19
MAHRAM_OPTIONAL_AGE == 45
MIN_DRAW_YEAR == 2000
MAX_DRAW_YEAR == 2200

Date(y, m, d) == [y |-> y, m |-> m, d |-> d]

CalculateAgeAt(dob, today) ==
  LET beforeBirthday == today.m < dob.m \/ (today.m = dob.m /\ today.d < dob.d) IN
  today.y - dob.y - (IF beforeBirthday THEN 1 ELSE 0)

OccupiesAnother(a, applicationId) == a.applications \ {applicationId} # {}

\* The reasons against a subject: the rules all run, none hides another.
EvaluateEligibility(s) ==
  LET one == s.primary # None
      two == s.secondary # None
      ageOf(a) == CalculateAgeAt(a.dob, s.registrationDate)
      paired == s.entryType = "PAIRED"
      holds == [
        PARTICIPANT_NOT_FOUND |-> ~ one,
        SECONDARY_PARTICIPANT_NOT_FOUND |-> paired /\ ~ two,
        APPLICATION_INCOMPLETE |-> paired /\ ~ two,
        ENTRY_TYPE_MISMATCH |-> ~ paired /\ two,
        DUPLICATE_APPLICANTS |-> one /\ two /\ s.primary.id = s.secondary.id,
        INVALID_COMMUNE |->
          \/ s.commune = None
          \/ ~ s.commune.isActive \/ ~ s.commune.wilayaIsActive
          \/ s.claimedWilaya # None /\ s.commune.wilaya # s.claimedWilaya,
        DRAW_YEAR_INVALID |->
          \/ s.drawYear \notin MIN_DRAW_YEAR .. MAX_DRAW_YEAR
          \/ s.expectedDrawYear # None /\ s.drawYear # s.expectedDrawYear,
        PARTICIPANT_HAS_ALREADY_WON |-> one /\ s.primary.hasWon,
        SECONDARY_PARTICIPANT_HAS_ALREADY_WON |-> two /\ s.secondary.hasWon,
        DUPLICATE_ANNUAL_APPLICATION |-> one /\ OccupiesAnother(s.primary, s.applicationId),
        SECONDARY_ALREADY_REGISTERED |-> two /\ OccupiesAnother(s.secondary, s.applicationId),
        UNDER_MINIMUM_AGE |-> one /\ ageOf(s.primary) < MINIMUM_APPLICATION_AGE,
        SECONDARY_UNDER_MINIMUM_AGE |-> two /\ ageOf(s.secondary) < MINIMUM_APPLICATION_AGE,
        GENDER_UNAVAILABLE |-> (one /\ s.primary.gender = None) \/ (two /\ s.secondary.gender = None),
        MAHRAM_REQUIRED |-> ~ paired /\ one /\ s.primary.gender = "FEMALE"
                            /\ ageOf(s.primary) < MAHRAM_OPTIONAL_AGE,
        INVALID_MAHRAM_GENDER |-> paired /\ one /\ two /\ s.secondary.gender # "MALE",
        INVALID_PAIRED_GENDERS |-> paired /\ one /\ two
                            /\ (s.primary.gender # "FEMALE" \/ s.secondary.gender # "MALE")]
  IN {code \in DOMAIN holds : holds[code]}

\* Which reason speaks when several hold.
REASON_PRECEDENCE == <<
  "PARTICIPANT_NOT_FOUND", "SECONDARY_PARTICIPANT_NOT_FOUND", "APPLICATION_INCOMPLETE",
  "ENTRY_TYPE_MISMATCH", "DUPLICATE_APPLICANTS", "INVALID_COMMUNE", "DRAW_YEAR_INVALID",
  "PARTICIPANT_HAS_ALREADY_WON", "SECONDARY_PARTICIPANT_HAS_ALREADY_WON",
  "DUPLICATE_ANNUAL_APPLICATION", "SECONDARY_ALREADY_REGISTERED", "UNDER_MINIMUM_AGE",
  "SECONDARY_UNDER_MINIMUM_AGE", "GENDER_UNAVAILABLE", "MAHRAM_REQUIRED",
  "INVALID_MAHRAM_GENDER", "INVALID_PAIRED_GENDERS" >>

LeadingReason(reasons) ==
  LET ranks == {i \in DOMAIN REASON_PRECEDENCE : REASON_PRECEDENCE[i] \in reasons}
  IN REASON_PRECEDENCE[CHOOSE i \in ranks : \A j \in ranks : i <= j]

\* Faulty: a rule about the second applicant has an answer of its own.
AnswerByApplicant(reasons) ==
  LET reason == LeadingReason(reasons) IN
  CASE reason = "INVALID_COMMUNE" -> "INVALID_COMMUNE"
    [] reason = "DRAW_YEAR_INVALID" -> "REGISTRATION_CLOSED"
    [] reason = "SECONDARY_PARTICIPANT_HAS_ALREADY_WON" -> "VALIDATION_FAILED"
    [] reason \in {"DUPLICATE_ANNUAL_APPLICATION", "SECONDARY_ALREADY_REGISTERED"} -> "ALREADY_APPLIED"
    [] OTHER -> "APPLICANT_NOT_ELIGIBLE"

\* What a citizen is told of it.
RegistrationErrorFor(reasons) ==
  LET reason == LeadingReason(reasons) IN
  CASE reason = "INVALID_COMMUNE" -> "INVALID_COMMUNE"
    [] reason = "DRAW_YEAR_INVALID" -> "REGISTRATION_CLOSED"
    [] reason \in {"PARTICIPANT_HAS_ALREADY_WON", "SECONDARY_PARTICIPANT_HAS_ALREADY_WON",
                   "UNDER_MINIMUM_AGE", "SECONDARY_UNDER_MINIMUM_AGE", "GENDER_UNAVAILABLE",
                   "MAHRAM_REQUIRED", "INVALID_MAHRAM_GENDER", "INVALID_PAIRED_GENDERS"}
         -> "APPLICANT_NOT_ELIGIBLE"
    [] reason \in {"DUPLICATE_ANNUAL_APPLICATION", "SECONDARY_ALREADY_REGISTERED"} -> "ALREADY_APPLIED"
    [] OTHER -> "VALIDATION_FAILED"

------------------------------------------------------------------------------
\* The same two people, each with what the other has done.
Exchanged(s) == [s EXCEPT
  !.primary.hasWon = s.secondary.hasWon, !.secondary.hasWon = s.primary.hasWon,
  !.primary.applications = s.secondary.applications, !.secondary.applications = s.primary.applications,
  !.primary.dob = s.secondary.dob, !.secondary.dob = s.primary.dob]

\* Two applicants are told the same when it is the other who won, applied already or is
\* too young.
AnswersAlike(s) == s.secondary # None =>
  LET here == EvaluateEligibility(s)
      there == EvaluateEligibility(Exchanged(s))
  IN here # {} => there # {} /\ RegistrationErrorFor(here) = RegistrationErrorFor(there)

==============================================================================
