------------------------------ MODULE MCProgress ------------------------------
(***************************************************************************)
(* What comes about in the end, under the fairness each component states:  *)
(* PoolFreeze, Registration, DrawWatch and SignIn side by side; `observed' *)
(* names the one that moves.                                               *)
(*                                                                         *)
(* PoolFreeze: a couple, the husband with a gap in his years, and a man    *)
(* whose legacy year is verified late, which brings back the year before   *)
(* it, and who wins elsewhere, one official who patches the status (pool:  *)
(* a request that dies is one that does not go on); and the same           *)
(* undisturbed and never cancelled, with a crash (freeze), where the pool  *)
(* must be frozen in the end.                                              *)
(* Registration: a couple that either of them submits, each in the role    *)
(* the other would give them, and a man alone; two submissions.            *)
(* DrawWatch: one commune, two requests of its page, one failure.          *)
(* SignIn: one tab and two sessions of an account, one wrong password;     *)
(* and the same with requests and answers that are lost.                   *)
(***************************************************************************)
EXTENDS PoolFreeze, TLC

CONSTANTS amina, brahim, chafik, r1, r2, f1, f2, q1, q2

VARIABLES
  observed,
  participants, applications, submission,                                 \* Registration
  watched, copy, at, shown, loading, failed, hidden, polling, armed, handle, asked, answer,
  failures,                                                               \* DrawWatch
  cookie, session, tab, sent, hits, wrong, typed, told                    \* SignIn

ofRegistration == <<participants, applications, submission>>
ofWatch == <<watched, copy, at, shown, loading, failed, hidden, polling, armed, handle, asked,
             answer, failures>>
ofSignIn == <<cookie, session, tab, sent, hits, wrong, typed, told>>

suiteVars == <<observed, vars, ofRegistration, ofWatch, ofSignIn>>

Lost(verified) == [participated |-> TRUE, won |-> FALSE, verified |-> verified]

TwoApplications == <<"couple", "single">>
ThreePeople == {amina, brahim, chafik}
OfThem == "couple" :> {amina, brahim} @@ "single" :> {chafik}
Waited ==
  amina :> (2002 :> Lost(TRUE)) @@ brahim :> (2000 :> Lost(TRUE) @@ 2002 :> Lost(TRUE))
  @@ chafik :> (2001 :> Lost(TRUE) @@ 2002 :> Lost(FALSE))
VerifiedLate == {[person |-> chafik, year |-> 2002, record |-> Lost(TRUE)]}
TwoFreezers == {f1, f2}
TheMan == {chafik}

OneOfficial == {"official"}
AnySetting == {"DRAFT", "READY", "CANCELLED"}

Disturbed == INSTANCE PoolFreeze WITH MaxCrashes <- 0

Undisturbed == INSTANCE PoolFreeze WITH
  Amendments <- {}, MayWin <- {}, Settings <- {"DRAFT", "READY"}

Date(y, m, d) == [y |-> y, m |-> m, d |-> d]
Amina == [id |-> amina, gender |-> "FEMALE", dob |-> Date(1982, 3, 2)]
Brahim == [id |-> brahim, gender |-> "MALE", dob |-> Date(2008, 3, 1)]

Form(primary, secondary) ==
  [primary |-> primary, secondary |-> secondary, communeId |-> "arzew", claimedWilaya |-> "oran"]

Registration == INSTANCE Registration WITH
  Requests <- {r1, r2},
  Forms <- {Form(Amina, Brahim),
            Form([Brahim EXCEPT !.gender = "FEMALE"], [Amina EXCEPT !.gender = "MALE"]),
            Form(Brahim, None)},
  Communes <- "arzew" :> [wilaya |-> "oran", isActive |-> TRUE, wilayaIsActive |-> TRUE],
  Entered <- {}, References <- {"ref1", "ref2"}, Year <- 2027, Today <- Date(2027, 3, 1),
  request <- submission

DrawWatch == INSTANCE DrawWatch WITH
  Communes <- {"arzew"}, Requests <- {q1, q2}, MaxFailures <- 1, draw <- watched

SignIn == INSTANCE SignIn WITH
  Tabs <- {"tab"}, Accounts <- {"ann"}, Tokens <- {"s1", "s2"},
  MaxAttempts <- 1, Guesses <- 1, MayFail <- FALSE

Unreliable == INSTANCE SignIn WITH
  Tabs <- {"tab"}, Accounts <- {"ann"}, Tokens <- {"s1", "s2"},
  MaxAttempts <- 1, Guesses <- 1, MayFail <- TRUE

ASSUME Registration!FormsAssumption
ASSUME DrawWatch!WatchAssumption /\ SignIn!SignInAssumption /\ Unreliable!SignInAssumption

SuiteInit ==
  /\ observed \in {"pool", "freeze", "registration", "watch", "sign-in", "unreliable"}
  /\ Init /\ Registration!Init /\ DrawWatch!Init /\ SignIn!Init

SuiteNext ==
  /\ UNCHANGED observed
  /\ \/ /\ \/ observed = "pool" /\ Disturbed!Next
           \/ observed = "freeze" /\ Undisturbed!Next
        /\ UNCHANGED <<ofRegistration, ofWatch, ofSignIn>>
     \/ observed = "registration" /\ Registration!Next
        /\ UNCHANGED <<vars, ofWatch, ofSignIn>>
     \/ observed = "watch" /\ DrawWatch!Next
        /\ UNCHANGED <<vars, ofRegistration, ofSignIn>>
     \/ /\ \/ observed = "sign-in" /\ SignIn!Next
           \/ observed = "unreliable" /\ Unreliable!Next
        /\ UNCHANGED <<vars, ofRegistration, ofWatch>>

\* The fairness that the module of the component that moves states.
FreezeFairness ==
  /\ \A f \in Freezers :
       /\ WF_vars(observed = "freeze" /\ Undisturbed!Freeze(f))
       /\ WF_vars(observed = "freeze" /\ Undisturbed!Work(f))
  /\ WF_vars(observed = "freeze" /\ Undisturbed!CloseRegistration)
  /\ \A o \in Officials :
       /\ WF_vars(observed = "freeze" /\ Undisturbed!ReadForPatch(o, "READY"))
       /\ WF_vars(observed = "freeze" /\ Undisturbed!WritePatch(o))

RegistrationFairness ==
  \A r \in {r1, r2} : WF_ofRegistration(observed = "registration" /\ Registration!Serve(r))

WatchFairness ==
  /\ WF_ofWatch(observed = "watch" /\ DrawWatch!Fire)
  /\ WF_ofWatch(observed = "watch" /\ DrawWatch!Revalidate("arzew"))
  /\ \A q \in {q1, q2} :
       /\ WF_ofWatch(observed = "watch" /\ DrawWatch!Serve(q))
       /\ WF_ofWatch(observed = "watch" /\ DrawWatch!Arrive(q))

SignInFairness ==
  LET Used == observed \in {"sign-in", "unreliable"} IN
  /\ WF_ofSignIn(Used /\ SignIn!Serve("tab", "me"))
  /\ WF_ofSignIn(Used /\ SignIn!Serve("tab", "call"))
  /\ WF_ofSignIn(Used /\ SignIn!Checked("tab"))
  /\ WF_ofSignIn(Used /\ SignIn!Returned("tab"))
  /\ WF_ofSignIn(Used /\ SignIn!Call("tab"))

SuiteSpec ==
  /\ SuiteInit /\ [][SuiteNext]_suiteVars
  /\ FreezeFairness /\ RegistrationFairness /\ WatchFairness /\ SignInFairness

------------------------------------------------------------------------------
\* FrozenForGood and StreakIsUnbroken are stated by PoolFreeze.

\* A pool is frozen in the end, though the process dies between two applications' weights
\* and leaves them frozen ahead of the pool.
FrozenInTheEnd == observed = "freeze" => EventuallyFrozen

\* Whoever asks is told in the end: a submission is answered, also when two wait for each
\* other's people; the check of a session ends, also when its request is lost; and a console
\* that is open on a dead session is closed, as long as it is used.
EveryoneAnswered ==
  /\ observed = "registration" => Registration!EveryoneAnswered
  /\ observed = "unreliable" => Unreliable!CheckEnds
  /\ observed = "sign-in" => SignIn!DeadSessionIsNoticed

\* A visitor who keeps the page in view sees the announcement, whatever failed before, came
\* late or out of order.
AnnouncementArrives == observed = "watch" => DrawWatch!AnnouncementArrives

===============================================================================
