------------------------------- MODULE SignIn -------------------------------
(***************************************************************************)
(* Signing in and out of the console: the tabs of a browser, each with a   *)
(* cached answer to whether its cookie is valid, the one cookie they       *)
(* share, the sessions of the server, and the counter of failed attempts   *)
(* in front of the login.  Requests are served and their answers arrive in *)
(* any order, and either may be lost.                                      *)
(*                                                                         *)
(* Abstracted: hashing, the timing of answers, what a call is about.  A    *)
(* tab is opened anew only when it waits for nothing.                      *)
(***************************************************************************)
EXTENDS Naturals, FiniteSets

CONSTANTS
  Tabs, Accounts, Tokens,  \* the tokens are the sessions there may ever be
  MaxAttempts,             \* failed attempts allowed in a window of time
  Guesses,                 \* bound on the wrong passwords tried
  MayFail,                 \* whether requests and answers may be lost
  None

Kinds == {"me", "login", "logout", "call"}
Answers == {"ok", "refused", "tooMany", "error"}

Sessions == [user : Accounts, live : BOOLEAN]

Requests ==
  [token : Tokens \cup {None}, user : Accounts \cup {None}, admitted : BOOLEAN,
   answer : Answers \cup {None}, gets : Tokens \cup Accounts \cup {None}]

SignInAssumption ==
  /\ MaxAttempts \in Nat /\ Guesses \in Nat /\ MayFail \in BOOLEAN
  /\ None \notin Tokens \cup Accounts \cup Answers \cup Sessions \cup Requests

Statuses == {"closed", "checking", "authenticated", "unauthenticated"}

VARIABLES
  cookie,    \* the token the browser sends, or None
  session,   \* [token -> None, or its account and whether it is live]
  tab,       \* [tab -> status, user]: AuthProvider
  sent,      \* [tab -> [kind -> None, or the request on its way]]
  hits,      \* the counter of the login's rate limit
  wrong,     \* the wrong passwords that were checked
  typed,     \* the wrong passwords typed
  told       \* the tokens whose sign-out was confirmed to the browser

vars == <<cookie, session, tab, sent, hits, wrong, typed, told>>

Live(token) == token # None /\ session[token] # None /\ session[token].live

Request(token, user) ==
  [token |-> token, user |-> user, admitted |-> FALSE, answer |-> None, gets |-> None]

Send(t, kind, user) == sent' = [sent EXCEPT ![t][kind] = Request(cookie, user)]

Idle(t) == \A kind \in Kinds : sent[t][kind] = None

Init ==
  /\ cookie = None
  /\ session = [s \in Tokens |-> None]
  /\ tab = [t \in Tabs |-> [status |-> "closed", user |-> None]]
  /\ sent = [t \in Tabs |-> [kind \in Kinds |-> None]]
  /\ hits = 0 /\ wrong = 0 /\ typed = 0 /\ told = {}

(***************************************************************************)
(* The browser.                                                            *)
(***************************************************************************)
\* AuthProvider is mounted, and asks who it is.
Open(t) ==
  /\ Idle(t)
  /\ tab' = [tab EXCEPT ![t] = [status |-> "checking", user |-> None]]
  /\ Send(t, "me", None)
  /\ UNCHANGED <<cookie, session, hits, wrong, typed, told>>

\* Bound: a token is left for every sign-in on its way.
TokensLeft ==
  Cardinality({t \in Tabs : sent[t]["login"] # None /\ sent[t]["login"].gets = None})
    < Cardinality({s \in Tokens : session[s] = None})

\* AdminLogin: shown to whoever is not known to be signed in; None is a wrong
\* password.
SubmitLogin(t, user) ==
  /\ tab[t].status \in {"checking", "unauthenticated"} /\ sent[t]["login"] = None
  /\ IF user = None THEN typed < Guesses ELSE TokensLeft
  /\ typed' = IF user = None THEN typed + 1 ELSE typed
  /\ Send(t, "login", user)
  /\ UNCHANGED <<cookie, session, tab, hits, wrong, told>>

\* AdminProfile.
SubmitLogout(t) ==
  /\ tab[t].status = "authenticated" /\ sent[t]["logout"] = None
  /\ Send(t, "logout", None)
  /\ UNCHANGED <<cookie, session, tab, hits, wrong, typed, told>>

\* Any page of the console.
Call(t) ==
  /\ tab[t].status = "authenticated" /\ sent[t]["call"] = None
  /\ Send(t, "call", None)
  /\ UNCHANGED <<cookie, session, tab, hits, wrong, typed, told>>

(***************************************************************************)
(* The server.                                                             *)
(***************************************************************************)
Waiting(t, kind) == sent[t][kind] # None /\ sent[t][kind].answer = None

Reply(t, kind, answer, gets) ==
  sent' = [sent EXCEPT ![t][kind].answer = answer, ![t][kind].gets = gets]

\* createLoginRateLimit: counted first, and answered past the limit.
Admit(t) ==
  /\ Waiting(t, "login") /\ ~ sent[t]["login"].admitted
  /\ IF hits < MaxAttempts
     THEN /\ sent' = [sent EXCEPT ![t]["login"].admitted = TRUE]
          /\ hits' = hits + 1
     ELSE /\ Reply(t, "login", "tooMany", None)
          /\ UNCHANGED hits
  /\ UNCHANGED <<cookie, session, tab, wrong, typed, told>>

\* login: a fresh session, or the one answer for every failure.  A success is
\* taken off the counter.
Login(t) ==
  /\ Waiting(t, "login") /\ sent[t]["login"].admitted
  /\ LET user == sent[t]["login"].user IN
     IF user = None
     THEN /\ Reply(t, "login", "refused", None)
          /\ wrong' = wrong + 1
          /\ UNCHANGED <<session, hits>>
     ELSE \E token \in {s \in Tokens : session[s] = None} :
          /\ session' = [session EXCEPT ![token] = [user |-> user, live |-> TRUE]]
          /\ Reply(t, "login", "ok", token)
          /\ hits' = hits - 1
          /\ UNCHANGED wrong
  /\ UNCHANGED <<cookie, tab, typed, told>>

\* requireAuthenticatedUser, and whatever was asked of it.
Serve(t, kind) ==
  /\ kind \in {"me", "call"} /\ Waiting(t, kind)
  /\ LET token == sent[t][kind].token IN
     IF Live(token) THEN Reply(t, kind, "ok", session[token].user)
     ELSE Reply(t, kind, "refused", None)
  /\ UNCHANGED <<cookie, session, tab, hits, wrong, typed, told>>

\* logout: the session that asked is revoked.
Logout(t) ==
  /\ Waiting(t, "logout")
  /\ LET token == sent[t]["logout"].token IN
     IF Live(token)
     THEN /\ Reply(t, "logout", "ok", None)
          /\ session' = [session EXCEPT ![token].live = FALSE]
     ELSE /\ Reply(t, "logout", "refused", None)
          /\ UNCHANGED session
  /\ UNCHANGED <<cookie, tab, hits, wrong, typed, told>>

\* The session expires, or its account is disabled.
Expire(token) ==
  /\ Live(token)
  /\ session' = [session EXCEPT ![token].live = FALSE]
  /\ UNCHANGED <<cookie, tab, sent, hits, wrong, typed, told>>

\* A request is lost, or its answer with the cookie it carries.
Lose(t, kind) ==
  /\ MayFail /\ sent[t][kind] # None /\ sent[t][kind].answer # "error"
  /\ Reply(t, kind, "error", None)
  /\ UNCHANGED <<cookie, session, tab, hits, wrong, typed, told>>

(***************************************************************************)
(* The answers arrive.                                                     *)
(***************************************************************************)
Answered(t, kind, answers) == sent[t][kind] # None /\ sent[t][kind].answer \in answers

Arrives(t, kind) == sent' = [sent EXCEPT ![t][kind] = None]
SignedIn(t, user) == tab' = [tab EXCEPT ![t] = [status |-> "authenticated", user |-> user]]
SignedOut(t) == tab' = [tab EXCEPT ![t] = [status |-> "unauthenticated", user |-> None]]

\* Whatever fails, the check is over.
Checked(t) ==
  /\ Answered(t, "me", {"ok", "refused", "error"})
  /\ IF sent[t]["me"].answer = "ok" THEN SignedIn(t, sent[t]["me"].gets) ELSE SignedOut(t)
  /\ Arrives(t, "me")
  /\ UNCHANGED <<cookie, session, hits, wrong, typed, told>>

\* signIn; apiRequest reports every 401 but the check's.
LoggedIn(t) ==
  /\ Answered(t, "login", {"ok", "refused", "tooMany", "error"})
  /\ LET r == sent[t]["login"] IN
     CASE r.answer = "ok" -> cookie' = r.gets /\ SignedIn(t, r.user)
       [] r.answer = "refused" -> SignedOut(t) /\ UNCHANGED cookie
       [] OTHER -> UNCHANGED <<cookie, tab>>
  /\ Arrives(t, "login")
  /\ UNCHANGED <<session, hits, wrong, typed, told>>

\* signOut: signed out here, whatever the answer was.
LoggedOut(t) ==
  /\ Answered(t, "logout", {"ok", "refused", "error"})
  /\ IF sent[t]["logout"].answer = "ok"
     THEN cookie' = None /\ told' = told \cup {sent[t]["logout"].token}
     ELSE UNCHANGED <<cookie, told>>
  /\ SignedOut(t)
  /\ Arrives(t, "logout")
  /\ UNCHANGED <<session, hits, wrong, typed>>

\* setUnauthenticatedHandler: an expired session is noticed at the next call.
Returned(t) ==
  /\ Answered(t, "call", {"ok", "refused", "error"})
  /\ IF sent[t]["call"].answer = "refused" THEN SignedOut(t) ELSE UNCHANGED tab
  /\ Arrives(t, "call")
  /\ UNCHANGED <<cookie, session, hits, wrong, typed, told>>

Next ==
  \/ \E t \in Tabs :
       \/ Open(t) \/ SubmitLogout(t) \/ Call(t)
       \/ \E user \in Accounts \cup {None} : SubmitLogin(t, user)
       \/ Admit(t) \/ Login(t) \/ Logout(t)
       \/ \E kind \in Kinds : Serve(t, kind) \/ Lose(t, kind)
       \/ Checked(t) \/ LoggedIn(t) \/ LoggedOut(t) \/ Returned(t)
  \/ \E token \in Tokens : Expire(token)

Spec == Init /\ [][Next]_vars

\* The server answers, answers or errors arrive, and who works in a tab goes on
\* opening pages.
FairSpec ==
  /\ Spec
  /\ \A t \in Tabs :
       /\ WF_vars(Serve(t, "me")) /\ WF_vars(Serve(t, "call"))
       /\ WF_vars(Checked(t)) /\ WF_vars(Returned(t)) /\ WF_vars(Call(t))

-----------------------------------------------------------------------------
(***************************************************************************)
(* Properties.                                                             *)
(***************************************************************************)
TypeOK ==
  /\ cookie \in Tokens \cup {None}
  /\ \A s \in Tokens : session[s] = None \/ session[s].user \in Accounts
  /\ \A t \in Tabs :
       /\ tab[t].status \in Statuses /\ tab[t].user \in Accounts \cup {None}
       /\ tab[t].status = "authenticated" <=> tab[t].user # None
  /\ hits \in 0..MaxAttempts

\* Once a browser was told that it is signed out, nothing sent with that
\* session is served any more, requests on their way included.
ToldIsEnded ==
  [][\A t \in Tabs, kind \in Kinds :
       sent[t][kind] # None /\ sent[t][kind].token \in told /\ sent[t][kind].answer = None
         /\ sent'[t][kind] # None /\ kind # "login"
       => sent'[t][kind].answer # "ok"]_vars

\* However many attempts run side by side, no more wrong passwords are checked
\* in a window than the limit, and a right one takes nothing from the budget.
AttemptsAreBounded ==
  /\ wrong <= MaxAttempts
  /\ (\A t \in Tabs : sent[t]["login"] = None) /\ ~ MayFail => hits = wrong

\* A console that is open on a dead session is closed, as long as it is used.
DeadSessionIsNoticed ==
  \A t \in Tabs :
    (tab[t].status = "authenticated" /\ ~ Live(cookie))
      ~> (tab[t].status # "authenticated" \/ Live(cookie))

\* Nobody is left waiting for the check of a session.
CheckEnds == \A t \in Tabs : (tab[t].status = "checking") ~> (tab[t].status # "checking")

\* AuthProvider: its state is a cached answer to whether the cookie is valid.
SignedOutIsTrue ==
  \A t \in Tabs : tab[t].status = "unauthenticated" /\ Idle(t) => ~ Live(cookie)

\* AdminProfile: one can tell at a glance whose territory one is looking at.
LabelTellsWhose ==
  \A t \in Tabs :
    tab[t].status = "authenticated" /\ Live(cookie) /\ (\A s \in Tabs : Idle(s))
      => tab[t].user = session[cookie].user
==============================================================================
