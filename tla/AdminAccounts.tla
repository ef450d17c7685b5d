---------------------------- MODULE AdminAccounts ----------------------------
(***************************************************************************)
(* Administrator accounts and their sessions (AdminAccountService,         *)
(* AuthService, requireAuthenticatedUser, the bootstrap script).  A call   *)
(* is authenticated once, reads, and commits: each is a step, and Calls    *)
(* says how many calls the server handles at a time.                       *)
(*                                                                         *)
(* Abstracted: passwords (who signs in knows theirs), the attempts that    *)
(* fail, tokens' digests, the rows of the audit trail.                     *)
(***************************************************************************)
EXTENDS Naturals, FiniteSets

CONSTANTS
  Users,          \* usernames
  Wilayas,
  WilayaOf,       \* the wilaya of each commune
  Tokens,         \* session tokens, random and never issued twice
  Calls,          \* requests being served
  Production,     \* NODE_ENV
  None

Communes == DOMAIN WilayaOf

PlaceAssumption ==
  /\ \A commune \in Communes : WilayaOf[commune] \in Wilayas
  /\ Production \in BOOLEAN
  /\ None \notin Wilayas \cup Communes

VARIABLES
  users,          \* the table users
  sessions,       \* the table sessions, and what was deleted from it
  signedOut,      \* tokens whose owner was told they are signed out
  calls           \* what each call has read, and how far it is

vars == <<users, sessions, signedOut, calls>>

AdminRole == {"SUPER_ADMIN", "WILAYA_ADMIN", "COMMUNE_ADMIN"}

Assignments ==
  [role : AdminRole, wilaya : Wilayas \cup {None}, commune : Communes \cup {None}]

\* users_role_scope_check and the composite key of (commune, wilaya).
LegalReach(a) ==
  CASE a.role = "SUPER_ADMIN"   -> a.wilaya = None /\ a.commune = None
    [] a.role = "WILAYA_ADMIN"  -> a.wilaya # None /\ a.commune = None
    [] a.role = "COMMUNE_ADMIN" -> a.commune # None /\ a.wilaya = WilayaOf[a.commune]

ValidAssignment(a) ==
  CASE a.role = "SUPER_ADMIN"   -> a.wilaya = None /\ a.commune = None
    [] a.role = "WILAYA_ADMIN"  -> a.wilaya # None /\ a.commune = None
    [] a.role = "COMMUNE_ADMIN" -> a.wilaya # None /\ a.commune # None
                                   /\ WilayaOf[a.commune] = a.wilaya

\* assertMayAssign, for the reach the middleware read.
MayAssign(actor, a) ==
  /\ a.role = "SUPER_ADMIN" => actor.role = "SUPER_ADMIN"
  /\ a.wilaya # None =>
       actor.role = "SUPER_ADMIN" \/ (actor.role = "WILAYA_ADMIN" /\ actor.wilaya = a.wilaya)

NoAccount == [role |-> "NONE", active |-> FALSE]
National == [role |-> "SUPER_ADMIN", wilaya |-> None, commune |-> None]

Account(reach) ==
  [role |-> reach.role, wilaya |-> reach.wilaya, commune |-> reach.commune, active |-> TRUE]

ActiveNationals == {u \in Users : users[u].role = "SUPER_ADMIN" /\ users[u].active}

Fresh == [state |-> "fresh"]
Deleted == [state |-> "deleted"]
Live(t) == sessions[t].state \in {"live", "expired"}

Idle == [phase |-> "idle"]

Init ==
  /\ users = [u \in Users |-> NoAccount]
  /\ sessions = [t \in Tokens |-> Fresh]
  /\ signedOut = {}
  /\ calls = [c \in Calls |-> Idle]

Answer(c) == calls' = [calls EXCEPT ![c] = Idle]

------------------------------------------------------------------------------
(* The scripts: the first national administrator.                           *)

Bootstrap(u) ==
  /\ users' = [users EXCEPT ![u] =
       IF users[u] = NoAccount THEN Account(National)
       ELSE IF Production THEN @ ELSE [@ EXCEPT !.active = TRUE]]
  /\ UNCHANGED <<sessions, signedOut, calls>>

------------------------------------------------------------------------------
(* Signing in and out                                                       *)

VerifyCredentials(c, u) ==
  /\ calls[c] = Idle
  /\ users[u].active
  /\ calls' = [calls EXCEPT ![c] = [phase |-> "verified", actor |-> u]]
  /\ UNCHANGED <<users, sessions, signedOut>>

StartSession(c, t) ==
  /\ calls[c].phase = "verified"
  /\ sessions[t] = Fresh
  /\ sessions' = [sessions EXCEPT ![t] = [state |-> "live", user |-> calls[c].actor]]
  /\ Answer(c)
  /\ UNCHANGED <<users, signedOut>>

\* expiresAt passes.
Expire(t) ==
  /\ sessions[t].state = "live"
  /\ sessions' = [sessions EXCEPT ![t].state = "expired"]
  /\ UNCHANGED <<users, signedOut, calls>>

EndSessionsOf(u) ==
  sessions' = [t \in Tokens |-> IF Live(t) /\ sessions[t].user = u THEN Deleted ELSE sessions[t]]

\* Faulty: deactivation is trusted to have deleted the sessions.
AnyLiveSession(t) == sessions[t].state = "live"

Accepted(t) == sessions[t].state = "live" /\ users[sessions[t].user].active

Authenticate(c, t) ==
  LET u == sessions[t].user IN
  /\ calls[c] = Idle
  /\ Accepted(t)
  /\ calls' = [calls EXCEPT ![c] =
       [phase |-> "in", actor |-> u, token |-> t,
        as |-> [role |-> users[u].role, wilaya |-> users[u].wilaya, commune |-> users[u].commune]]]
  /\ UNCHANGED <<users, sessions, signedOut>>

\* Expired rows, and those of a disabled account, are deleted on sight.
RefuseSession(c, t) ==
  /\ calls[c] = Idle
  /\ Live(t)
  /\ ~ Accepted(t)
  /\ IF sessions[t].state = "expired" THEN sessions' = [sessions EXCEPT ![t] = Deleted]
     ELSE EndSessionsOf(sessions[t].user)
  /\ UNCHANGED <<users, signedOut, calls>>

\* Faulty: only the cookie is cleared.
ClearCookie(c) ==
  /\ calls[c].phase = "in"
  /\ signedOut' = signedOut \cup {calls[c].token}
  /\ Answer(c)
  /\ UNCHANGED <<users, sessions>>

Logout(c) ==
  /\ calls[c].phase = "in"
  /\ sessions' = [sessions EXCEPT ![calls[c].token] = Deleted]
  /\ signedOut' = signedOut \cup {calls[c].token}
  /\ Answer(c)
  /\ UNCHANGED users

------------------------------------------------------------------------------
(* Accounts: routes of a SUPER_ADMIN, as the middleware read the role.      *)

AsNational(c) == calls[c].phase = "in" /\ calls[c].as.role = "SUPER_ADMIN"

\* Validation, the username, then the slow hash.
CheckAccount(c, u, a) ==
  /\ AsNational(c)
  /\ ValidAssignment(a)
  /\ MayAssign(calls[c].as, a)
  /\ users[u] = NoAccount
  /\ calls' = [calls EXCEPT ![c] =
       [phase |-> "hashed", actor |-> calls[c].actor, target |-> u, next |-> a]]
  /\ UNCHANGED <<users, sessions, signedOut>>

\* The unique index on usernames refuses the second of two.
CreateAccount(c) ==
  LET call == calls[c] IN
  /\ call.phase = "hashed"
  /\ users' = [users EXCEPT ![call.target] = IF @ = NoAccount THEN Account(call.next) ELSE @]
  /\ Answer(c)
  /\ UNCHANGED <<sessions, signedOut>>

Another(c, u) == users[u] # NoAccount /\ u # calls[c].actor

ReadForScope(c, u, a) ==
  /\ AsNational(c)
  /\ Another(c, u)
  /\ ValidAssignment(a)
  /\ MayAssign(calls[c].as, a)
  /\ calls' = [calls EXCEPT ![c] =
       [phase |-> IF users[u].role = "SUPER_ADMIN" /\ a.role # "SUPER_ADMIN" THEN "judging" ELSE "judged",
        kind |-> "scope", actor |-> calls[c].actor, target |-> u, next |-> a, seen |-> users[u]]]
  /\ UNCHANGED <<users, sessions, signedOut>>

ReadForDeactivation(c, u) ==
  /\ AsNational(c)
  /\ Another(c, u)
  /\ calls' = [calls EXCEPT ![c] =
       [phase |-> "judging", kind |-> "deactivate", actor |-> calls[c].actor, target |-> u,
        seen |-> users[u]]]
  /\ UNCHANGED <<users, sessions, signedOut>>

\* Before any transaction: somebody else must be left.
AssertNotLastSuperAdmin(u) == u \in ActiveNationals => ActiveNationals \ {u} # {}

Judge(c) ==
  LET call == calls[c] IN
  /\ call.phase = "judging"
  /\ IF AssertNotLastSuperAdmin(call.target)
     THEN calls' = [calls EXCEPT ![c].phase = "judged"]
     ELSE Answer(c)
  /\ UNCHANGED <<users, sessions, signedOut>>

ChangeScope(c) ==
  LET call == calls[c] IN
  /\ call.phase = "judged" /\ call.kind = "scope"
  /\ users' = [users EXCEPT ![call.target] = [Account(call.next) EXCEPT !.active = users[call.target].active]]
  /\ Answer(c)
  /\ UNCHANGED <<sessions, signedOut>>

\* An account found disabled at the first read is left alone.
Deactivate(c) ==
  LET call == calls[c] IN
  /\ call.phase = "judged" /\ call.kind = "deactivate"
  /\ IF call.seen.active
     THEN users' = [users EXCEPT ![call.target].active = FALSE] /\ EndSessionsOf(call.target)
     ELSE UNCHANGED <<users, sessions>>
  /\ Answer(c)
  /\ UNCHANGED signedOut

Next ==
  \/ \E u \in Users : Bootstrap(u)
  \/ \E t \in Tokens : Expire(t)
  \/ \E c \in Calls :
       \/ \E u \in Users : VerifyCredentials(c, u)
       \/ \E t \in Tokens : StartSession(c, t) \/ Authenticate(c, t) \/ RefuseSession(c, t)
       \/ Logout(c)
       \/ \E u \in Users, a \in Assignments : CheckAccount(c, u, a) \/ ReadForScope(c, u, a)
       \/ \E u \in Users : ReadForDeactivation(c, u)
       \/ CreateAccount(c)
       \/ Judge(c)
       \/ ChangeScope(c)
       \/ Deactivate(c)

Spec == Init /\ [][Next]_vars

------------------------------------------------------------------------------
\* Every account has one of the three shapes the database accepts.
TypeOK ==
  /\ \A u \in Users : users[u] = NoAccount \/ (users[u].active \in BOOLEAN /\ LegalReach(users[u]))
  /\ \A t \in Tokens : sessions[t] \in {Fresh, Deleted} \/ (Live(t) /\ users[sessions[t].user] # NoAccount)
  /\ \A t \in signedOut : sessions[t] = Deleted

\* What AdminAccountService says: the system is never left with no way in.
WayIn == (\A u \in Users : users[u] = NoAccount) \/ ActiveNationals # {}

\* A request is taken from an active account, on a session its owner has not ended; also
\* when the account was disabled between a sign-in's check and its session.
OnlySignedIn == [][
  \A c \in Calls : calls[c] = Idle /\ calls'[c].phase = "in" =>
    users[calls'[c].actor].active /\ calls'[c].token \notin signedOut]_vars

\* Deactivation outlives every call that was being served.
DisabledForGood == [][
  \A u \in Users : users[u] # NoAccount /\ ~ users[u].active => ~ users'[u].active]_vars

\* What docs/authorization.md says: only a SUPER_ADMIN grants national access.
GrantedByNational == [][
  \A c \in Calls, u \in Users :
    /\ calls[c].phase \in {"judged", "hashed"} /\ calls'[c] = Idle
    /\ users[u].role # "SUPER_ADMIN" /\ users'[u].role = "SUPER_ADMIN"
    => calls[c].actor \in ActiveNationals]_vars

==============================================================================
