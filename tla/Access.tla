-------------------------------- MODULE Access --------------------------------
(***************************************************************************)
(* Who is let in, and who is told what: the accounts of administrators     *)
(* with their sessions (AdminAccounts), the browser they sign in with      *)
(* (SignIn), what each of them reaches (Reach), and what the public is     *)
(* told of an application (StatusLookup).  The four keep separate state;   *)
(* what each promises is put together here, for any values of their        *)
(* constants.                                                              *)
(***************************************************************************)
EXTENDS Integers, FiniteSets

CONSTANTS
  Null,                                                             \* no value
  Tabs, Accounts, Cookies, MaxAttempts, Guesses, MayFail,           \* SignIn
  Users, Regions, RegionOf, Tokens, Served, Production,             \* AdminAccounts
  Localities, Wilayas, WilayaOf, Staff, AppointedTo, Movable, Readers,
  Batches, Country,                                                \* Reach
  Applications, Unknown, Visitors, Addresses, AddressOf,
  AddressLimit, ReferenceLimit, MaxCounted                          \* StatusLookup

VARIABLES
  cookie, session, tab, sent, hits, wrong, typed, told,             \* SignIn
  users, sessions, signedOut, served,                               \* AdminAccounts
  place, known, request, batch, events, listing,                    \* Reach
  draw, app, abandoned, promoted, page, last, byAddress, byReference, minted   \* StatusLookup

ofSignIn == <<cookie, session, tab, sent, hits, wrong, typed, told>>
ofAccounts == <<users, sessions, signedOut, served>>
ofReach == <<place, known, request, batch, events, listing>>
ofLookup == <<draw, app, abandoned, promoted, page, last, byAddress, byReference, minted>>

SignIn == INSTANCE SignIn WITH Tokens <- Cookies, None <- Null

AdminAccounts == INSTANCE AdminAccounts WITH
  Wilayas <- Regions, WilayaOf <- RegionOf, Calls <- Served, calls <- served, None <- Null

Reach == INSTANCE Reach WITH
  Admins <- Staff, Communes <- Localities, National <- Country,
  trail <- events, page <- listing, None <- Null

StatusLookup == INSTANCE StatusLookup WITH None <- Null

ASSUME AccessAssumption ==
  /\ SignIn!SignInAssumption
  /\ AdminAccounts!PlaceAssumption
  /\ Reach!ReachAssumption
  /\ StatusLookup!LookupAssumption

------------------------------------------------------------------------------
\* A call is served for somebody whose account is active and who has not been told that
\* this session is over, requests on their way included, and a deactivation outlives every
\* call being served; no more wrong passwords are tried than the limit.
OnlySignedIn ==
  /\ AdminAccounts!OnlySignedIn /\ AdminAccounts!DisabledForGood /\ SignIn!ToldIsEnded
  /\ [](AdminAccounts!TypeOK /\ SignIn!TypeOK /\ SignIn!AttemptsAreBounded)

\* However accounts are moved, an event about a commune is in the trail of everybody who
\* reaches that commune, reaches nest, whoever uploaded an import sees it whole, and a
\* listing shows nothing outside the reach it was asked with, whatever its filter.
TrailReachesTerritory ==
  /\ Reach!TypeOK /\ Reach!TrailReachesTerritory /\ Reach!ReachesNest
  /\ Reach!UploaderSeesItWhole /\ Reach!FilterOnlyNarrows

\* A lookup whose two reads fall around the announcement tells no outcome early, and who
\* asks again is never told less; and what callers choose to ask for fills no counter.
NoEarlyOutcome ==
  /\ [](StatusLookup!TypeOK /\ StatusLookup!NoEarlyOutcome /\ StatusLookup!KeysAreBounded)
  /\ StatusLookup!AnswersNeverGoBack

\* What AdminAccountService says: the system is never left with no way in.
WayIn == AdminAccounts!WayIn

===============================================================================
