------------------------------ MODULE MCAccounts ------------------------------
(***************************************************************************)
(* Access for TLC, one component at a time: `observed' names the one that  *)
(* moves.                                                                  *)
(*                                                                         *)
(* SignIn: two tabs of a browser, one account, one session, two wrong      *)
(* passwords of which one is too many.                                     *)
(* AdminAccounts: two accounts, two wilayas, two sessions, two calls at    *)
(* once, in production.                                                    *)
(* Reach: a commune of each of two wilayas; a national administrator, and  *)
(* one of the first commune who may be moved, but not to the second        *)
(* wilaya; one upload.  Listings: Reach without the upload, its listings   *)
(* opened by the second.                                                   *)
(* StatusLookup: two visitors behind one address, two applications, of     *)
(* which one is eligible.                                                  *)
(***************************************************************************)
EXTENDS Access, TLC

CONSTANTS ann, bob, north, south, t1, t2, call1, call2, tab1, tab2, app1, app2, visitor1, visitor2

VARIABLE observed

suiteVars == <<observed, ofSignIn, ofAccounts, ofReach, ofLookup>>

OneTown == "town" :> north
EachInOne == "arzew" :> "oran" @@ "bab" :> "alger"
ChiefAndClerk == "chief" :> "national" @@ "clerk" :> "arzew"
OneAddress == [visitor \in {visitor1, visitor2} |-> "nat64"]

SuiteInit ==
  /\ observed \in {"sign-in", "accounts", "reach", "listings", "lookup"}
  /\ SignIn!Init /\ AdminAccounts!Init /\ Reach!Init /\ StatusLookup!Init
  /\ app[app2] = "ELIGIBLE"
  /\ observed # "lookup" => app[app1] = "PENDING"

SuiteNext ==
  /\ UNCHANGED observed
  /\ \/ observed = "sign-in" /\ SignIn!Next /\ UNCHANGED <<ofAccounts, ofReach, ofLookup>>
     \/ observed = "accounts" /\ AdminAccounts!Next /\ UNCHANGED <<ofSignIn, ofReach, ofLookup>>
     \/ /\ observed \in {"reach", "listings"}
        /\ Reach!Next
        /\ place'["clerk"] # "alger"
        /\ IF observed = "reach" THEN UNCHANGED listing ELSE UNCHANGED batch
        /\ UNCHANGED <<ofSignIn, ofAccounts, ofLookup>>
     \/ observed = "lookup" /\ StatusLookup!Next /\ UNCHANGED <<ofSignIn, ofAccounts, ofReach>>

SuiteSpec == SuiteInit /\ [][SuiteNext]_suiteVars

Symmetry == Permutations({visitor1, visitor2}) \cup Permutations({call1, call2})

===============================================================================
