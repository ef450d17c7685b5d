------------------------------- MODULE MCRecords -------------------------------
(***************************************************************************)
(* Records for TLC, one component at a time: `observed' names the one that *)
(* moves, the other stays as it begins.                                    *)
(*                                                                         *)
(* Corrections: one scoped administrator, two national ones, two requests, *)
(* three calls, and the promotion of a reserve.                            *)
(* Settlement: two places, a pool of a pair and two people on their own.   *)
(***************************************************************************)
EXTENDS Records, TLC

CONSTANTS scoped, nadia, omar, r1, r2, c1, c2, c3

VARIABLE observed

suiteVars == <<observed, vars, ofSettlement>>

To(field, value) == [f \in {field} |-> value]
OneFieldEach == {To("participated", FALSE), To("won", TRUE), To("verified", TRUE)}

APairAndTwo == "e1" :> {"amine", "aicha"} @@ "e2" :> {"brahim"} @@ "e3" :> {"chafik"}

SuiteInit ==
  /\ observed \in {"corrections", "settlement"}
  /\ Init /\ Settlement!Init
  /\ observed # "corrections" => record = [f \in Fields |-> FALSE]

SuiteNext ==
  /\ UNCHANGED observed
  /\ \/ observed = "corrections" /\ Next /\ UNCHANGED ofSettlement
     \/ observed = "settlement" /\ Settlement!Next /\ UNCHANGED vars

SuiteSpec == SuiteInit /\ [][SuiteNext]_suiteVars

Symmetry == Permutations(Calls)

===============================================================================
