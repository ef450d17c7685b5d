------------------------------ MODULE MCConsoles ------------------------------
(***************************************************************************)
(* Pages for TLC, one component at a time: `observed' names the one that   *)
(* moves, `setting' the values of DrawConsole and Batch.                   *)
(*                                                                         *)
(* RegisterForm: the form is open on the eve of two birthdays, a 45th,     *)
(* which makes the mahram a choice, and a 19th, which lets one apply.      *)
(* DrawConsole, at a draw in preparation: a national administrator's page  *)
(* and a dialog that edits the allocation; and at a draw that was          *)
(* executed: the page of a national administrator and another's.           *)
(* Batch: three draws of two years and two administrators served by two    *)
(* processes, or two draws and administrators served by one, the first     *)
(* draw never to be executed; or one administrator who freezes three draws *)
(* and executes them.                                                      *)
(* Dashboard: one year, two communes, a reader of one of them.             *)
(* Listing: two statuses, two receipts, pages of one row.                  *)
(* PublicResults: communes of two years; two visitors of single results,   *)
(* and one reader of the list, while a winner of each gives up the place.  *)
(* DrawWatch: two communes, two requests of a page, one failure.           *)
(* DevScripts: two people who apply on their own in one year, and one of   *)
(* them in a pair in the next; a pool more than there are draws; a win of  *)
(* that one that is imported, and corrections of that one's rows.          *)
(***************************************************************************)
EXTENDS Pages, Sequences, TLC

CONSTANTS p1, p2, q1, q2, amina, brahim, visitor1, visitor2

VARIABLE observed

suiteVars == <<observed, setting, ofForm, ofConsole, ofBatch, ofDashboard, ofListing, ofWatch,
               ofResults, ofScripts>>

Date(y, m, d) == [y |-> y, m |-> m, d |-> d]
TwoBirths == {Date(1982, 3, 2), Date(2008, 3, 2)}
OneTownEach == "oran" :> {"arzew"} @@ "alger" :> {"bab"}
EveAndBirthday == <<Date(2027, 3, 1), Date(2027, 3, 2)>>

Undrawn(status) ==
  [status |-> status, spots |-> 1, version |-> 0, pool |-> Nothing, published |-> FALSE,
   abandoned |-> {}, reserve |-> [position \in {1} |-> [status |-> "WAITING", place |-> Nothing]]]

BeforeAndAfter ==
  "in preparation" :>
    [pages |-> {p1}, national |-> {p1}, editors |-> {"editor"}, winners |-> {1},
     positions |-> {1}, spots |-> {1, 2}, draw |-> Undrawn("READY"), edits |-> 2]
  @@ "executed" :>
    [pages |-> {p1, p2}, national |-> {p1}, editors |-> {}, winners |-> {1, 2},
     positions |-> {1}, spots |-> {1}, edits |-> 1,
     draw |-> [Undrawn("COMPLETED") EXCEPT !.pool = [spots |-> 1], !.version = 1]]

Executions(servedBy, years) ==
  [admins |-> {"ann", "bob"}, processes |-> {"left", "right"},
   servedBy |-> "ann" :> "left" @@ "bob" :> servedBy, kinds |-> {"execute"},
   draws |-> years, stages |-> [d \in {years[i] : i \in DOMAIN years} |-> "LOCKED"],
   years |-> "d1" :> 2026 @@ "d2" :> 2026 @@ "d3" :> 2027,
   uncovered |-> {}, unfillable |-> {"d1"}, openings |-> 2, faults |-> 1]

InSeveralWays ==
  "two servers" :> Executions("right", <<"d1", "d2", "d3">>)
  @@ "one server" :> Executions("left", <<"d1", "d2">>)
  @@ "both kinds" :>
    [Executions("right", <<"d1", "d2", "d3">>) EXCEPT
       !.admins = {"ann"}, !.servedBy = "ann" :> "left", !.kinds = {"freeze", "execute"},
       !.stages = "d1" :> "DRAFT" @@ "d2" :> "READY" @@ "d3" :> "LOCKED",
       !.uncovered = {"d3"}, !.unfillable = {}]

Row(rank, choice, text) == [rank |-> rank, choice |-> choice, text |-> text]
TwoRows == {Row(1, "pending", "other"), Row(2, "eligible", "receipt")}
TwoYears == "arzew" :> 2026 @@ "bab" :> 2027

YearOfEach == "arzew 2026" :> 2026 @@ "arzew 2027" :> 2027
DrawOfEach == "single" :> "arzew 2026" @@ "other" :> "arzew 2026" @@ "pair" :> "arzew 2027"
ThreePeople == "single" :> {"chafik"} @@ "other" :> {"dalila"} @@ "pair" :> {"dalila", "amina"}
Imported == {[person |-> "dalila", year |-> 2027, won |-> TRUE]}

SuiteInit ==
  /\ \/ observed = "console" /\ setting \in DOMAIN Consoles
     \/ observed = "batch" /\ setting \in DOMAIN Batches
     \/ /\ observed \in {"form", "dashboard", "listing", "watch", "result", "list", "scripts"}
        /\ setting = Nothing
  /\ IF observed = "console" THEN \E s \in DOMAIN Consoles : s = setting /\ DrawConsole(s)!Init
                             ELSE DrawConsole("executed")!Init
  /\ IF observed = "batch" THEN \E s \in DOMAIN Batches : s = setting /\ Batch(s)!Init
                           ELSE Batch("both kinds")!Init /\ year["ann"] = 2026
  /\ RegisterForm!Init /\ Dashboard!Init /\ Listing!Init /\ DrawWatch!Init
  /\ PublicResults!Init /\ DevScripts!Init

SuiteNext ==
  /\ UNCHANGED <<observed, setting>>
  /\ \/ observed = "form" /\ RegisterForm!Next
        /\ UNCHANGED <<ofConsole, ofBatch, ofDashboard, ofListing, ofWatch, ofResults, ofScripts>>
     \/ /\ \E s \in DOMAIN Consoles : observed = "console" /\ s = setting /\ DrawConsole(s)!Next
        /\ UNCHANGED <<ofForm, ofBatch, ofDashboard, ofListing, ofWatch, ofResults, ofScripts>>
     \/ /\ \E s \in DOMAIN Batches : observed = "batch" /\ s = setting /\ Batch(s)!Next
        /\ UNCHANGED <<ofForm, ofConsole, ofDashboard, ofListing, ofWatch, ofResults, ofScripts>>
     \/ observed = "dashboard" /\ Dashboard!Next
        /\ UNCHANGED <<ofForm, ofConsole, ofBatch, ofListing, ofWatch, ofResults, ofScripts>>
     \/ observed = "listing" /\ Listing!Next
        /\ UNCHANGED <<ofForm, ofConsole, ofBatch, ofDashboard, ofWatch, ofResults, ofScripts>>
     \/ observed = "watch" /\ DrawWatch!Next
        /\ UNCHANGED <<ofForm, ofConsole, ofBatch, ofDashboard, ofListing, ofResults, ofScripts>>
     \/ /\ observed \in {"result", "list"}
        /\ PublicResults!Next
        /\ IF observed = "result" THEN list' = list ELSE result' = result
        /\ UNCHANGED <<ofForm, ofConsole, ofBatch, ofDashboard, ofListing, ofWatch, ofScripts>>
     \/ observed = "scripts" /\ DevScripts!Next
        /\ UNCHANGED <<ofForm, ofConsole, ofBatch, ofDashboard, ofListing, ofWatch, ofResults>>

SuiteSpec == SuiteInit /\ [][SuiteNext]_suiteVars

===============================================================================
