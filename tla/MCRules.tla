-------------------------------- MODULE MCRules --------------------------------
(***************************************************************************)
(* The rules for what is stored in bulk, each against every small case of  *)
(* what it is given: pools, registers, files.  `observed' names the one    *)
(* that is judged.                                                         *)
(*                                                                         *)
(* snapshot: a pool of up to two entries is frozen, and its rows are then  *)
(* changed, exchanged or lost, or only read in another order.              *)
(* register: two lines about two people, one cell of them misread; the one *)
(* the database knows has every history two years allow, never a draw      *)
(* entered after a win, or is named by tables of winners, and is excluded  *)
(* when anything says they won.                                            *)
(* file: what a writer may put in seven characters.                        *)
(* import: the batches those rules serve (LegacyImport).  Two registers    *)
(* have the same person win, in different years, one of them beside a      *)
(* person the database does not know; the known person is in the pool of   *)
(* the draw of year 2.                                                     *)
(***************************************************************************)
EXTENDS ImportVerdicts, ImportFile, Snapshot

VARIABLE observed

suiteVars == <<observed, snapshotVars, registerVars, fileVars, vars>>

TwoPeople == {"known", "new"}
Home == {"home"}
HomeAndAway == {"home", "away"}
TwoBatches == {"first", "second"}
Register == [b \in TwoBatches |->
  IF b = "first" THEN <<Line("known", 1, "won"), Line("new", 1, "lost"), Line("new", 2, "lost")>>
  ELSE <<Line("known", 2, "won")>>]
Own == [b \in TwoBatches |-> b]
TwoAdmins == {"alice", "badr"}
TheKnown == {"known"}
X == {"x"}

\* Somebody the archive of winners names may have no ledger row for it.
Person(h, wins) ==
  [registered |-> TRUE, hasWon |-> wins # {}, wins |-> wins, history |-> h, commune |-> "home"]

Persons ==
  LET Histories == {h \in [Years -> Outcomes] :
                      \A y \in Years : h[y] = "won" => \A z \in Years : z > y => h[z] = "none"}
  IN {Person(h, {y \in Years : h[y] = "won"}) : h \in Histories}
     \cup {Person([y \in Years |-> "none"], wins) : wins \in SUBSET Years \ {{}}}

Databases ==
  {[p \in TwoPeople |-> IF p = "known" THEN person ELSE Unknown] : person \in Persons}

SmallEntries ==
  {e \in [application : {1, 2}, entryType : {"SINGLE", "PAIRED"}, primary : {"amina", "chafik"},
          secondary : {"brahim", "-"}, weight : 1 .. 2] :
     (e.entryType = "PAIRED") = (e.secondary # "-")}

------------------------------------------------------------------------------
SuiteInit ==
  /\ observed \in {"snapshot", "register", "file", "import"}
  /\ SnapshotInit /\ RegisterInit /\ FileInit /\ Init
  /\ observed # "register" =>
       database["known"].wins = {} /\ database["known"].history = [y \in Years |-> "none"]
  /\ observed # "file" => ending = <<Newline>> /\ text = <<>>

SuiteNext ==
  /\ UNCHANGED observed
  /\ \/ /\ observed = "snapshot" /\ SnapshotNext
        /\ UNCHANGED <<registerVars, fileVars, vars>>
     \/ /\ observed = "register" /\ RegisterNext
        /\ UNCHANGED <<snapshotVars, fileVars, vars>>
     \/ /\ observed = "file" /\ FileNext
        /\ UNCHANGED <<snapshotVars, registerVars, vars>>
     \/ /\ observed = "import" /\ Next
        /\ UNCHANGED <<snapshotVars, registerVars, fileVars>>

SuiteSpec == SuiteInit /\ [][SuiteNext]_suiteVars

===============================================================================
