-------------------------------- MODULE Records --------------------------------
(***************************************************************************)
(* The components that keep the ledger true: Corrections, of one row, and  *)
(* Settlement, of everybody in one draw.  Each has the others' writes to   *)
(* its tables among its own actions, and keeps its own state.              *)
(***************************************************************************)
EXTENDS Corrections, FiniteSets

CONSTANTS Travellers, Allocated, Publishers                             \* Settlement

VARIABLES
  status, result, outcome, archive, excluded, ledger, abandonments, promotions,
  publication, announced, counts                                        \* Settlement

ofSettlement ==
  <<status, result, outcome, archive, excluded, ledger, abandonments, promotions,
    publication, announced, counts>>

Settlement == INSTANCE Settlement WITH abandoned <- abandonments, promoted <- promotions

ASSUME RecordsAssumption == Settlement!PoolAssumption

\* Application, archive, exclusion and ledger tell one story of the year about
\* everybody nobody has corrected, and the announcement's gate lets a completed draw pass
\* whose ledger was left alone.
OneStory == Settlement!TypeOK /\ Settlement!OneStory /\ Settlement!NoFalseAlarm

===============================================================================
