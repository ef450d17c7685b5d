---------------------------- MODULE DrawLifecycle ----------------------------
(***************************************************************************)
(* The two lifecycles of the draw configuration: the national cycle        *)
(* (DrawYear) and one commune's own draw (CommuneDraw).  The tables are    *)
(* the ones the server and the console share                               *)
(* (shared/src/draw-configuration.ts), the predicates are the ones the     *)
(* services apply (server/src/lib/draw-lifecycle.ts).                      *)
(***************************************************************************)

DrawYearStatus == {"DRAFT", "REGISTRATION_OPEN", "REGISTRATION_CLOSED", "ARCHIVED"}

CommuneDrawStatus == {"DRAFT", "READY", "LOCKED", "COMPLETED", "CANCELLED"}

DrawYearTransitions ==
  { <<"DRAFT", "REGISTRATION_OPEN">>,
    <<"DRAFT", "ARCHIVED">>,
    <<"REGISTRATION_OPEN", "REGISTRATION_CLOSED">>,
    <<"REGISTRATION_CLOSED", "ARCHIVED">> }

CommuneDrawTransitions ==
  { <<"DRAFT", "READY">>,    <<"DRAFT", "CANCELLED">>,
    <<"READY", "DRAFT">>,    <<"READY", "LOCKED">>,  <<"READY", "CANCELLED">>,
    <<"LOCKED", "COMPLETED">> }

CanTransitionDrawYear(from, to) == <<from, to>> \in DrawYearTransitions

CanTransitionCommuneDraw(from, to) == <<from, to>> \in CommuneDrawTransitions

\* Faulty: an administrator may lock.
OnlyCompletedReserved(status) == status # "COMPLETED"

\* LOCKED is written by a freeze only, COMPLETED by an execution only.
IsAdministrativelySettable(status) == status \notin {"LOCKED", "COMPLETED"}

\* Faulty: a locked allocation may still be corrected.
AllowsSpotChangesUntilDrawn(status) == status \in {"DRAFT", "READY", "LOCKED"}

AllowsSpotChanges(status) == status \in {"DRAFT", "READY"}

AcceptsRegistrations(status) == status \in {"DRAFT", "READY"}

==============================================================================
