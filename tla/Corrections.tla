----------------------------- MODULE Corrections -----------------------------
(***************************************************************************)
(* One row of the participation ledger and everybody who may have it       *)
(* corrected: scoped administrators who ask (ApprovalService), national    *)
(* ones who decide, or correct it at once (correctWithAudit).  Each call   *)
(* reads before its transaction begins, and correct() reads the row it is  *)
(* to write back through another connection than its transaction's.  The   *)
(* row has one more writer: the promotion of the reserve the person drew.  *)
(*                                                                         *)
(* Abstracted: reasons and notes (their presence is checked before any of  *)
(* this), geography, and `source', which every correction sets to the same *)
(* value.                                                                  *)
(***************************************************************************)
EXTENDS Naturals, Sequences

CONSTANTS
  Admins,         \* administrators whose scope includes the row
  Nationals,      \* the SUPER_ADMINs among them
  Requests,       \* ids of approval requests
  Asked,          \* bound: the changes anybody asks for
  Calls,          \* requests to the server, each made once
  None            \* no request, no administrator

Fields == {"participated", "won", "verified"}

\* The body names at least one field.
Changes == UNION {[named -> BOOLEAN] : named \in SUBSET Fields \ {{}}}

Rows == {row \in [Fields -> BOOLEAN] : row["won"] => row["participated"]}

ASSUME AdminAssumption ==
  Nationals \subseteq Admins /\ None \notin Admins \cup Requests /\ Asked \subseteq Changes

VARIABLES
  record,         \* the row of participation_history
  requests,       \* approval_requests
  calls,          \* what each call has read, and how far it is
  trail           \* audit_logs, of these actions

vars == <<record, requests, calls, trail>>

Unused == [status |-> "ABSENT", by |-> None, change |-> None, reviewer |-> None]

Waiting == [phase |-> "waiting"]
Ended == [phase |-> "ended"]

Init ==
  /\ record \in Rows
  /\ requests = [r \in Requests |-> Unused]
  /\ calls = [c \in Calls |-> Waiting]
  /\ trail = <<>>

------------------------------------------------------------------------------
Call(c, phase) == calls' = [calls EXCEPT ![c] = phase]

At(c, kind, phase) == calls[c].phase = phase /\ calls[c].kind = kind

End(c) == Call(c, Ended)

\* An update of a request keeps its row locked until its transaction ends.
Locked(r) == \E c \in Calls : calls[c].phase \in {"claimed", "ready"} /\ calls[c].request = r

Event(action, actor, request) == [action |-> action, actor |-> actor, request |-> request]

Correction(actor, request, before, after) ==
  [action |-> "HISTORICAL_RECORD_CORRECTED", actor |-> actor, request |-> request,
   before |-> before, after |-> after]

Over(row, change) == [f \in Fields |-> IF f \in DOMAIN change THEN change[f] ELSE row[f]]

Coherent(row) == row["won"] => row["participated"]

\* participated and won are written whatever was named, verified only when it was.
Written(current, existing, change) ==
  [Over(existing, change) EXCEPT
     !["verified"] = IF "verified" \in DOMAIN change THEN change["verified"] ELSE current["verified"]]

\* Faulty: the trail is told what was computed, not what the database returned.
AuditComputed(current, existing, change) == Over(existing, change)

AuditedAfter(current, existing, change) == Written(current, existing, change)

MayReview(actor, r) == actor \in Nationals /\ actor # requests[r].by

Pending(r) == requests[r].status = "PENDING"

------------------------------------------------------------------------------
(* The controllers: what is read before any transaction.                    *)

\* findHistoryRecord, for a request or, nationally, for a direct correction.
ReadRecord(c, kind, actor, change) ==
  /\ calls[c] = Waiting
  /\ kind = "CORRECT" => actor \in Nationals
  /\ Call(c, [phase |-> "read", kind |-> kind, actor |-> actor, change |-> change, before |-> record])
  /\ UNCHANGED <<record, requests, trail>>

\* findApprovalRequest and pending().
ReadRequest(c, kind, actor, r) ==
  /\ calls[c] = Waiting
  /\ Pending(r)
  /\ IF kind = "CANCEL" THEN actor = requests[r].by ELSE MayReview(actor, r)
  /\ Call(c, [phase |-> "read", kind |-> kind, actor |-> actor, request |-> r])
  /\ UNCHANGED <<record, requests, trail>>

------------------------------------------------------------------------------
(* The transactions.                                                        *)

\* assertChangesSomething looks at the row the controller read.
Request(c, r) ==
  LET call == calls[c] IN
  /\ At(c, "REQUEST", "read")
  /\ requests[r] = Unused
  /\ Over(call.before, call.change) # call.before
  /\ requests' = [requests EXCEPT ![r] =
       [status |-> "PENDING", by |-> call.actor, change |-> call.change, reviewer |-> None]]
  /\ trail' = Append(trail, Event("APPROVAL_CREATED", call.actor, r))
  /\ End(c)
  /\ UNCHANGED record

RefuseRequest(c) ==
  /\ At(c, "REQUEST", "read")
  /\ Over(calls[c].before, calls[c].change) = calls[c].before
  /\ End(c)
  /\ UNCHANGED <<record, requests, trail>>

\* The conditional update of claim(), alone in its transaction but for the audit row.
DecideAlone(c, status, reviewer) ==
  LET call == calls[c] IN
  /\ ~ Locked(call.request)
  /\ Pending(call.request)
  /\ requests' = [requests EXCEPT ![call.request].status = status, ![call.request].reviewer = reviewer]
  /\ trail' = Append(trail, Event(status, call.actor, call.request))
  /\ End(c)
  /\ UNCHANGED record

Reject(c) == At(c, "REJECT", "read") /\ DecideAlone(c, "REJECTED", calls[c].actor)

\* A withdrawal is not a decision: it has no reviewer.
Cancel(c) == At(c, "CANCEL", "read") /\ DecideAlone(c, "CANCELLED", None)

\* approve(): the claim, not yet visible to others, and the `before' of the trail.
Claim(c) ==
  LET call == calls[c] IN
  /\ At(c, "APPROVE", "read")
  /\ ~ Locked(call.request)
  /\ Pending(call.request)
  /\ Call(c, [phase |-> "claimed", kind |-> "APPROVE", actor |-> call.actor, request |-> call.request,
              change |-> requests[call.request].change, before |-> record])
  /\ UNCHANGED <<record, requests, trail>>

\* APPROVAL_NOT_PENDING: somebody else decided first.
LoseClaim(c) ==
  LET call == calls[c] IN
  /\ call.phase = "read" /\ call.kind \in {"APPROVE", "REJECT", "CANCEL"}
  /\ ~ Locked(call.request)
  /\ ~ Pending(call.request)
  /\ End(c)
  /\ UNCHANGED <<record, requests, trail>>

\* correct(): findById, outside the transaction.
ReadExisting(c) ==
  LET call == calls[c] IN
  /\ At(c, "CORRECT", "read") \/ At(c, "APPROVE", "claimed")
  /\ Call(c, [phase |-> "ready", kind |-> call.kind, actor |-> call.actor,
              request |-> IF call.kind = "APPROVE" THEN call.request ELSE None,
              change |-> call.change, before |-> call.before, existing |-> record])
  /\ UNCHANGED <<record, requests, trail>>

\* Faulty: the claim was not part of the transaction that failed.
ClaimStays(c) ==
  /\ calls[c].phase = "ready"
  /\ ~ Coherent(Over(calls[c].existing, calls[c].change))
  /\ End(c)
  /\ requests' = IF calls[c].kind = "CORRECT" THEN requests
                 ELSE [requests EXCEPT ![calls[c].request].status = "APPROVED",
                                       ![calls[c].request].reviewer = calls[c].actor]
  /\ UNCHANGED <<record, trail>>

\* Somebody who did not take part cannot have won: the claim is undone too.
RollBack(c) ==
  /\ calls[c].phase = "ready"
  /\ ~ Coherent(Over(calls[c].existing, calls[c].change))
  /\ End(c)
  /\ UNCHANGED <<record, requests, trail>>

\* The row and its place in the trail, whichever way the correction came.
CorrectWith(c, events) ==
  LET call == calls[c] IN
  /\ Coherent(Over(call.existing, call.change))
  /\ record' = Written(record, call.existing, call.change)
  /\ trail' = trail \o events \o
       <<Correction(call.actor, call.request, call.before,
                    AuditedAfter(record, call.existing, call.change))>>
  /\ End(c)

CorrectDirectly(c) ==
  /\ At(c, "CORRECT", "ready")
  /\ CorrectWith(c, <<>>)
  /\ UNCHANGED requests

ApplyApproved(c) ==
  LET call == calls[c] IN
  /\ At(c, "APPROVE", "ready")
  /\ requests' = [requests EXCEPT ![call.request].status = "APPROVED",
                                  ![call.request].reviewer = call.actor]
  /\ CorrectWith(c, <<Event("APPROVED", call.actor, call.request)>>)

------------------------------------------------------------------------------
(* The other writer of the row, which audits no correction.                 *)

Promotions == {i \in DOMAIN trail : trail[i].action = "RESERVE_PROMOTED"}

Granted(row) == [row EXCEPT !["won"] = TRUE]

\* promoteReserve: the row of the year is given its win in place.  A reserve takes one
\* place, and the database refuses the win of somebody who did not take part.
Promote(actor) ==
  /\ Promotions = {}
  /\ record["participated"]
  /\ record' = Granted(record)
  /\ trail' = Append(trail, Event("RESERVE_PROMOTED", actor, None))
  /\ UNCHANGED <<requests, calls>>

Serve(c) ==
  \/ \E kind \in {"REQUEST", "CORRECT"}, actor \in Admins, change \in Asked :
       ReadRecord(c, kind, actor, change)
  \/ \E kind \in {"APPROVE", "REJECT", "CANCEL"}, actor \in Admins, r \in Requests :
       ReadRequest(c, kind, actor, r)
  \/ \E r \in Requests : Request(c, r)
  \/ RefuseRequest(c)
  \/ Reject(c)
  \/ Cancel(c)
  \/ Claim(c)
  \/ LoseClaim(c)
  \/ ReadExisting(c)
  \/ RollBack(c)
  \/ CorrectDirectly(c)
  \/ ApplyApproved(c)

Next ==
  \/ \E c \in Calls : Serve(c)
  \/ \E actor \in Admins : Promote(actor)

Spec == Init /\ [][Next]_vars

------------------------------------------------------------------------------
Statuses == {"ABSENT", "PENDING", "APPROVED", "REJECTED", "CANCELLED"}

\* The row is coherent, and a request has a reviewer exactly when one decided it.
TypeOK ==
  /\ record \in Rows
  /\ \A r \in Requests :
       /\ requests[r].status \in Statuses
       /\ requests[r].by \in Admins <=> requests[r].status # "ABSENT"
       /\ requests[r].reviewer \in Admins <=> requests[r].status \in {"APPROVED", "REJECTED"}

Corrections_ == {i \in DOMAIN trail : trail[i].action = "HISTORICAL_RECORD_CORRECTED"}

EventsOf(r, action) == {i \in DOMAIN trail : trail[i].request = r /\ trail[i].action = action}

\* Approving is applying: a request is approved in the table, in the trail and in the
\* ledger, by one transaction, or in none of them; and nothing is decided twice.
ApprovedIsApplied == \A r \in Requests :
  LET decisions == UNION {EventsOf(r, s) : s \in {"APPROVED", "REJECTED", "CANCELLED"}}
      applied == EventsOf(r, "HISTORICAL_RECORD_CORRECTED")
  IN
  /\ requests[r].status \in {"ABSENT", "PENDING"} => decisions = {} /\ applied = {}
  /\ requests[r].status \in {"REJECTED", "CANCELLED"} => applied = {}
  /\ requests[r].status = "APPROVED" =>
       \E i \in DOMAIN trail : decisions = {i} /\ applied = {i + 1}

\* Read in the trail alone: behind every correction there are two administrators, or one
\* national one who made it directly.
FourEyes == \A i \in Corrections_ :
  LET asked == {j \in DOMAIN trail : trail[j].action = "APPROVAL_CREATED"
                                     /\ trail[j].request = trail[i].request} IN
  /\ trail[i].actor \in Nationals
  /\ trail[i].request # None => \A j \in asked : trail[j].actor # trail[i].actor

\* Approving a request is applying it, by one transaction, once, and never by whoever
\* asked: behind every correction stand two administrators or one national one.
ApprovedByTwo == TypeOK /\ ApprovedIsApplied /\ FourEyes

\* The trail accounts for the row: it is what the last correction says it became, with the
\* win of a promotion that came after it; and a win granted by a promotion goes only by a
\* correction that says so, however stale what that correction had read.
LedgerIsLastAudited ==
  /\ \A i \in Corrections_ : (\A j \in Corrections_ : j <= i) =>
       record = IF \E j \in Promotions : i < j THEN Granted(trail[i].after) ELSE trail[i].after
  /\ \A j \in Promotions : (\A i \in Corrections_ : i < j) => record["won"]

Changed(fields) == {f \in fields : record'[f] # record[f]}

AskedFor(f) == \E c \in Calls :
  /\ calls[c].phase = "ready" /\ calls'[c] = Ended
  /\ f \in DOMAIN calls[c].change /\ calls[c].change[f] = record'[f]

\* What approval.service.ts says of every field: approving cannot mean something
\* different from what was asked.
OnlyWhatWasAsked == [][\A f \in Changed(Fields) : AskedFor(f)]_vars

\* What audit-payload.ts says of the trail: it carries enough to reconstruct the changes.
TrailReconstructs == \A i, j \in Corrections_ :
  i < j /\ (\A k \in Corrections_ : k <= i \/ j <= k) => trail[j].before = trail[i].after

==============================================================================
