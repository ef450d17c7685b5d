------------------------- MODULE AdministrationProofs -------------------------
(***************************************************************************)
(* Proofs about Records and Access, whose components keep separate state:  *)
(* first the ledger (Corrections, for any administrators, requests and     *)
(* number of calls at a time, and Settlement, for any finite pool), then   *)
(* who is let in and told what (AdminAccounts, SignIn, Reach and           *)
(* StatusLookup).                                                          *)
(***************************************************************************)
EXTENDS Records, Access, Induction, FiniteSetTheorems, TLAPS

------------------------------------------------------------------------------
(* Corrections: one row of the ledger, and who has it corrected.            *)

Actors == Admins \cup {None}

RequestRows ==
  {Unused}
  \cup {row \in [status : Statuses \ {"ABSENT"}, by : Admins, change : Changes, reviewer : Actors] :
          row.reviewer \in Admins <=> row.status \in {"APPROVED", "REJECTED"}}

Events ==
  [action : {"APPROVAL_CREATED", "APPROVED", "REJECTED", "CANCELLED"},
   actor : Actors, request : Requests]
  \cup [action : {"RESERVE_PROMOTED"}, actor : Actors, request : {None}]
  \cup [action : {"HISTORICAL_RECORD_CORRECTED"}, actor : Actors,
        request : Requests \cup {None}, before : Rows, after : Rows]

\* What a call has read, by how far it is.
CallOK(call) ==
  /\ call.phase \in {"waiting", "read", "claimed", "ready", "ended"}
  /\ call.phase = "read" =>
       /\ call.kind \in {"REQUEST", "CORRECT", "APPROVE", "REJECT", "CANCEL"}
       /\ call.actor \in Admins
       /\ call.kind \in {"REQUEST", "CORRECT"} => call.change \in Changes /\ call.before \in Rows
       /\ call.kind \in {"APPROVE", "REJECT", "CANCEL"} => call.request \in Requests
  /\ call.phase = "claimed" =>
       /\ call.kind = "APPROVE" /\ call.actor \in Admins /\ call.request \in Requests
       /\ call.change \in Changes /\ call.before \in Rows
  /\ call.phase = "ready" =>
       /\ call.kind \in {"CORRECT", "APPROVE"} /\ call.actor \in Admins
       /\ call.request \in (IF call.kind = "APPROVE" THEN Requests ELSE {None})
       /\ call.change \in Changes /\ call.before \in Rows /\ call.existing \in Rows

\* Whoever is about to correct may: alone as a national administrator, or as the reviewer
\* of somebody else's request.
CallMay(call) ==
  /\ call.phase \in {"read", "ready"} /\ call.kind = "CORRECT" => call.actor \in Nationals
  /\ call.phase \in {"read", "claimed", "ready"} /\ call.kind = "APPROVE" =>
       requests[call.request].status # "ABSENT" /\ MayReview(call.actor, call.request)
  /\ call.phase = "read" /\ call.kind = "REJECT" =>
       requests[call.request].status # "ABSENT" /\ MayReview(call.actor, call.request)
  /\ call.phase = "read" /\ call.kind = "CANCEL" => requests[call.request].status # "ABSENT"

\* A claim in flight holds a pending request, and no other claim holds it.
Holds(c, r) == calls[c].phase \in {"claimed", "ready"} /\ calls[c].request = r

ClaimsHold ==
  /\ \A c \in Calls, r \in Requests : Holds(c, r) => Pending(r)
  /\ \A c, d \in Calls, r \in Requests : Holds(c, r) /\ Holds(d, r) => c = d

\* What the trail says of requests and of those who corrected stays so.
TrailTells ==
  \A i \in DOMAIN trail :
    /\ trail[i].request # None => requests[trail[i].request].status # "ABSENT"
    /\ trail[i].action = "APPROVAL_CREATED" =>
         trail[i].request # None /\ trail[i].actor = requests[trail[i].request].by
    /\ trail[i].action = "HISTORICAL_RECORD_CORRECTED" =>
         /\ trail[i].actor \in Nationals
         /\ trail[i].request # None => trail[i].actor # requests[trail[i].request].by

TypeInv ==
  /\ record \in Rows
  /\ requests \in [Requests -> RequestRows]
  /\ trail \in Seq(Events)
  /\ DOMAIN calls = Calls
  /\ \A c \in Calls : CallOK(calls[c])

IInv ==
  /\ TypeInv
  /\ TypeOK
  /\ \A c \in Calls : CallMay(calls[c])
  /\ ClaimsHold
  /\ TrailTells
  /\ ApprovedIsApplied
  /\ LedgerIsLastAudited

------------------------------------------------------------------------------
(* Helpers.                                                                 *)

\* A call takes one step, the others stay where they are.
LEMMA CallBecomes ==
  ASSUME DOMAIN calls = Calls, NEW c \in Calls, NEW phase, Call(c, phase)
  PROVE  /\ DOMAIN calls' = Calls
         /\ calls'[c] = phase
         /\ \A d \in Calls : d # c => calls'[d] = calls[d]
  BY DEF Call

\* A row with a change over it is a row as far as its fields go.
LEMMA OverIsTyped ==
  ASSUME NEW row \in [Fields -> BOOLEAN], NEW change \in Changes
  PROVE  Over(row, change) \in [Fields -> BOOLEAN]
  <1>1. PICK named \in SUBSET Fields \ {{}} : change \in [named -> BOOLEAN]
    BY DEF Changes
  <1>2. \A f \in Fields : f \in DOMAIN change => change[f] \in BOOLEAN
    BY <1>1
  <1> QED
    BY <1>2 DEF Over

\* What is written is a row of the ledger when the change was found coherent: only
\* `verified' may be another than was judged.
LEMMA WrittenIsRow ==
  ASSUME NEW row \in Rows, NEW existing \in Rows, NEW change \in Changes,
         Coherent(Over(existing, change))
  PROVE  Written(row, existing, change) \in Rows
  <1> DEFINE over == Over(existing, change)
             written == Written(row, existing, change)
  <1>1. over \in [Fields -> BOOLEAN]
    BY OverIsTyped DEF Rows
  <1>2. "won" \in Fields /\ "participated" \in Fields /\ "verified" \in Fields
    BY DEF Fields
  <1>3. "verified" \in DOMAIN change => change["verified"] \in BOOLEAN
    BY DEF Changes
  <1>4. row["verified"] \in BOOLEAN
    BY <1>2 DEF Rows
  <1>5. written \in [Fields -> BOOLEAN]
    BY <1>1, <1>2, <1>3, <1>4 DEF Written
  <1>6. written["won"] = over["won"] /\ written["participated"] = over["participated"]
    BY <1>1, <1>2 DEF Written
  <1> QED
    BY <1>5, <1>6 DEF Rows, Coherent

\* A promotion makes a row of the ledger of one of somebody who took part, once.
LEMMA GrantedIsRow ==
  ASSUME NEW row \in Rows
  PROVE  /\ Granted(row)["won"] = TRUE
         /\ Granted(Granted(row)) = Granted(row)
         /\ row["participated"] => Granted(row) \in Rows
  <1>1. row \in [Fields -> BOOLEAN] /\ "won" \in Fields /\ "participated" \in Fields
    BY DEF Rows, Fields
  <1>2. Granted(row)["won"] = TRUE /\ Granted(Granted(row)) = Granted(row)
    BY <1>1 DEF Granted
  <1>3. Granted(row) \in [Fields -> BOOLEAN] /\ Granted(row)["participated"] = row["participated"]
    BY <1>1 DEF Granted
  <1> QED
    BY <1>2, <1>3 DEF Rows

\* The trail with one event more.
LEMMA OneMore ==
  ASSUME NEW S, NEW s \in Seq(S), NEW e \in S
  PROVE  /\ Append(s, e) \in Seq(S)
         /\ DOMAIN Append(s, e) = DOMAIN s \cup {Len(s) + 1}
         /\ Len(s) + 1 \notin DOMAIN s
         /\ \A i \in DOMAIN s : Append(s, e)[i] = s[i]
         /\ Append(s, e)[Len(s) + 1] = e
  OBVIOUS

------------------------------------------------------------------------------
(* Types.                                                                   *)

LEMMA InitTypeInv == Init => TypeInv
  BY DEF Init, TypeInv, RequestRows, Unused, Waiting, CallOK, Statuses, Actors

\* An event of the trail is an event whoever may be behind it.
LEMMA EventIsTyped ==
  /\ \A actor \in Admins, r \in Requests,
       action \in {"APPROVAL_CREATED", "APPROVED", "REJECTED", "CANCELLED"} :
       Event(action, actor, r) \in Events
  /\ \A actor \in Admins : Event("RESERVE_PROMOTED", actor, None) \in Events
  /\ \A actor \in Admins, r \in Requests \cup {None}, before, after \in Rows :
       Correction(actor, r, before, after) \in Events
  BY DEF Event, Correction, Events, Actors

\* A decided request is a row of approval_requests.
LEMMA DecisionIsTyped ==
  ASSUME requests \in [Requests -> RequestRows], NEW r \in Requests,
         Pending(r), NEW decision \in Statuses \ {"ABSENT"}, NEW reviewer \in Actors,
         reviewer \in Admins <=> decision \in {"APPROVED", "REJECTED"}
  PROVE  [requests EXCEPT ![r].status = decision, ![r].reviewer = reviewer]
           \in [Requests -> RequestRows]
  <1>1. requests[r] \in RequestRows \ {Unused}
    BY DEF Pending, Unused
  <1>2. [[requests[r] EXCEPT !.status = decision] EXCEPT !.reviewer = reviewer] \in RequestRows
    BY <1>1 DEF RequestRows
  <1> QED
    BY <1>2

\* Nor does the end of a call disturb them.
LEMMA EndTypes ==
  ASSUME TypeInv, NEW c \in Calls, End(c)
  PROVE  DOMAIN calls' = Calls /\ \A d \in Calls : CallOK(calls'[d])
  <1>1. CallOK(Ended)
    BY DEF CallOK, Ended
  <1>2. DOMAIN calls = Calls /\ \A d \in Calls : CallOK(calls[d])
    BY DEF TypeInv
  <1>3. /\ DOMAIN calls' = Calls /\ calls'[c] = Ended
        /\ \A d \in Calls : d # c => calls'[d] = calls[d]
    BY <1>2, CallBecomes DEF End
  <1> QED
    BY <1>1, <1>2, <1>3

\* The steps that only read keep the types.
LEMMA ReadTypeInv ==
  ASSUME TypeInv, NEW c \in Calls, NEW phase, CallOK(phase), Call(c, phase),
         UNCHANGED <<record, requests, trail>>
  PROVE  TypeInv'
  <1>1. DOMAIN calls = Calls
    BY DEF TypeInv
  <1>2. DOMAIN calls' = Calls /\ \A d \in Calls : CallOK(calls'[d])
    BY <1>1, CallBecomes DEF TypeInv
  <1> QED
    BY <1>2 DEF TypeInv

\* A correction writes a row of the ledger and an event of the trail.
LEMMA CorrectTypeInv ==
  ASSUME TypeInv, NEW c \in Calls, calls[c].phase = "ready", NEW news \in Seq(Events),
         CorrectWith(c, news)
  PROVE  /\ record' \in Rows
         /\ trail' = Append(trail \o news,
                            Correction(calls[c].actor, calls[c].request, calls[c].before, record'))
         /\ Correction(calls[c].actor, calls[c].request, calls[c].before, record') \in Events
         /\ trail' \in Seq(Events)
         /\ DOMAIN calls' = Calls
         /\ \A d \in Calls : CallOK(calls'[d])
  <1> DEFINE call == calls[c]
             correction == Correction(call.actor, call.request, call.before, record')
  <1>1. /\ call.actor \in Admins /\ call.request \in Requests \cup {None}
        /\ call.change \in Changes /\ call.before \in Rows /\ call.existing \in Rows
    BY DEF TypeInv, CallOK
  <1>2. record' \in Rows
    BY <1>1, WrittenIsRow DEF CorrectWith, TypeInv
  <1>3. correction \in Events
    BY <1>1, <1>2, EventIsTyped
  <1>4. trail' = trail \o news \o <<correction>>
    BY DEF CorrectWith, AuditedAfter
  <1>5. trail \in Seq(Events)
    BY DEF TypeInv
  <1>6. trail' = Append(trail \o news, correction) /\ trail' \in Seq(Events)
    BY <1>3, <1>4, <1>5
  <1>7. DOMAIN calls' = Calls /\ \A d \in Calls : CallOK(calls'[d])
    BY EndTypes DEF CorrectWith
  <1> QED
    BY <1>2, <1>3, <1>6, <1>7

\* Every step keeps the types.
LEMMA StepTypeInv ==
  ASSUME AdminAssumption, TypeInv, ClaimsHold, [Next]_vars
  PROVE  TypeInv'
  <1> USE DEF AdminAssumption
  <1>1. ASSUME NEW c \in Calls, NEW kind \in {"REQUEST", "CORRECT"}, NEW actor \in Admins,
               NEW change \in Asked, ReadRecord(c, kind, actor, change)
        PROVE  TypeInv'
    <2>1. record \in Rows
      BY DEF TypeInv
    <2>2. CallOK([phase |-> "read", kind |-> kind, actor |-> actor, change |-> change,
                  before |-> record])
      BY <2>1 DEF CallOK
    <2> QED
      BY <1>1, <2>2, ReadTypeInv DEF ReadRecord
  <1>2. ASSUME NEW c \in Calls, NEW kind \in {"APPROVE", "REJECT", "CANCEL"},
               NEW actor \in Admins, NEW r \in Requests, ReadRequest(c, kind, actor, r)
        PROVE  TypeInv'
    <2>1. CallOK([phase |-> "read", kind |-> kind, actor |-> actor, request |-> r])
      BY DEF CallOK
    <2> QED
      BY <1>2, <2>1, ReadTypeInv DEF ReadRequest
  <1>3. ASSUME NEW c \in Calls, NEW r \in Requests, Request(c, r)
        PROVE  TypeInv'
    <2>1. calls[c].actor \in Admins /\ calls[c].change \in Changes
      BY <1>3 DEF Request, At, TypeInv, CallOK
    <2>2. [status |-> "PENDING", by |-> calls[c].actor, change |-> calls[c].change,
           reviewer |-> None] \in RequestRows
      BY <2>1 DEF RequestRows, Statuses, Actors
    <2>3. requests' \in [Requests -> RequestRows]
      BY <1>3, <2>2 DEF Request, TypeInv
    <2>4. trail' \in Seq(Events)
      BY <1>3, <2>1, EventIsTyped DEF Request, TypeInv
    <2> QED
      BY <1>3, <2>3, <2>4, EndTypes DEF Request, TypeInv
  <1>4. ASSUME NEW c \in Calls, RefuseRequest(c)
        PROVE  TypeInv'
    BY <1>4, EndTypes DEF RefuseRequest, TypeInv
  <1>5. ASSUME NEW c \in Calls, NEW decision \in {"REJECTED", "CANCELLED"}, NEW reviewer \in Actors,
               calls[c].phase = "read", calls[c].kind \in {"REJECT", "CANCEL"},
               reviewer \in Admins <=> decision = "REJECTED",
               DecideAlone(c, decision, reviewer)
        PROVE  TypeInv'
    <2>1. calls[c].actor \in Admins /\ calls[c].request \in Requests
      BY <1>5 DEF TypeInv, CallOK
    <2>2. requests' \in [Requests -> RequestRows]
      BY <1>5, <2>1, DecisionIsTyped DEF DecideAlone, TypeInv, Statuses
    <2>3. trail' \in Seq(Events)
      BY <1>5, <2>1, EventIsTyped DEF DecideAlone, TypeInv
    <2> QED
      BY <1>5, <2>2, <2>3, EndTypes DEF DecideAlone, TypeInv
  <1>6. ASSUME NEW c \in Calls, Reject(c)
        PROVE  TypeInv'
    <2>1. calls[c].actor \in Admins /\ calls[c].actor \in Actors
      BY <1>6 DEF Reject, At, TypeInv, CallOK, Actors
    <2> QED
      BY <1>5, <1>6, <2>1 DEF Reject, At
  <1>7. ASSUME NEW c \in Calls, Cancel(c)
        PROVE  TypeInv'
    BY <1>5, <1>7 DEF Cancel, At, Actors
  <1>8. ASSUME NEW c \in Calls, Claim(c)
        PROVE  TypeInv'
    <2>1. calls[c].actor \in Admins /\ calls[c].request \in Requests /\ record \in Rows
      BY <1>8 DEF Claim, At, TypeInv, CallOK
    <2>2. requests[calls[c].request].change \in Changes
      BY <1>8, <2>1 DEF Claim, Pending, TypeInv, RequestRows, Unused
    <2> QED
      BY <1>8, <2>1, <2>2, ReadTypeInv DEF Claim, CallOK
  <1>9. ASSUME NEW c \in Calls, LoseClaim(c)
        PROVE  TypeInv'
    BY <1>9, EndTypes DEF LoseClaim, TypeInv
  <1>10. ASSUME NEW c \in Calls, ReadExisting(c)
         PROVE  TypeInv'
    <2> DEFINE call == calls[c]
               ready == [phase |-> "ready", kind |-> call.kind, actor |-> call.actor,
                         request |-> IF call.kind = "APPROVE" THEN call.request ELSE None,
                         change |-> call.change, before |-> call.before, existing |-> record]
    <2>1. /\ call.kind \in {"CORRECT", "APPROVE"} /\ call.actor \in Admins
          /\ call.kind = "APPROVE" => call.request \in Requests
          /\ call.change \in Changes /\ call.before \in Rows /\ record \in Rows
      BY <1>10 DEF ReadExisting, At, TypeInv, CallOK
    <2>2. CallOK(ready)
      BY <2>1 DEF CallOK
    <2> QED
      BY <1>10, <2>2, ReadTypeInv DEF ReadExisting
  <1>11. ASSUME NEW c \in Calls, RollBack(c)
         PROVE  TypeInv'
    BY <1>11, EndTypes DEF RollBack, TypeInv
  <1>12. ASSUME NEW c \in Calls, CorrectDirectly(c)
         PROVE  TypeInv'
    <2>1. CorrectWith(c, <<>>) /\ calls[c].phase = "ready" /\ UNCHANGED requests
      BY <1>12 DEF CorrectDirectly, At
    <2>2. <<>> \in Seq(Events)
      OBVIOUS
    <2>3. record' \in Rows /\ trail' \in Seq(Events)
          /\ DOMAIN calls' = Calls /\ \A d \in Calls : CallOK(calls'[d])
      BY <2>1, <2>2, CorrectTypeInv
    <2> QED
      BY <2>1, <2>3 DEF TypeInv
  <1>13. ASSUME NEW c \in Calls, ApplyApproved(c)
         PROVE  TypeInv'
    <2> DEFINE call == calls[c]
    <2>1. /\ call.phase = "ready" /\ call.actor \in Admins /\ call.request \in Requests
      BY <1>13 DEF ApplyApproved, At, TypeInv, CallOK
    <2>2. <<Event("APPROVED", call.actor, call.request)>> \in Seq(Events)
      BY <2>1, EventIsTyped
    <2>3. record' \in Rows /\ trail' \in Seq(Events)
          /\ DOMAIN calls' = Calls /\ \A d \in Calls : CallOK(calls'[d])
      BY <1>13, <2>1, <2>2, CorrectTypeInv DEF ApplyApproved
    <2>4. Pending(call.request)
      BY <2>1 DEF ClaimsHold, Holds
    <2>5. requests' \in [Requests -> RequestRows]
      <3>1. "APPROVED" \in Statuses \ {"ABSENT"} /\ call.actor \in Actors
        BY <2>1 DEF Statuses, Actors
      <3> QED
        BY <1>13, <2>1, <2>4, <3>1, DecisionIsTyped DEF ApplyApproved, TypeInv
    <2> QED
      BY <2>3, <2>5 DEF TypeInv
  <1>14. ASSUME NEW actor \in Admins, Promote(actor)
         PROVE  TypeInv'
    <2>1. record' \in Rows
      BY <1>14, GrantedIsRow DEF Promote, TypeInv
    <2>2. trail' \in Seq(Events)
      BY <1>14, EventIsTyped DEF Promote, TypeInv
    <2> QED
      BY <1>14, <2>1, <2>2 DEF Promote, TypeInv
  <1>15. CASE UNCHANGED vars
    BY <1>15 DEF vars, TypeInv
  <1> QED
    BY <1>1, <1>2, <1>3, <1>4, <1>6, <1>7, <1>8, <1>9, <1>10, <1>11, <1>12, <1>13, <1>14, <1>15
    DEF Next, Serve

------------------------------------------------------------------------------
(* What the invariant says, across a step.                                  *)

\* TypeOK is what the types of the rows say.
LEMMA RowIsOK ==
  ASSUME AdminAssumption, NEW row \in RequestRows
  PROVE  /\ row.status \in Statuses
         /\ row.by \in Admins <=> row.status # "ABSENT"
         /\ row.reviewer \in Admins <=> row.status \in {"APPROVED", "REJECTED"}
  <1>1. CASE row = Unused
    BY <1>1 DEF Unused, Statuses, AdminAssumption
  <1>2. CASE row # Unused
    BY <1>2 DEF RequestRows
  <1> QED
    BY <1>1, <1>2

LEMMA TypesAreOK ==
  ASSUME AdminAssumption
  PROVE  (TypeInv => TypeOK) /\ (TypeInv' => TypeOK')
  BY RowIsOK DEF TypeOK, TypeInv

\* The events of a request, when the trail has one more or two more.
LEMMA EventsGrow ==
  ASSUME trail \in Seq(Events), NEW e \in Events, trail' = Append(trail, e),
         NEW r, NEW action
  PROVE  EventsOf(r, action)' =
           EventsOf(r, action)
           \cup (IF e.request = r /\ e.action = action THEN {Len(trail) + 1} ELSE {})
  <1>1. /\ DOMAIN trail' = DOMAIN trail \cup {Len(trail) + 1}
        /\ Len(trail) + 1 \notin DOMAIN trail
        /\ \A i \in DOMAIN trail : trail'[i] = trail[i]
        /\ trail'[Len(trail) + 1] = e
    BY OneMore
  <1> QED
    BY <1>1 DEF EventsOf

LEMMA TwoMore ==
  ASSUME trail \in Seq(Events), NEW e \in Events, NEW f \in Events,
         trail' = Append(trail \o <<e>>, f)
  PROVE  /\ DOMAIN trail' = DOMAIN trail \cup {Len(trail) + 1, Len(trail) + 2}
         /\ Len(trail) + 1 \notin DOMAIN trail /\ Len(trail) + 2 \notin DOMAIN trail
         /\ Len(trail) + 1 # Len(trail) + 2
         /\ \A i \in DOMAIN trail : i < Len(trail) + 2
         /\ Len(trail) + 1 < Len(trail) + 2
         /\ \A i \in DOMAIN trail : trail'[i] = trail[i]
         /\ trail'[Len(trail) + 1] = e /\ trail'[Len(trail) + 2] = f
  <1>1. Len(trail) \in Nat /\ DOMAIN trail = 1 .. Len(trail)
    OBVIOUS
  <1>2. trail \o <<e>> = Append(trail, e)
    OBVIOUS
  <1>3. Append(trail, e) \in Seq(Events) /\ Len(Append(trail, e)) = Len(trail) + 1
    OBVIOUS
  <1>4. /\ DOMAIN trail' = DOMAIN Append(trail, e) \cup {Len(trail) + 2}
        /\ \A i \in DOMAIN Append(trail, e) : trail'[i] = Append(trail, e)[i]
        /\ trail'[Len(trail) + 2] = f
    <2>1. Len(Append(trail, e)) + 1 = Len(trail) + 2
      BY <1>1, <1>3
    <2> QED
      BY <1>2, <1>3, <2>1, OneMore
  <1>5. /\ DOMAIN Append(trail, e) = DOMAIN trail \cup {Len(trail) + 1}
        /\ \A i \in DOMAIN trail : Append(trail, e)[i] = trail[i]
        /\ Append(trail, e)[Len(trail) + 1] = e
    BY OneMore
  <1> QED
    BY <1>1, <1>4, <1>5

\* What a call is allowed to do depends on who made a request, which never changes.
LEMMA MayStays ==
  ASSUME TypeInv, \A d \in Calls : CallMay(calls[d]),
         NEW c \in Calls, CallMay(calls[c])',
         DOMAIN calls' = Calls, \A d \in Calls : d # c => calls'[d] = calls[d],
         \A r \in Requests : requests[r].status # "ABSENT" =>
           requests'[r].status # "ABSENT" /\ requests'[r].by = requests[r].by
  PROVE  (\A d \in Calls : CallMay(calls[d]))'
  <1>1. ASSUME NEW d \in Calls, d # c
        PROVE  CallMay(calls[d])'
    <2>1. CallMay(calls[d]) /\ CallOK(calls[d]) /\ calls'[d] = calls[d]
      BY <1>1 DEF TypeInv
    <2> QED
      BY <2>1 DEF CallMay, CallOK, MayReview
  <1> QED
    BY <1>1

\* An ended call neither may nor holds anything.
LEMMA EndMayHolds ==
  ASSUME TypeInv, \A d \in Calls : CallMay(calls[d]), ClaimsHold, NEW c \in Calls, End(c),
         \A r \in Requests : requests[r].status # "ABSENT" =>
           requests'[r].status # "ABSENT" /\ requests'[r].by = requests[r].by,
         \A r \in Requests, d \in Calls : d # c /\ Holds(d, r) => Pending(r)'
  PROVE  (\A d \in Calls : CallMay(calls[d]))' /\ ClaimsHold'
  <1>1. /\ DOMAIN calls' = Calls /\ calls'[c] = Ended
        /\ \A d \in Calls : d # c => calls'[d] = calls[d]
    BY CallBecomes DEF End, TypeInv
  <1>2. CallMay(calls[c])'
    BY <1>1 DEF CallMay, Ended
  <1>3. \A r \in Requests : ~ Holds(c, r)'
    BY <1>1 DEF Holds, Ended
  <1>4. \A d \in Calls, r \in Requests : d # c => (Holds(d, r)' <=> Holds(d, r))
    BY <1>1 DEF Holds
  <1>5. ClaimsHold'
    BY <1>3, <1>4 DEF ClaimsHold
  <1> QED
    BY <1>1, <1>2, <1>5, MayStays

\* A call that only reads, and holds no request that another one does.
LEMMA QuietIInv ==
  ASSUME AdminAssumption, IInv, TypeInv', NEW c \in Calls,
         DOMAIN calls' = Calls, \A d \in Calls : d # c => calls'[d] = calls[d],
         CallMay(calls[c])',
         \A r \in Requests : Holds(c, r)' =>
           Pending(r) /\ \A d \in Calls : d # c => ~ Holds(d, r),
         UNCHANGED <<record, requests, trail>>
  PROVE  IInv'
  <1>1. TypeOK'
    BY TypesAreOK
  <1>2. (\A d \in Calls : CallMay(calls[d]))'
    BY MayStays DEF IInv
  <1>3. \A d \in Calls, r \in Requests : d # c => (Holds(d, r)' <=> Holds(d, r))
    BY DEF Holds
  <1>4. \A r \in Requests : Pending(r)' <=> Pending(r)
    BY DEF Pending
  <1>5. ClaimsHold'
    BY <1>3, <1>4 DEF ClaimsHold, IInv
  <1>6. TrailTells'
    BY DEF TrailTells, IInv
  <1>7. ApprovedIsApplied' /\ LedgerIsLastAudited'
    BY DEF ApprovedIsApplied, LedgerIsLastAudited, EventsOf, Corrections_, Promotions, IInv
  <1> QED
    BY <1>1, <1>2, <1>5, <1>6, <1>7 DEF IInv

------------------------------------------------------------------------------
(* The trail.                                                               *)

\* An event which is neither a correction nor a promotion moves neither the ledger nor
\* what the trail says it is.
LEMMA NoCorrection ==
  ASSUME TypeInv, LedgerIsLastAudited, NEW e \in Events, trail' = Append(trail, e),
         e.action \notin {"HISTORICAL_RECORD_CORRECTED", "RESERVE_PROMOTED"}, UNCHANGED record
  PROVE  LedgerIsLastAudited'
  <1>1. /\ DOMAIN trail' = DOMAIN trail \cup {Len(trail) + 1}
        /\ \A i \in DOMAIN trail : trail'[i] = trail[i]
        /\ trail'[Len(trail) + 1] = e
    BY OneMore DEF TypeInv
  <1>2. Corrections_' = Corrections_ /\ Corrections_ \subseteq DOMAIN trail
    BY <1>1 DEF Corrections_
  <1>3. Promotions' = Promotions
    BY <1>1 DEF Promotions
  <1> QED
    BY <1>1, <1>2, <1>3 DEF LedgerIsLastAudited

\* A promotion is the last of the trail, and grants what the last correction left.
LEMMA LastPromotion ==
  ASSUME TypeInv, LedgerIsLastAudited, NEW e \in Events, trail' = Append(trail, e),
         e.action = "RESERVE_PROMOTED", record' = Granted(record)
  PROVE  LedgerIsLastAudited'
  <1> DEFINE n == Len(trail) + 1
  <1>1. /\ DOMAIN trail' = DOMAIN trail \cup {n}
        /\ \A i \in DOMAIN trail : trail'[i] = trail[i]
        /\ trail'[n] = e
    BY OneMore DEF TypeInv
  <1>2. \A i \in DOMAIN trail : i < n
    BY DEF TypeInv
  <1>3. Corrections_' = Corrections_ /\ Corrections_ \subseteq DOMAIN trail
    BY <1>1 DEF Corrections_
  <1>4. n \in Promotions'
    BY <1>1 DEF Promotions
  <1>5. record \in Rows
    BY DEF TypeInv
  <1>6. ASSUME NEW i \in Corrections_', \A j \in Corrections_' : j <= i
        PROVE  /\ \E j \in Promotions' : i < j
               /\ record' = Granted(trail'[i].after)
    <2>1. i \in DOMAIN trail /\ trail[i].action = "HISTORICAL_RECORD_CORRECTED"
      BY <1>3 DEF Corrections_
    <2>2. trail[i] \in Events
      BY <2>1 DEF TypeInv
    <2>3. trail[i].after \in Rows /\ trail'[i] = trail[i]
      BY <1>1, <2>1, <2>2 DEF Events
    <2>4. record = trail[i].after \/ record = Granted(trail[i].after)
      BY <1>3, <1>6 DEF LedgerIsLastAudited
    <2>5. record' = Granted(trail'[i].after)
      BY <2>3, <2>4, GrantedIsRow
    <2> QED
      BY <1>2, <1>4, <2>1, <2>5
  <1>7. record'["won"]
    BY <1>5, GrantedIsRow
  <1> QED
    BY <1>6, <1>7 DEF LedgerIsLastAudited

\* A correction is the last of the trail, and tells what the row became.
LEMMA LastCorrection ==
  ASSUME NEW n \in DOMAIN trail', \A i \in DOMAIN trail' : i \in Nat /\ i <= n,
         trail'[n].action = "HISTORICAL_RECORD_CORRECTED", trail'[n].after = record'
  PROVE  LedgerIsLastAudited'
  <1>1. n \in Corrections_'
    BY DEF Corrections_
  <1>2. ASSUME NEW i \in Corrections_', \A j \in Corrections_' : j <= i
        PROVE  i = n
    <2>1. i \in DOMAIN trail' /\ n <= i
      BY <1>1, <1>2 DEF Corrections_
    <2> QED
      BY <2>1
  <1>3. ASSUME NEW j \in Promotions'
        PROVE  ~ n < j
    BY DEF Promotions
  <1> QED
    BY <1>1, <1>2, <1>3 DEF LedgerIsLastAudited

------------------------------------------------------------------------------
(* The steps.                                                               *)

LEMMA InitIInv == AdminAssumption /\ Init => IInv
  <1> SUFFICES ASSUME AdminAssumption, Init
               PROVE  IInv
    OBVIOUS
  <1>1. TypeInv
    BY InitTypeInv
  <1>2. TypeOK
    BY <1>1, TypesAreOK
  <1>3. \A c \in Calls : calls[c] = Waiting
    BY DEF Init
  <1>4. (\A c \in Calls : CallMay(calls[c])) /\ ClaimsHold
    BY <1>3 DEF CallMay, ClaimsHold, Holds, Waiting
  <1>5. DOMAIN trail = {}
    BY DEF Init
  <1>6. TrailTells /\ LedgerIsLastAudited
    BY <1>5 DEF TrailTells, LedgerIsLastAudited, Corrections_, Promotions
  <1>7. ApprovedIsApplied
    BY <1>5 DEF ApprovedIsApplied, EventsOf, Init, Unused
  <1> QED
    BY <1>1, <1>2, <1>4, <1>6, <1>7 DEF IInv

\* Asking: the request's first event, and nobody holds it.
LEMMA RequestIInv ==
  ASSUME AdminAssumption, IInv, TypeInv', NEW c \in Calls, NEW r \in Requests, Request(c, r)
  PROVE  IInv'
  <1> DEFINE call == calls[c]
             e == Event("APPROVAL_CREATED", call.actor, r)
  <1>1. call.actor \in Admins
    BY DEF Request, At, IInv, TypeInv, CallOK
  <1>2. e \in Events /\ trail \in Seq(Events) /\ trail' = Append(trail, e)
    BY <1>1, EventIsTyped DEF Request, IInv, TypeInv
  <1>3. e.action = "APPROVAL_CREATED" /\ e.actor = call.actor /\ e.request = r /\ r # None
    BY DEF Event, AdminAssumption
  <1>4. /\ requests[r].status = "ABSENT"
        /\ requests'[r].status = "PENDING" /\ requests'[r].by = call.actor
        /\ \A q \in Requests : q # r => requests'[q] = requests[q]
        /\ End(c) /\ UNCHANGED record
    BY DEF Request, Unused, IInv, TypeInv
  <1>5. TypeOK'
    BY TypesAreOK
  <1>6. \A d \in Calls, q \in Requests : Holds(d, q) => Pending(q) /\ q # r
    BY <1>4 DEF IInv, ClaimsHold, Pending
  <1>7. (\A d \in Calls : CallMay(calls[d]))' /\ ClaimsHold'
    <2>1. \A q \in Requests : requests[q].status # "ABSENT" =>
            requests'[q].status # "ABSENT" /\ requests'[q].by = requests[q].by
      BY <1>4
    <2>2. \A q \in Requests, d \in Calls : d # c /\ Holds(d, q) => Pending(q)'
      BY <1>4, <1>6 DEF Pending
    <2> QED
      BY <1>4, <2>1, <2>2, EndMayHolds DEF IInv
  <1>8. TrailTells'
    <2>1. /\ DOMAIN trail' = DOMAIN trail \cup {Len(trail) + 1}
          /\ \A i \in DOMAIN trail : trail'[i] = trail[i]
          /\ trail'[Len(trail) + 1] = e
      BY <1>2, OneMore
    <2>2. \A i \in DOMAIN trail : trail[i].request \in Requests \cup {None}
      BY <1>2 DEF Events
    <2>3. ASSUME NEW i \in DOMAIN trail
          PROVE  /\ trail[i].request # None =>
                      requests'[trail[i].request] = requests[trail[i].request]
                 /\ trail[i].request # r
      BY <1>3, <1>4, <2>2 DEF IInv, TrailTells
    <2> QED
      BY <1>3, <1>4, <2>1, <2>3 DEF IInv, TrailTells
  <1>9. ApprovedIsApplied'
    <2>1. \A q, action : EventsOf(q, action)' =
            EventsOf(q, action) \cup (IF r = q /\ action = "APPROVAL_CREATED"
                                      THEN {Len(trail) + 1} ELSE {})
      BY <1>2, <1>3, EventsGrow
    <2>2. \A q \in Requests, action \in {"APPROVED", "REJECTED", "CANCELLED",
                                          "HISTORICAL_RECORD_CORRECTED"} :
            EventsOf(q, action)' = EventsOf(q, action)
      BY <2>1
    <2>3. ASSUME NEW action
          PROVE  EventsOf(r, action) = {}
      BY <1>3, <1>4 DEF IInv, TrailTells, EventsOf
    <2>4. DOMAIN trail \subseteq DOMAIN trail'
      BY <1>2, OneMore
    <2> QED
      BY <1>4, <2>2, <2>3, <2>4 DEF IInv, ApprovedIsApplied
  <1>10. LedgerIsLastAudited'
    BY <1>2, <1>3, <1>4, NoCorrection DEF IInv
  <1> QED
    BY <1>5, <1>7, <1>8, <1>9, <1>10 DEF IInv

\* A refusal or a withdrawal: the request's first decision, and its only one.
LEMMA DecideIInv ==
  ASSUME AdminAssumption, IInv, TypeInv', NEW c \in Calls,
         NEW decision \in {"REJECTED", "CANCELLED"}, NEW reviewer,
         calls[c].phase = "read", calls[c].kind \in {"REJECT", "CANCEL"},
         DecideAlone(c, decision, reviewer)
  PROVE  IInv'
  <1>0. PICK r \in Requests : r = calls[c].request
    BY DEF IInv, TypeInv, CallOK
  <1> DEFINE call == calls[c]
             e == Event(decision, call.actor, r)
  <1>1. call.actor \in Admins /\ r = call.request /\ r # None
    BY <1>0 DEF IInv, TypeInv, CallOK, AdminAssumption
  <1>2. e \in Events /\ trail \in Seq(Events) /\ trail' = Append(trail, e)
    BY <1>1, EventIsTyped DEF DecideAlone, IInv, TypeInv
  <1>3. e.action = decision /\ e.request = r
    BY DEF Event
  <1>4. /\ requests[r].status = "PENDING"
        /\ requests'[r].status = decision /\ requests'[r].by = requests[r].by
        /\ \A q \in Requests : q # r => requests'[q] = requests[q]
        /\ End(c) /\ UNCHANGED record
    <2>1. requests[r] \in RequestRows \ {Unused}
      BY <1>1 DEF DecideAlone, Pending, IInv, TypeInv, Unused
    <2> QED
      BY <1>1, <2>1 DEF DecideAlone, Pending, IInv, TypeInv, RequestRows
  <1>5. TypeOK'
    BY TypesAreOK
  <1>6. \A q \in Requests, d \in Calls : d # c /\ Holds(d, q) => Pending(q) /\ q # r
    BY <1>1 DEF IInv, ClaimsHold, DecideAlone, Locked, Holds
  <1>7. \A q \in Requests : requests[q].status # "ABSENT" =>
          requests'[q].status # "ABSENT" /\ requests'[q].by = requests[q].by
    BY <1>4
  <1>8. (\A d \in Calls : CallMay(calls[d]))' /\ ClaimsHold'
    <2>1. \A q \in Requests, d \in Calls : d # c /\ Holds(d, q) => Pending(q)'
      BY <1>4, <1>6 DEF Pending
    <2> QED
      BY <1>4, <1>7, <2>1, EndMayHolds DEF IInv
  <1>9. TrailTells'
    <2>1. /\ DOMAIN trail' = DOMAIN trail \cup {Len(trail) + 1}
          /\ \A i \in DOMAIN trail : trail'[i] = trail[i]
          /\ trail'[Len(trail) + 1] = e
      BY <1>2, OneMore
    <2>2. \A i \in DOMAIN trail : trail[i].request \in Requests \cup {None}
      BY <1>2 DEF Events
    <2>3. ASSUME NEW i \in DOMAIN trail, trail[i].request # None
          PROVE  /\ requests'[trail[i].request].status # "ABSENT"
                 /\ requests'[trail[i].request].by = requests[trail[i].request].by
      BY <1>7, <2>2, <2>3 DEF IInv, TrailTells
    <2> QED
      BY <1>3, <1>4, <2>1, <2>3 DEF IInv, TrailTells
  <1>10. ApprovedIsApplied'
    <2>1. \A q, action : EventsOf(q, action)' =
            EventsOf(q, action) \cup (IF r = q /\ action = decision
                                      THEN {Len(trail) + 1} ELSE {})
      BY <1>2, <1>3, EventsGrow
    <2>2. \A q \in Requests : q # r => \A action : EventsOf(q, action)' = EventsOf(q, action)
      BY <2>1
    <2>3. EventsOf(r, "HISTORICAL_RECORD_CORRECTED")' = {}
      BY <1>1, <1>4, <2>1 DEF IInv, ApprovedIsApplied
    <2>4. DOMAIN trail \subseteq DOMAIN trail'
      BY <1>2, OneMore
    <2> QED
      BY <1>4, <2>2, <2>3, <2>4 DEF IInv, ApprovedIsApplied
  <1>11. LedgerIsLastAudited'
    BY <1>2, <1>3, <1>4, NoCorrection DEF IInv
  <1> QED
    BY <1>5, <1>8, <1>9, <1>10, <1>11 DEF IInv

\* A national administrator's own correction: an event of no request.
LEMMA CorrectDirectlyIInv ==
  ASSUME AdminAssumption, IInv, TypeInv', NEW c \in Calls, CorrectDirectly(c)
  PROVE  IInv'
  <1> DEFINE call == calls[c]
             e == Correction(call.actor, call.request, call.before, record')
  <1>1. /\ call.phase = "ready" /\ call.kind = "CORRECT" /\ call.request = None
        /\ call.actor \in Nationals
        /\ CorrectWith(c, <<>>) /\ End(c) /\ UNCHANGED requests
    BY DEF CorrectDirectly, CorrectWith, At, IInv, TypeInv, CallOK, CallMay
  <1>2. /\ e \in Events /\ trail \in Seq(Events)
        /\ trail' = Append(trail, e)
    <2>1. <<>> \in Seq(Events) /\ trail \in Seq(Events)
      BY DEF IInv, TypeInv
    <2>2. e \in Events /\ trail' = Append(trail \o <<>>, e)
      BY <1>1, <2>1, CorrectTypeInv DEF IInv
    <2>3. trail \o <<>> = trail
      BY <2>1
    <2> QED
      BY <2>1, <2>2, <2>3
  <1>3. /\ e.action = "HISTORICAL_RECORD_CORRECTED" /\ e.request = None
        /\ e.actor \in Nationals /\ e.after = record'
    BY <1>1 DEF Correction
  <1>4. /\ DOMAIN trail' = DOMAIN trail \cup {Len(trail) + 1}
        /\ \A i \in DOMAIN trail : trail'[i] = trail[i]
        /\ trail'[Len(trail) + 1] = e
    BY <1>2, OneMore
  <1>5. TypeOK'
    BY TypesAreOK
  <1>6. (\A d \in Calls : CallMay(calls[d]))' /\ ClaimsHold'
    BY <1>1, EndMayHolds DEF IInv, ClaimsHold, Pending
  <1>7. TrailTells'
    BY <1>1, <1>3, <1>4 DEF IInv, TrailTells
  <1>8. ApprovedIsApplied'
    <2>1. \A r \in Requests : r # None
      BY DEF AdminAssumption
    <2>2. \A r, action : EventsOf(r, action)' =
            EventsOf(r, action) \cup (IF e.request = r /\ e.action = action
                                      THEN {Len(trail) + 1} ELSE {})
      BY <1>2, EventsGrow
    <2>3. \A r \in Requests : \A action : EventsOf(r, action)' = EventsOf(r, action)
      BY <1>3, <2>1, <2>2
    <2> QED
      BY <1>1, <1>4, <2>3 DEF IInv, ApprovedIsApplied
  <1>9. LedgerIsLastAudited'
    <2>1. /\ Len(trail) + 1 \in DOMAIN trail'
          /\ \A i \in DOMAIN trail' : i \in Nat /\ i <= Len(trail) + 1
      BY <1>2
    <2> QED
      BY <1>3, <1>4, <2>1, LastCorrection
  <1> QED
    BY <1>5, <1>6, <1>7, <1>8, <1>9 DEF IInv

\* An approval: the decision and, right after it, what it decided.
LEMMA ApplyApprovedIInv ==
  ASSUME AdminAssumption, IInv, TypeInv', NEW c \in Calls, ApplyApproved(c)
  PROVE  IInv'
  <1>0. PICK r \in Requests : r = calls[c].request
    BY DEF ApplyApproved, At, IInv, TypeInv, CallOK
  <1> DEFINE call == calls[c]
             d1 == Event("APPROVED", call.actor, r)
             e == Correction(call.actor, r, call.before, record')
             n == Len(trail)
  <1>1. /\ call.phase = "ready" /\ call.kind = "APPROVE" /\ call.actor \in Admins
        /\ r = call.request /\ r # None
        /\ MayReview(call.actor, r) /\ Pending(r)
        /\ CorrectWith(c, <<d1>>) /\ End(c)
    BY <1>0 DEF ApplyApproved, CorrectWith, At, IInv, TypeInv, CallOK, CallMay, ClaimsHold, Holds,
                AdminAssumption
  <1>2. d1 \in Events /\ e \in Events /\ trail \in Seq(Events) /\ trail' = Append(trail \o <<d1>>, e)
    <2>1. d1 \in Events /\ trail \in Seq(Events)
      BY <1>1, EventIsTyped DEF IInv, TypeInv
    <2>2. <<d1>> \in Seq(Events)
      BY <2>1
    <2> QED
      BY <1>1, <2>1, <2>2, CorrectTypeInv DEF IInv
  <1>3. /\ d1.action = "APPROVED" /\ d1.request = r
        /\ e.action = "HISTORICAL_RECORD_CORRECTED" /\ e.request = r
        /\ e.actor = call.actor /\ e.after = record'
    BY DEF Event, Correction
  <1>4. /\ DOMAIN trail' = DOMAIN trail \cup {n + 1, n + 2}
        /\ n + 1 \notin DOMAIN trail /\ n + 2 \notin DOMAIN trail /\ n + 1 # n + 2
        /\ \A i \in DOMAIN trail : trail'[i] = trail[i]
        /\ trail'[n + 1] = d1 /\ trail'[n + 2] = e
    BY <1>2, TwoMore
  <1>5. n \in Nat /\ (n + 1) + 1 = n + 2
    BY <1>2
  <1>6. /\ requests[r].status = "PENDING"
        /\ requests'[r].status = "APPROVED" /\ requests'[r].by = requests[r].by
        /\ \A q \in Requests : q # r => requests'[q] = requests[q]
    <2>1. requests[r] \in RequestRows \ {Unused}
      BY <1>1 DEF Pending, IInv, TypeInv, Unused
    <2> QED
      BY <1>1, <2>1 DEF ApplyApproved, Pending, IInv, TypeInv, RequestRows
  <1>7. TypeOK'
    BY TypesAreOK
  <1>8. \A q \in Requests : requests[q].status # "ABSENT" =>
          requests'[q].status # "ABSENT" /\ requests'[q].by = requests[q].by
    BY <1>6
  <1>9. (\A d \in Calls : CallMay(calls[d]))' /\ ClaimsHold'
    <2>1. Holds(c, r)
      BY <1>1 DEF Holds
    <2>2. \A q \in Requests, d \in Calls : d # c /\ Holds(d, q) => Pending(q) /\ q # r
      BY <2>1 DEF IInv, ClaimsHold
    <2>3. \A q \in Requests, d \in Calls : d # c /\ Holds(d, q) => Pending(q)'
      BY <1>6, <2>2 DEF Pending
    <2> QED
      BY <1>1, <1>8, <2>3, EndMayHolds DEF IInv
  <1>10. TrailTells'
    <2>1. \A i \in DOMAIN trail : trail[i].request \in Requests \cup {None}
      BY <1>2 DEF Events
    <2>2. ASSUME NEW i \in DOMAIN trail, trail[i].request # None
          PROVE  /\ requests'[trail[i].request].status # "ABSENT"
                 /\ requests'[trail[i].request].by = requests[trail[i].request].by
      BY <1>8, <2>1, <2>2 DEF IInv, TrailTells
    <2>3. e.actor \in Nationals /\ e.actor # requests[r].by
      BY <1>1, <1>3 DEF MayReview
    <2> QED
      BY <1>3, <1>4, <1>6, <2>2, <2>3 DEF IInv, TrailTells
  <1>11. ApprovedIsApplied'
    <2>1. ASSUME NEW q \in Requests, NEW action
          PROVE  EventsOf(q, action)' =
                   EventsOf(q, action)
                   \cup (IF q = r /\ action = "APPROVED" THEN {n + 1} ELSE {})
                   \cup (IF q = r /\ action = "HISTORICAL_RECORD_CORRECTED" THEN {n + 2} ELSE {})
      BY <1>3, <1>4 DEF EventsOf
    <2>2. ASSUME NEW q \in Requests, q # r, NEW action
          PROVE  EventsOf(q, action)' = EventsOf(q, action)
      BY <1>3, <1>4, <2>2 DEF EventsOf
    <2>3. /\ EventsOf(r, "APPROVED") = {} /\ EventsOf(r, "REJECTED") = {}
          /\ EventsOf(r, "CANCELLED") = {} /\ EventsOf(r, "HISTORICAL_RECORD_CORRECTED") = {}
      BY <1>6 DEF IInv, ApprovedIsApplied
    <2>4. /\ EventsOf(r, "APPROVED")' = {n + 1} /\ EventsOf(r, "REJECTED")' = {}
          /\ EventsOf(r, "CANCELLED")' = {}
          /\ EventsOf(r, "HISTORICAL_RECORD_CORRECTED")' = {n + 2}
      BY <2>1, <2>3
    <2>5. n + 1 \in DOMAIN trail' /\ DOMAIN trail \subseteq DOMAIN trail'
      BY <1>4
    <2> QED
      BY <1>5, <1>6, <2>2, <2>4, <2>5 DEF IInv, ApprovedIsApplied
  <1>12. LedgerIsLastAudited'
    <2>1. /\ n + 2 \in DOMAIN trail'
          /\ \A i \in DOMAIN trail' : i \in Nat /\ i <= n + 2
      BY <1>2, <1>4, <1>5
    <2> QED
      BY <1>3, <1>4, <2>1, LastCorrection
  <1> QED
    BY <1>7, <1>9, <1>10, <1>11, <1>12 DEF IInv

\* A promotion is an event of no request, and touches no call.
LEMMA PromoteIInv ==
  ASSUME AdminAssumption, IInv, TypeInv', NEW actor \in Admins, Promote(actor)
  PROVE  IInv'
  <1> DEFINE e == Event("RESERVE_PROMOTED", actor, None)
  <1>1. /\ e \in Events /\ trail \in Seq(Events) /\ trail' = Append(trail, e)
        /\ record' = Granted(record) /\ UNCHANGED <<requests, calls>>
    BY EventIsTyped DEF Promote, IInv, TypeInv
  <1>2. e.action = "RESERVE_PROMOTED" /\ e.request = None
    BY DEF Event
  <1>3. /\ DOMAIN trail' = DOMAIN trail \cup {Len(trail) + 1}
        /\ \A i \in DOMAIN trail : trail'[i] = trail[i]
        /\ trail'[Len(trail) + 1] = e
    BY <1>1, OneMore
  <1>4. TypeOK'
    BY TypesAreOK
  <1>5. (\A c \in Calls : CallMay(calls[c]))' /\ ClaimsHold'
    BY <1>1 DEF IInv, CallMay, MayReview, ClaimsHold, Holds, Pending
  <1>6. TrailTells'
    BY <1>1, <1>2, <1>3 DEF IInv, TrailTells
  <1>7. ApprovedIsApplied'
    <2>1. \A r \in Requests : r # None
      BY DEF AdminAssumption
    <2>2. \A r, action : EventsOf(r, action)' =
            EventsOf(r, action) \cup (IF e.request = r /\ e.action = action
                                      THEN {Len(trail) + 1} ELSE {})
      BY <1>1, EventsGrow
    <2>3. \A r \in Requests : \A action : EventsOf(r, action)' = EventsOf(r, action)
      BY <1>2, <2>1, <2>2
    <2> QED
      BY <1>1, <1>3, <2>3 DEF IInv, ApprovedIsApplied
  <1>8. LedgerIsLastAudited'
    BY <1>1, <1>2, LastPromotion DEF IInv
  <1> QED
    BY <1>4, <1>5, <1>6, <1>7, <1>8 DEF IInv

\* Every step keeps the invariant.
LEMMA StepIInv ==
  ASSUME AdminAssumption, IInv, [Next]_vars
  PROVE  IInv'
  <1>0. TypeInv'
    BY StepTypeInv DEF IInv
  <1> USE <1>0
  <1>1. ASSUME NEW c \in Calls, NEW kind \in {"REQUEST", "CORRECT"}, NEW actor \in Admins,
               NEW change \in Asked, ReadRecord(c, kind, actor, change)
        PROVE  IInv'
    <2>1. /\ DOMAIN calls' = Calls /\ \A d \in Calls : d # c => calls'[d] = calls[d]
          /\ calls'[c].phase = "read" /\ calls'[c].kind = kind /\ calls'[c].actor = actor
          /\ kind = "CORRECT" => actor \in Nationals
          /\ UNCHANGED <<record, requests, trail>>
      BY <1>1, CallBecomes DEF ReadRecord, IInv, TypeInv
    <2>2. CallMay(calls[c])' /\ \A r \in Requests : ~ Holds(c, r)'
      BY <2>1 DEF CallMay, Holds
    <2> QED
      BY <2>1, <2>2, QuietIInv
  <1>2. ASSUME NEW c \in Calls, NEW kind \in {"APPROVE", "REJECT", "CANCEL"},
               NEW actor \in Admins, NEW r \in Requests, ReadRequest(c, kind, actor, r)
        PROVE  IInv'
    <2>1. /\ DOMAIN calls' = Calls /\ \A d \in Calls : d # c => calls'[d] = calls[d]
          /\ calls'[c].phase = "read" /\ calls'[c].kind = kind /\ calls'[c].actor = actor
          /\ calls'[c].request = r
          /\ requests[r].status = "PENDING" /\ kind # "CANCEL" => MayReview(actor, r)
          /\ UNCHANGED <<record, requests, trail>>
      BY <1>2, CallBecomes DEF ReadRequest, Pending, IInv, TypeInv
    <2>2. CallMay(calls[c])' /\ \A q \in Requests : ~ Holds(c, q)'
      BY <1>2, <2>1 DEF CallMay, Holds, MayReview, ReadRequest, Pending
    <2> QED
      BY <2>1, <2>2, QuietIInv
  <1>3. ASSUME NEW c \in Calls, End(c), UNCHANGED <<record, requests, trail>>
        PROVE  IInv'
    <2>1. /\ DOMAIN calls' = Calls /\ \A d \in Calls : d # c => calls'[d] = calls[d]
          /\ calls'[c] = Ended
      BY <1>3, CallBecomes DEF End, IInv, TypeInv
    <2>2. CallMay(calls[c])' /\ \A r \in Requests : ~ Holds(c, r)'
      BY <2>1 DEF CallMay, Holds, Ended
    <2> QED
      BY <1>3, <2>1, <2>2, QuietIInv
  <1>4. ASSUME NEW c \in Calls, Reject(c)
        PROVE  IInv'
    <2>1. calls[c].phase = "read" /\ calls[c].kind = "REJECT"
      BY <1>4 DEF Reject, At
    <2> QED
      BY <1>4, <2>1, DecideIInv DEF Reject
  <1>5. ASSUME NEW c \in Calls, Cancel(c)
        PROVE  IInv'
    <2>1. calls[c].phase = "read" /\ calls[c].kind = "CANCEL"
      BY <1>5 DEF Cancel, At
    <2> QED
      BY <1>5, <2>1, DecideIInv DEF Cancel
  <1>6. ASSUME NEW c \in Calls, Claim(c)
        PROVE  IInv'
    <2>1. /\ DOMAIN calls' = Calls /\ \A d \in Calls : d # c => calls'[d] = calls[d]
          /\ calls'[c].phase = "claimed" /\ calls'[c].kind = "APPROVE"
          /\ calls'[c].actor = calls[c].actor /\ calls'[c].request = calls[c].request
          /\ Pending(calls[c].request) /\ ~ Locked(calls[c].request)
          /\ calls[c].phase = "read" /\ calls[c].kind = "APPROVE"
          /\ UNCHANGED <<record, requests, trail>>
      BY <1>6, CallBecomes DEF Claim, At, IInv, TypeInv
    <2>2. requests[calls[c].request].status # "ABSENT" /\ MayReview(calls[c].actor, calls[c].request)
      BY <2>1 DEF IInv, CallMay
    <2>3. CallMay(calls[c])'
      BY <2>1, <2>2 DEF CallMay, MayReview
    <2>4. \A r \in Requests : Holds(c, r)' =>
            Pending(r) /\ \A d \in Calls : d # c => ~ Holds(d, r)
      BY <2>1 DEF Holds, Locked
    <2> QED
      BY <2>1, <2>3, <2>4, QuietIInv
  <1>7. ASSUME NEW c \in Calls, ReadExisting(c)
        PROVE  IInv'
    <2>1. /\ DOMAIN calls' = Calls /\ \A d \in Calls : d # c => calls'[d] = calls[d]
          /\ calls'[c].phase = "ready" /\ calls'[c].kind = calls[c].kind
          /\ calls'[c].actor = calls[c].actor
          /\ calls'[c].request = IF calls[c].kind = "APPROVE" THEN calls[c].request ELSE None
          /\ \/ calls[c].kind = "CORRECT" /\ calls[c].phase = "read"
             \/ calls[c].kind = "APPROVE" /\ calls[c].phase = "claimed"
          /\ UNCHANGED <<record, requests, trail>>
      BY <1>7, CallBecomes DEF ReadExisting, At, IInv, TypeInv
    <2>2. CallMay(calls[c])'
      BY <2>1 DEF CallMay, MayReview, IInv
    <2>3. \A r \in Requests : Holds(c, r)' => Holds(c, r)
      BY <2>1 DEF Holds, AdminAssumption
    <2>4. \A r \in Requests : Holds(c, r)' =>
            Pending(r) /\ \A d \in Calls : d # c => ~ Holds(d, r)
      BY <2>3 DEF IInv, ClaimsHold
    <2> QED
      BY <2>1, <2>2, <2>4, QuietIInv
  <1>8. CASE UNCHANGED vars
    <2>1. TypeOK'
      BY TypesAreOK
    <2>2. (\A c \in Calls : CallMay(calls[c]))' /\ ClaimsHold'
      BY <1>8 DEF vars, IInv, CallMay, MayReview, ClaimsHold, Holds, Pending
    <2>3. TrailTells' /\ ApprovedIsApplied' /\ LedgerIsLastAudited'
      BY <1>8 DEF vars, IInv, TrailTells, ApprovedIsApplied, LedgerIsLastAudited, EventsOf,
                  Corrections_, Promotions
    <2> QED
      BY <2>1, <2>2, <2>3 DEF IInv
  <1>9. ASSUME NEW c \in Calls, RefuseRequest(c) \/ LoseClaim(c) \/ RollBack(c)
        PROVE  IInv'
    BY <1>3, <1>9 DEF RefuseRequest, LoseClaim, RollBack
  <1>10. ASSUME NEW c \in Calls, NEW r \in Requests, Request(c, r)
         PROVE  IInv'
    BY <1>10, RequestIInv
  <1>11. ASSUME NEW c \in Calls, CorrectDirectly(c) \/ ApplyApproved(c)
         PROVE  IInv'
    BY <1>11, CorrectDirectlyIInv, ApplyApprovedIInv
  <1>12. ASSUME NEW actor \in Admins, Promote(actor)
         PROVE  IInv'
    BY <1>12, PromoteIInv
  <1> QED
    BY <1>1, <1>2, <1>4, <1>5, <1>6, <1>7, <1>8, <1>9, <1>10, <1>11, <1>12 DEF Next, Serve

------------------------------------------------------------------------------
(* The theorems.                                                            *)

\* The inductive invariant holds in every reachable state.
LEMMA SpecIInv == Spec => []IInv
  <1>1. Init => IInv
    BY InitIInv, AdminAssumption
  <1>2. IInv /\ [Next]_vars => IInv'
    BY StepIInv, AdminAssumption
  <1> QED
    BY <1>1, <1>2, PTL DEF Spec

\* No correction of the trail was decided by the administrator who asked for it, and only
\* national ones ever decide (assertCanReview, correctParticipationHistory).
THEOREM TwoAdministrators == Spec => []FourEyes
  <1>1. ASSUME IInv
        PROVE  FourEyes
    <2>1. \A i \in DOMAIN trail : trail[i].request \in Requests \cup {None}
      BY <1>1 DEF IInv, TypeInv, Events
    <2> QED
      BY <1>1, <2>1 DEF FourEyes, Corrections_, IInv, TrailTells
  <1> QED
    BY <1>1, SpecIInv, PTL

\* However the calls of any number of administrators interleave, a request is decided at
\* most once, is approved exactly when the correction it asked for was made, by the same
\* transaction, and has a reviewer exactly when somebody else reviewed it
\* (ApprovalService.approve and claim).
THEOREM ApprovalIsApplication == Spec => []ApprovedByTwo
  <1>1. IInv /\ FourEyes => ApprovedByTwo
    BY DEF IInv, ApprovedByTwo
  <1> QED
    BY <1>1, SpecIInv, TwoAdministrators, PTL

\* Whatever the corrections read before they wrote, and whenever the person's reserve is
\* promoted, the trail accounts for the row: it is what the last correction says it became,
\* granted its win if the promotion came later, and a granted win goes only by a correction
\* that says so (ParticipationHistoryService.correctWithAudit, ReserveService.promoteReserve).
THEOREM TrailAgreesWithLedger == Spec => []LedgerIsLastAudited
  <1>1. IInv => LedgerIsLastAudited
    BY DEF IInv
  <1> QED
    BY <1>1, SpecIInv, PTL

------------------------------------------------------------------------------
(* Settlement: one story of the year for everybody.                         *)

\* The rows of the ledger, and who won by now, by the draw or by a replacement.
LedgerRows == [won : BOOLEAN, source : {"NONE", "APPLICATION", "IMPORT", "ADMIN_CORRECTION"}]

Won == result.winners \cup promotions

Tables ==
  /\ status \in {"LOCKED", "COMPLETED"}
  /\ archive \in [Settlement!People -> {"NONE", "DRAW", "RESERVE_REPLACEMENT"}]
  /\ outcome \in [Settlement!Entries -> {"ELIGIBLE", "SELECTED", "RESERVE", "NOT_SELECTED"}]
  /\ ledger \in [Settlement!People -> LedgerRows]

\* Before the draw nobody has won, lost or given up anything.
NothingYet == result = None /\ promotions = {} /\ abandonments = {}

\* After it the result fills its allocation twice, and every table speaks of the same
\* winners; only a correction makes the ledger say something else.
Told ==
  /\ result \in Settlement!Results
  /\ result.winners \cap result.reserves = {}
  /\ Settlement!Pilgrims(result.winners) = Allocated
  /\ Settlement!Pilgrims(result.reserves) = Allocated
  /\ promotions \subseteq result.reserves /\ abandonments \subseteq result.winners
  /\ Settlement!PeopleOf(Won) \subseteq excluded
  /\ \A e \in Settlement!Entries : outcome[e] = "SELECTED" <=> e \in Won
  /\ \A p \in Settlement!People :
       /\ archive[p] # "NONE" <=> p \in Settlement!PeopleOf(Won)
       /\ ledger[p].source \in {"APPLICATION", "ADMIN_CORRECTION"}
       /\ ledger[p].source = "APPLICATION" => ledger[p].won = (p \in Settlement!PeopleOf(Won))

SettlementIInv ==
  /\ Tables
  /\ status = "LOCKED" => NothingYet
  /\ status = "COMPLETED" => Told

------------------------------------------------------------------------------
\* The assumption on the pool, with the operators these proofs count with.
LEMMA ThePool ==
  /\ IsFiniteSet(Settlement!Entries)
  /\ None \notin Settlement!Results
  /\ \A e \in Settlement!Entries : IsFiniteSet(Travellers[e]) /\ Cardinality(Travellers[e]) \in {1, 2}
  /\ \A e, f \in Settlement!Entries : e # f => Travellers[e] \cap Travellers[f] = {}
  BY RecordsAssumption
  DEF Settlement!PoolAssumption, Settlement!IsFiniteSet, IsFiniteSet, Settlement!Cardinality, Cardinality

\* Who is of which people: everybody is in one entry only.
LEMMA WhoseItIs ==
  ASSUME NEW S \in SUBSET Settlement!Entries, NEW e \in Settlement!Entries, NEW p \in Travellers[e]
  PROVE  p \in Settlement!People /\ (p \in Settlement!PeopleOf(S) <=> e \in S)
  BY ThePool DEF Settlement!People, Settlement!PeopleOf

\* Two sets without a common element count as many as both.
LEMMA DisjointUnion ==
  ASSUME NEW A, NEW B, IsFiniteSet(A), IsFiniteSet(B), A \cap B = {}
  PROVE  IsFiniteSet(A \cup B) /\ Cardinality(A \cup B) = Cardinality(A) + Cardinality(B)
  <1>1. Cardinality(A) \in Nat /\ Cardinality(B) \in Nat
    BY FS_CardinalityType
  <1>2. Cardinality(A \cap B) = 0
    BY FS_EmptySet
  <1>3. IsFiniteSet(A \cup B) /\ Cardinality(A \cup B) = Cardinality(A) + Cardinality(B) - Cardinality(A \cap B)
    BY FS_Union
  <1> QED
    BY <1>1, <1>2, <1>3

\* The people of an entry more are its travellers besides.
LEMMA PeopleOfOneMore ==
  ASSUME NEW S \in SUBSET Settlement!Entries, NEW e \in Settlement!Entries \ S
  PROVE  /\ Settlement!PeopleOf(S \cup {e}) = Settlement!PeopleOf(S) \cup Travellers[e]
         /\ Settlement!PeopleOf(S) \cap Travellers[e] = {}
  BY ThePool DEF Settlement!PeopleOf

Sizes == [e \in Settlement!Entries |-> Cardinality(Travellers[e])]

\* The recursion that counts pilgrims is a sum of sizes.
LEMMA PilgrimsAreASum ==
  ASSUME NEW S \in SUBSET Settlement!Entries
  PROVE  Settlement!Pilgrims(S) = SumOf(Sizes, S)
  <1> DEFINE Counts(g) == g = [s \in SUBSET S |->
               IF s = {} THEN 0 ELSE Cardinality(Travellers[Pick(s)]) + g[s \ {Pick(s)}]]
  <1>1. Settlement!Pilgrims(S) = (CHOOSE g : Counts(g))[S]
    BY DEF Settlement!Pilgrims, Settlement!MapThenSumSet, Settlement!MapThenFoldSet,
           Settlement!Cardinality, Cardinality, Pick
  <1>2. \A g : Counts(g) <=> Sums(g, Sizes, S)
    <2>1. \A s \in SUBSET S : s # {} => Sizes[Pick(s)] = Cardinality(Travellers[Pick(s)])
      BY PickIsIn DEF Sizes
    <2> QED
      BY <2>1 DEF Sums
  <1> HIDE DEF Counts
  <1>3. IsFiniteSet(S)
    BY ThePool, FS_Subset
  <1>4. \E g : Counts(g)
    BY <1>2, <1>3, SumsExist
  <1>5. PICK g : g = CHOOSE f : Counts(f)
    OBVIOUS
  <1>6. Counts(g)
    BY <1>4, <1>5, Zenon
  <1>7. SumOf(Sizes, S) = g[S]
    BY <1>2, <1>3, <1>6, SumOfPart
  <1> QED
    BY <1>1, <1>5, <1>7, Zenon

\* Pilgrims are people: nobody is counted twice.
LEMMA PilgrimsAreCounted ==
  ASSUME NEW S \in SUBSET Settlement!Entries
  PROVE  /\ IsFiniteSet(Settlement!PeopleOf(S))
         /\ Settlement!Pilgrims(S) \in Nat
         /\ Settlement!Pilgrims(S) = Cardinality(Settlement!PeopleOf(S))
  <1> DEFINE Right(T) == /\ IsFiniteSet(Settlement!PeopleOf(T))
                         /\ SumOf(Sizes, T) = Cardinality(Settlement!PeopleOf(T))
             P == {n \in Nat : \A T \in SUBSET Settlement!Entries : Cardinality(T) = n => Right(T)}
  <1>1. \A T \in SUBSET Settlement!Entries : IsFiniteSet(T) /\ Cardinality(T) \in Nat
    BY ThePool, FS_Subset, FS_CardinalityType
  <1>2. 0 \in P
    <2>1. \A T \in SUBSET Settlement!Entries : Cardinality(T) = 0 => T = {}
      BY <1>1, FS_EmptySet
    <2>2. Settlement!PeopleOf({}) = {}
      BY DEF Settlement!PeopleOf
    <2>3. Right({})
      BY <2>2, FS_EmptySet, SumOfNone
    <2> HIDE DEF Right
    <2> QED
      BY <2>1, <2>3
  <1>3. ASSUME NEW n \in P PROVE n + 1 \in P
    <2>1. n \in Nat /\ \A T \in SUBSET Settlement!Entries : Cardinality(T) = n => Right(T)
      OBVIOUS
    <2>2. ASSUME NEW T \in SUBSET Settlement!Entries, Cardinality(T) = n + 1 PROVE Right(T)
      <3>1. PICK e : e \in T
        BY <2>1, <2>2, FS_EmptySet
      <3> DEFINE U == T \ {e}
      <3>2. /\ U \in SUBSET Settlement!Entries /\ e \in Settlement!Entries \ U
            /\ T = U \cup {e} /\ Cardinality(U) = n
        BY <1>1, <2>1, <2>2, <3>1, OneFewer
      <3> HIDE DEF U, Right, P
      <3>3. Right(U)
        BY <2>1, <3>2
      <3>4. /\ Settlement!PeopleOf(T) = Settlement!PeopleOf(U) \cup Travellers[e]
            /\ Settlement!PeopleOf(U) \cap Travellers[e] = {}
        BY <3>2, PeopleOfOneMore
      <3>5. IsFiniteSet(Travellers[e]) /\ Cardinality(Travellers[e]) \in Nat
        BY <3>2, ThePool
      <3>6. /\ IsFiniteSet(Settlement!PeopleOf(T))
            /\ Cardinality(Settlement!PeopleOf(T))
                 = Cardinality(Settlement!PeopleOf(U)) + Cardinality(Travellers[e])
        BY <3>3, <3>4, <3>5, DisjointUnion DEF Right
      <3>7. SumOf(Sizes, T) = SumOf(Sizes, U) + Cardinality(Travellers[e])
        <4>1. \A x \in U \cup {e} : Sizes[x] \in Nat
          BY <3>2, ThePool DEF Sizes
        <4>2. SumOf(Sizes, U \cup {e}) = SumOf(Sizes, U) + Sizes[e]
          BY <1>1, <3>2, <4>1, SumOfOneMore
        <4> QED
          BY <3>2, <4>2 DEF Sizes
      <3> QED
        BY <3>3, <3>6, <3>7 DEF Right
    <2> HIDE DEF Right
    <2> QED
      BY <2>1, <2>2
  <1>4. P = Nat
    <2> HIDE DEF P
    <2> QED
      BY <1>2, <1>3, InductionOnNat, P \in SUBSET Nat DEF P
  <1>5. Right(S)
    <2> HIDE DEF Right
    <2> QED
      BY <1>1, <1>4
  <1>6. Cardinality(Settlement!PeopleOf(S)) \in Nat
    BY <1>5, FS_CardinalityType
  <1> QED
    BY <1>5, <1>6, PilgrimsAreASum

\* Of two parts without a common entry, together as many as of each.
LEMMA PilgrimsOfTwoParts ==
  ASSUME NEW S \in SUBSET Settlement!Entries, NEW T \in SUBSET Settlement!Entries, S \cap T = {}
  PROVE  /\ IsFiniteSet(Settlement!PeopleOf(S \cup T))
         /\ Cardinality(Settlement!PeopleOf(S \cup T))
              = Settlement!Pilgrims(S) + Settlement!Pilgrims(T)
  <1>1. /\ Settlement!PeopleOf(S \cup T) = Settlement!PeopleOf(S) \cup Settlement!PeopleOf(T)
        /\ Settlement!PeopleOf(S) \cap Settlement!PeopleOf(T) = {}
    BY ThePool DEF Settlement!PeopleOf
  <1>2. /\ IsFiniteSet(Settlement!PeopleOf(S)) /\ Settlement!Pilgrims(S) = Cardinality(Settlement!PeopleOf(S))
        /\ IsFiniteSet(Settlement!PeopleOf(T)) /\ Settlement!Pilgrims(T) = Cardinality(Settlement!PeopleOf(T))
    BY PilgrimsAreCounted
  <1> DEFINE A == Settlement!PeopleOf(S)
             B == Settlement!PeopleOf(T)
  <1>3. IsFiniteSet(A) /\ IsFiniteSet(B) /\ A \cap B = {}
    BY <1>1, <1>2
  <1> HIDE DEF A, B
  <1>4. IsFiniteSet(A \cup B) /\ Cardinality(A \cup B) = Cardinality(A) + Cardinality(B)
    BY <1>3, DisjointUnion
  <1> QED
    BY <1>1, <1>2, <1>4 DEF A, B

------------------------------------------------------------------------------
(* The invariant is inductive.                                              *)

LEMMA SettlementInit == Settlement!Init => SettlementIInv
  BY DEF Settlement!Init, SettlementIInv, Tables, NothingYet, LedgerRows, Settlement!NoRow

\* Reading, counting and announcing change no table of the invariant.
LEMMA QuietSettlement ==
  ASSUME SettlementIInv,
         UNCHANGED <<status, result, outcome, archive, excluded, ledger, abandonments, promotions>>
  PROVE  SettlementIInv'
  BY DEF SettlementIInv, Tables, NothingYet, Told, Won

LEMMA CountingIsQuiet ==
  ASSUME SettlementIInv, NEW c \in Publishers,
         \/ Settlement!ReadDraw(c) \/ Settlement!FindPublication(c)
         \/ Settlement!CountPromoted(c) \/ Settlement!CountArchive(c) \/ Settlement!CountLedger(c)
         \/ Settlement!Publish(c) \/ Settlement!RefusePublication(c)
  PROVE  SettlementIInv'
  <1>1. UNCHANGED <<status, result, outcome, archive, excluded, ledger, abandonments, promotions>>
    BY DEF Settlement!ReadDraw, Settlement!FindPublication, Settlement!CountPromoted,
           Settlement!CountArchive, Settlement!CountLedger, Settlement!Publish,
           Settlement!RefusePublication, Settlement!drawn, Settlement!settled
  <1> QED
    BY <1>1, QuietSettlement

\* The execution writes one story.
LEMMA ExecutionTells ==
  ASSUME SettlementIInv, NEW winners \in SUBSET Settlement!Entries,
         NEW reserves \in SUBSET Settlement!Entries, Settlement!Execute(winners, reserves)
  PROVE  SettlementIInv'
  <1> DEFINE lucky == Settlement!PeopleOf(winners)
  <1>1. promotions = {} /\ abandonments = {}
    BY DEF SettlementIInv, NothingYet, Settlement!Execute
  <1>2. /\ status' = "COMPLETED"
        /\ result' = [winners |-> winners, reserves |-> reserves]
        /\ winners \cap reserves = {}
        /\ archive' = [p \in Settlement!People |-> IF p \in lucky THEN "DRAW" ELSE "NONE"]
        /\ excluded' = excluded \cup lucky
        /\ outcome' = [e \in Settlement!Entries |->
             IF e \in winners THEN "SELECTED" ELSE IF e \in reserves THEN "RESERVE" ELSE "NOT_SELECTED"]
        /\ ledger' = [p \in Settlement!People |-> [won |-> p \in lucky, source |-> "APPLICATION"]]
        /\ promotions' = {} /\ abandonments' = {}
    BY <1>1 DEF Settlement!Execute, Settlement!WonThisYear, Settlement!Row
  <1>3. Settlement!Pilgrims(winners) = Allocated /\ Settlement!Pilgrims(reserves) = Allocated
    BY DEF Settlement!Execute, Settlement!Complete
  <1>4. Won' = winners /\ Settlement!PeopleOf(winners) = lucky
    BY <1>2 DEF Won
  <1>5. result' \in Settlement!Results /\ result'.winners = winners /\ result'.reserves = reserves
    BY <1>2 DEF Settlement!Results
  <1> HIDE DEF lucky
  <1>6. Tables'
    BY <1>2 DEF Tables, LedgerRows
  <1>7. (Settlement!PeopleOf(Won))' = lucky
    BY <1>4 DEF Settlement!PeopleOf
  <1>8. Told'
    <2>1. (Settlement!Pilgrims(result.winners))' = Allocated /\ (Settlement!Pilgrims(result.reserves))' = Allocated
      BY <1>3, <1>5
    <2>2. \A p \in Settlement!People :
            /\ archive'[p] # "NONE" <=> p \in lucky
            /\ ledger'[p].source = "APPLICATION" /\ ledger'[p].won = (p \in lucky)
      BY <1>2
    <2>3. \A e \in Settlement!Entries : outcome'[e] = "SELECTED" <=> e \in winners
      BY <1>2
    <2>4. /\ lucky \subseteq excluded' /\ promotions' \subseteq reserves /\ abandonments' \subseteq winners
          /\ winners \cap reserves = {}
      BY <1>2
    <2> QED
      BY <1>4, <1>5, <1>7, <2>1, <2>2, <2>3, <2>4 DEF Told
  <1> QED
    BY <1>2, <1>6, <1>8 DEF SettlementIInv

\* Giving a place up changes nobody's story.
LEMMA AbandonmentTells ==
  ASSUME SettlementIInv, NEW e \in Settlement!Entries, Settlement!RecordAbandonment(e)
  PROVE  SettlementIInv'
  <1>1. /\ status = "COMPLETED" /\ status' = status /\ result' = result /\ outcome' = outcome
        /\ archive' = archive /\ excluded' = excluded /\ ledger' = ledger /\ promotions' = promotions
        /\ abandonments' = abandonments \cup {e} /\ e \in result.winners
    BY DEF Settlement!RecordAbandonment, Settlement!drawn
  <1>2. Tables' /\ Won' = Won
    BY <1>1 DEF SettlementIInv, Tables, Won
  <1>3. Told'
    BY <1>1, <1>2 DEF SettlementIInv, Told
  <1> QED
    BY <1>1, <1>2, <1>3 DEF SettlementIInv

\* A promotion turns every table over together, for the travellers of that reserve only.
LEMMA PromotionTells ==
  ASSUME SettlementIInv, NEW r \in Settlement!Entries, Settlement!PromoteReserve(r)
  PROVE  SettlementIInv'
  <1>1. /\ status = "COMPLETED" /\ status' = status /\ result' = result /\ abandonments' = abandonments
        /\ r \in result.reserves
        /\ promotions' = promotions \cup {r}
        /\ archive' = [p \in Settlement!People |->
             IF p \in Travellers[r] THEN "RESERVE_REPLACEMENT" ELSE archive[p]]
        /\ excluded' = excluded \cup Travellers[r]
        /\ outcome' = [outcome EXCEPT ![r] = "SELECTED"]
        /\ ledger' = [p \in Settlement!People |->
             IF p \in Travellers[r] THEN [ledger[p] EXCEPT !.won = TRUE] ELSE ledger[p]]
    BY DEF Settlement!PromoteReserve
  <1>2. Tables /\ Told
    BY <1>1 DEF SettlementIInv
  <1>3. Won' = Won \cup {r} /\ Won \subseteq Settlement!Entries
    BY <1>1, <1>2 DEF Won, Told, Settlement!Results
  <1>4. (Settlement!PeopleOf(Won))' = Settlement!PeopleOf(Won) \cup Travellers[r]
    BY <1>3 DEF Settlement!PeopleOf
  <1>5. \A p \in Settlement!People :
          /\ ledger[p] \in LedgerRows
          /\ ledger'[p] \in LedgerRows
          /\ ledger'[p].source = ledger[p].source
          /\ ledger'[p].won = (p \in Travellers[r] \/ ledger[p].won)
    <2>1. \A p \in Settlement!People : ledger[p] \in LedgerRows
      BY <1>2 DEF Tables
    <2>2. ASSUME NEW p \in Settlement!People
          PROVE  /\ ledger'[p] \in LedgerRows
                 /\ ledger'[p].source = ledger[p].source
                 /\ ledger'[p].won = (p \in Travellers[r] \/ ledger[p].won)
      <3>1. ledger'[p] = IF p \in Travellers[r] THEN [ledger[p] EXCEPT !.won = TRUE] ELSE ledger[p]
        BY <1>1
      <3>2. CASE p \in Travellers[r]
        BY <2>1, <3>1, <3>2 DEF LedgerRows
      <3>3. CASE p \notin Travellers[r]
        BY <2>1, <3>1, <3>3 DEF LedgerRows
      <3> QED
        BY <3>2, <3>3
    <2> QED
      BY <2>1, <2>2
  <1>6. Tables'
    <2>1. ledger' \in [Settlement!People -> LedgerRows]
      BY <1>1, <1>5
    <2> QED
      BY <1>1, <1>2, <2>1 DEF Tables
  <1>7. Told'
    <2> DEFINE lucky == Settlement!PeopleOf(Won) \cup Travellers[r]
    <2>1. \A p \in Settlement!People :
            /\ archive'[p] # "NONE" <=> p \in lucky
            /\ ledger'[p].source \in {"APPLICATION", "ADMIN_CORRECTION"}
            /\ ledger'[p].source = "APPLICATION" =>
                 ledger'[p].won = (p \in lucky)
      <3> DEFINE before == Settlement!PeopleOf(Won)
      <3>1. \A p \in Settlement!People :
              /\ archive[p] # "NONE" <=> p \in before
              /\ ledger[p].source \in {"APPLICATION", "ADMIN_CORRECTION"}
              /\ ledger[p].source = "APPLICATION" => ledger[p].won = (p \in before)
        BY <1>2 DEF Told
      <3>2. \A p : p \in lucky <=> p \in before \/ p \in Travellers[r]
        OBVIOUS
      <3> HIDE DEF before, lucky
      <3>3. ASSUME NEW p \in Settlement!People
            PROVE  /\ archive'[p] # "NONE" <=> p \in lucky
                   /\ ledger'[p].source \in {"APPLICATION", "ADMIN_CORRECTION"}
                   /\ ledger'[p].source = "APPLICATION" => ledger'[p].won = (p \in lucky)
        <4>1. archive'[p] # "NONE" <=> p \in lucky
          BY <1>1, <3>1, <3>2
        <4>2. ledger'[p].source = ledger[p].source
          BY <1>5
        <4>3. ledger'[p].won = (p \in Travellers[r] \/ ledger[p].won)
          BY <1>5
        <4>4. ledger[p].source = "APPLICATION" => ledger'[p].won = (p \in lucky)
          <5> SUFFICES ASSUME ledger[p].source = "APPLICATION" PROVE ledger'[p].won = (p \in lucky)
            OBVIOUS
          <5>1. ledger[p].won = (p \in before)
            BY <3>1
          <5>2. ledger'[p].won = (p \in Travellers[r] \/ p \in before)
            BY <4>3, <5>1, Zenon
          <5>3. (p \in Travellers[r] \/ p \in before) <=> p \in lucky
            BY <3>2
          <5> QED
            BY <5>2, <5>3
        <4> QED
          BY <3>1, <4>1, <4>2, <4>4
      <3> QED
        BY <3>3
    <2>2. \A e \in Settlement!Entries : outcome'[e] = "SELECTED" <=> e \in Won \cup {r}
      BY <1>1, <1>2 DEF Told, Tables
    <2>3. /\ result' \in Settlement!Results /\ result'.winners \cap result'.reserves = {}
          /\ promotions' \subseteq result'.reserves /\ abandonments' \subseteq result'.winners
          /\ lucky \subseteq excluded'
      BY <1>1, <1>2 DEF Told
    <2>4. (Settlement!Pilgrims(result.winners))' = Allocated /\ (Settlement!Pilgrims(result.reserves))' = Allocated
      BY <1>1, <1>2 DEF Told
    <2>5. (Settlement!PeopleOf(Won))' = lucky
      BY <1>4
    <2> HIDE DEF lucky
    <2> QED
      BY <1>3, <2>1, <2>2, <2>3, <2>4, <2>5 DEF Told
  <1> QED
    BY <1>1, <1>6, <1>7 DEF SettlementIInv

\* A register finds no row to fill once the draw has written everybody's.
LEMMA ImportTells ==
  ASSUME SettlementIInv, NEW p \in Settlement!People, Settlement!ImportYear(p)
  PROVE  SettlementIInv'
  <1>1. /\ ledger[p] = [won |-> FALSE, source |-> "NONE"]
        /\ ledger' = [ledger EXCEPT ![p] = [won |-> FALSE, source |-> "IMPORT"]]
        /\ status' = status /\ result' = result /\ outcome' = outcome /\ archive' = archive
        /\ excluded' = excluded /\ promotions' = promotions /\ abandonments' = abandonments
    BY DEF Settlement!ImportYear, Settlement!drawn, Settlement!Row, Settlement!NoRow
  <1>2. status # "COMPLETED"
    BY <1>1 DEF SettlementIInv, Told
  <1>3. Tables'
    BY <1>1 DEF SettlementIInv, Tables, LedgerRows
  <1> QED
    BY <1>1, <1>2, <1>3 DEF SettlementIInv, NothingYet

\* Who corrects takes the row out of the story, and leaves every other in it.
LEMMA CorrectionTells ==
  ASSUME SettlementIInv, NEW p \in Settlement!People, NEW won \in BOOLEAN, Settlement!Correct(p, won)
  PROVE  SettlementIInv'
  <1>1. /\ ledger' = [ledger EXCEPT ![p] = [won |-> won, source |-> "ADMIN_CORRECTION"]]
        /\ status' = status /\ result' = result /\ outcome' = outcome /\ archive' = archive
        /\ excluded' = excluded /\ promotions' = promotions /\ abandonments' = abandonments
    BY DEF Settlement!Correct, Settlement!drawn, Settlement!Row
  <1>2. Tables' /\ Won' = Won
    BY <1>1 DEF SettlementIInv, Tables, LedgerRows, Won
  <1>3. \A q \in Settlement!People :
          ledger'[q] = IF q = p THEN [won |-> won, source |-> "ADMIN_CORRECTION"] ELSE ledger[q]
    BY <1>1 DEF SettlementIInv, Tables
  <1>4. ASSUME Told PROVE Told'
    <2>1. \A q \in Settlement!People :
            /\ ledger'[q].source \in {"APPLICATION", "ADMIN_CORRECTION"}
            /\ ledger'[q].source = "APPLICATION" =>
                 ledger'[q].won = (q \in Settlement!PeopleOf(Won))
      BY <1>3, <1>4 DEF Told
    <2> QED
      BY <1>1, <1>2, <1>4, <2>1 DEF Told
  <1> QED
    BY <1>1, <1>2, <1>4 DEF SettlementIInv, NothingYet

LEMMA SettlementInvariance == Settlement!Spec => []SettlementIInv
  <1>1. SettlementIInv /\ [Settlement!Next]_(Settlement!vars) => SettlementIInv'
    <2> SUFFICES ASSUME SettlementIInv, [Settlement!Next]_(Settlement!vars) PROVE SettlementIInv'
      OBVIOUS
    <2>1. CASE UNCHANGED Settlement!vars
      BY <2>1, QuietSettlement DEF Settlement!vars, Settlement!drawn, Settlement!settled
    <2>2. CASE \E winners, reserves \in SUBSET Settlement!Entries : Settlement!Execute(winners, reserves)
      BY <2>2, ExecutionTells
    <2>3. CASE \E e \in Settlement!Entries : Settlement!RecordAbandonment(e) \/ Settlement!PromoteReserve(e)
      BY <2>3, AbandonmentTells, PromotionTells
    <2>4. CASE \E p \in Settlement!People :
                 Settlement!ImportYear(p) \/ (\E won \in BOOLEAN : Settlement!Correct(p, won))
      BY <2>4, ImportTells, CorrectionTells
    <2>5. CASE \E c \in Publishers :
                 \/ Settlement!ReadDraw(c) \/ Settlement!FindPublication(c)
                 \/ Settlement!CountPromoted(c) \/ Settlement!CountArchive(c) \/ Settlement!CountLedger(c)
                 \/ Settlement!Publish(c) \/ Settlement!RefusePublication(c)
      BY <2>5, CountingIsQuiet
    <2> QED
      BY <2>1, <2>2, <2>3, <2>4, <2>5 DEF Settlement!Next
  <1> QED
    BY <1>1, SettlementInit, PTL DEF Settlement!Spec

------------------------------------------------------------------------------
(* What it says.                                                            *)

LEMMA SettlementIsTyped == SettlementIInv => Settlement!TypeOK
  <1> SUFFICES ASSUME SettlementIInv PROVE Settlement!TypeOK
    OBVIOUS
  <1>1. status = "COMPLETED" <=> result # None
    BY ThePool DEF SettlementIInv, Tables, NothingYet, Told
  <1>2. result # None => promotions \subseteq result.reserves /\ abandonments \subseteq result.winners
    BY <1>1 DEF SettlementIInv, Told
  <1>3. \A p \in Settlement!People : ledger[p].source \in {"NONE", "APPLICATION", "IMPORT", "ADMIN_CORRECTION"}
    BY DEF SettlementIInv, Tables, LedgerRows
  <1> QED
    BY <1>1, <1>2, <1>3 DEF SettlementIInv, Tables, Settlement!TypeOK

LEMMA TablesTellOneStory == SettlementIInv => Settlement!OneStory
  <1> SUFFICES ASSUME SettlementIInv, status = "COMPLETED",
                      NEW e \in Settlement!Entries, NEW p \in Travellers[e] \ Settlement!Corrected
               PROVE  LET won == e \in Won IN
                      /\ outcome[e] = "SELECTED" <=> won
                      /\ archive[p] # "NONE" <=> won
                      /\ won => p \in excluded
                      /\ ledger[p] = Settlement!Row(won, "APPLICATION")
    BY DEF Settlement!OneStory, Won
  <1>1. Tables /\ Told
    BY DEF SettlementIInv
  <1>2. Won \in SUBSET Settlement!Entries
    BY <1>1 DEF Told, Won, Settlement!Results
  <1>3. p \in Settlement!People /\ (p \in Settlement!PeopleOf(Won) <=> e \in Won)
    BY <1>2, WhoseItIs
  <1>4. (outcome[e] = "SELECTED" <=> e \in Won) /\ (archive[p] # "NONE" <=> e \in Won)
    BY <1>1, <1>3 DEF Told
  <1>5. e \in Won => p \in excluded
    BY <1>1, <1>3 DEF Told
  <1>6. ledger[p] \in LedgerRows
    BY <1>1, <1>3 DEF Tables
  <1>7. ledger[p].source = "APPLICATION"
    BY <1>1, <1>3 DEF Told, Settlement!Corrected
  <1>8. ledger[p].won = (e \in Won)
    <2>1. ledger[p].won = (p \in Settlement!PeopleOf(Won))
      BY <1>1, <1>3, <1>7 DEF Told
    <2> QED
      BY <1>3, <2>1
  <1>9. ledger[p] = [won |-> e \in Won, source |-> "APPLICATION"]
    BY <1>6, <1>7, <1>8 DEF LedgerRows
  <1> QED
    BY <1>4, <1>5, <1>9 DEF Settlement!Row

\* The gate counts to the same numbers on both sides: pilgrims of the winning entries
\* and of the promoted ones against people of the archive.
LEMMA GateLetsItPass == SettlementIInv => Settlement!NoFalseAlarm
  <1> SUFFICES ASSUME SettlementIInv, status = "COMPLETED", Settlement!Corrected = {}
               PROVE  Settlement!AssessResultIntegrity(Settlement!FactsNow) = {}
    BY DEF Settlement!NoFalseAlarm
  <1> DEFINE facts == Settlement!FactsNow
             lucky == Settlement!PeopleOf(Won)
  <1>1. Tables /\ Told
    BY DEF SettlementIInv
  <1>2. /\ result.winners \in SUBSET Settlement!Entries /\ promotions \in SUBSET Settlement!Entries
        /\ result.winners \cap promotions = {} /\ result # None
    BY <1>1, ThePool DEF Told, Settlement!Results
  <1>3. Settlement!ArchivedNow = lucky
    <2>1. lucky \subseteq Settlement!People
      BY <1>2 DEF Won, Settlement!PeopleOf, Settlement!People
    <2> QED
      BY <1>1, <2>1 DEF Told, Settlement!ArchivedNow
  <1>4. Settlement!ExcludedNow = lucky
    BY <1>1, <1>3 DEF Told, Settlement!ExcludedNow
  <1>5. Settlement!RecordedNow = Settlement!People
    BY <1>1 DEF Told, Settlement!RecordedNow, Settlement!Corrected
  <1>6. Cardinality(lucky) = Settlement!Pilgrims(result.winners) + Settlement!Pilgrims(promotions)
    BY <1>2, PilgrimsOfTwoParts DEF Won
  <1>7. Cardinality(Settlement!People) \in Nat
    <2>1. Settlement!People = Settlement!PeopleOf(Settlement!Entries)
      BY DEF Settlement!People, Settlement!PeopleOf
    <2> QED
      BY <2>1, PilgrimsAreCounted, FS_CardinalityType
  <1>8. /\ facts.status = "COMPLETED"
        /\ facts.promoted = Settlement!Pilgrims(promotions)
        /\ facts.archived = Cardinality(lucky) /\ facts.excluded = Cardinality(lucky)
        /\ facts.recorded = Cardinality(Settlement!People)
    BY <1>3, <1>4, <1>5
    DEF Settlement!FactsNow, Settlement!PromotedNow, Settlement!Cardinality, Cardinality
  <1>9. /\ Settlement!Pilgrims(result.winners) = Allocated
        /\ Settlement!Pilgrims(result.reserves) = Allocated
    BY <1>1 DEF Told
  <1> HIDE DEF facts, lucky
  <1>10. Settlement!ArchiveAddsUp(facts)
    BY <1>6, <1>8 DEF Settlement!ArchiveAddsUp
  <1>11. Settlement!Cardinality(Settlement!People) = Cardinality(Settlement!People)
    BY DEF Settlement!Cardinality, Cardinality
  <1>12. ~ (facts.recorded < Settlement!Cardinality(Settlement!People))
    BY <1>7, <1>8, <1>11
  <1>13. Settlement!AssessResultIntegrity(facts) = {}
    BY <1>2, <1>8, <1>9, <1>10, <1>12 DEF Settlement!AssessResultIntegrity
  <1> QED
    BY <1>13 DEF facts

\* Execution, replacements, registers and corrections write to the same tables, and
\* whatever their order, everybody nobody has corrected has one story of the year in all of
\* them; and the gate of the announcement lets a completed draw pass whose ledger was left
\* alone.
THEOREM EverybodyHasOneStory == Settlement!Spec => []OneStory
  <1>1. SettlementIInv => OneStory
    BY SettlementIsTyped, TablesTellOneStory, GateLetsItPass DEF OneStory
  <1> QED
    BY <1>1, SettlementInvariance, PTL

------------------------------------------------------------------------------
(* AdminAccounts: whose call is served.                                     *)

\* The rows the database accepts, and the assignments the service does.
AccountRows ==
  {row \in [role : AdminAccounts!AdminRole, wilaya : Regions \cup {Null},
            commune : AdminAccounts!Communes \cup {Null}, active : BOOLEAN] :
     AdminAccounts!LegalReach(row)}

ValidAssignments == {a \in AdminAccounts!Assignments : AdminAccounts!ValidAssignment(a)}

UserRows == AccountRows \cup {AdminAccounts!NoAccount}

SessionRows ==
  {AdminAccounts!Fresh, AdminAccounts!Deleted} \cup [state : {"live", "expired"}, user : Users]

Signing == [phase : {"verified"}, actor : Users]
Inside == [phase : {"in"}, actor : Users, token : Tokens, as : AdminAccounts!Assignments]
Creating == [phase : {"hashed"}, actor : Users, target : Users, next : ValidAssignments]
Rescoping ==
  [phase : {"judging", "judged"}, kind : {"scope"}, actor : Users, target : Users,
   next : ValidAssignments, seen : UserRows]
Deactivating ==
  [phase : {"judging", "judged"}, kind : {"deactivate"}, actor : Users, target : Users,
   seen : UserRows]

ServedCalls ==
  {AdminAccounts!Idle} \cup Signing \cup Inside \cup Creating \cup Rescoping \cup Deactivating

Known(u) == users[u] # AdminAccounts!NoAccount

\* Whoever has a session, signs in, or is being moved or disabled has an account; a token
\* whose owner was told of the sign-out has been deleted.
AccountsIInv ==
  /\ users \in [Users -> UserRows]
  /\ sessions \in [Tokens -> SessionRows]
  /\ served \in [Served -> ServedCalls]
  /\ \A t \in Tokens : AdminAccounts!Live(t) => Known(sessions[t].user)
  /\ \A c \in Served : served[c].phase = "verified" => Known(served[c].actor)
  /\ \A c \in Served : served[c].phase \in {"judging", "judged"} => Known(served[c].target)
  /\ signedOut \subseteq {t \in Tokens : sessions[t] = AdminAccounts!Deleted}

LEMMA AssignmentIsARow ==
  ASSUME AccessAssumption, NEW a \in ValidAssignments, NEW active \in BOOLEAN
  PROVE  /\ AdminAccounts!Account(a) \in AccountRows
         /\ [AdminAccounts!Account(a) EXCEPT !.active = active] \in AccountRows
         /\ AdminAccounts!Account(a).active = TRUE
         /\ [AdminAccounts!Account(a) EXCEPT !.active = active].active = active
  BY DEF AccessAssumption, AdminAccounts!PlaceAssumption, ValidAssignments, AccountRows,
         AdminAccounts!Assignments, AdminAccounts!ValidAssignment, AdminAccounts!LegalReach,
         AdminAccounts!Account, AdminAccounts!AdminRole

LEMMA RowIsKnown ==
  /\ AdminAccounts!NoAccount \notin AccountRows /\ ~ AdminAccounts!NoAccount.active
  /\ \A row \in AccountRows : row.active \in BOOLEAN /\ [row EXCEPT !.active = TRUE] \in AccountRows
  BY DEF AccountRows, AdminAccounts!NoAccount, AdminAccounts!LegalReach, AdminAccounts!AdminRole

LEMMA NationalIsAssigned == AdminAccounts!National \in ValidAssignments
  BY DEF AdminAccounts!National, ValidAssignments, AdminAccounts!Assignments,
         AdminAccounts!ValidAssignment, AdminAccounts!AdminRole

\* The kinds of a call by its phase.
LEMMA CallByPhase ==
  ASSUME NEW call \in ServedCalls
  PROVE  /\ call.phase = "verified" => call \in Signing
         /\ call.phase = "in" => call \in Inside
         /\ call.phase = "hashed" => call \in Creating
         /\ call.phase \in {"judging", "judged"} => call \in Rescoping \cup Deactivating
         /\ call.phase = "idle" => call = AdminAccounts!Idle
  BY DEF ServedCalls, Signing, Inside, Creating, Rescoping, Deactivating, AdminAccounts!Idle

\* What a step does to the accounts: none is lost, and in production none that is
\* disabled comes back.
LEMMA AccountsStay ==
  ASSUME AccessAssumption, AccountsIInv, [AdminAccounts!Next]_(AdminAccounts!vars)
  PROVE  /\ users' \in [Users -> UserRows]
         /\ \A u \in Users : Known(u) => Known(u)'
         /\ Production => \A u \in Users : Known(u) /\ ~ users[u].active => ~ users'[u].active
  <1> DEFINE Kept(u, row) ==
        /\ row \in UserRows
        /\ Known(u) => row # AdminAccounts!NoAccount
        /\ Production => (Known(u) /\ ~ users[u].active => ~ row.active)
      Goal == /\ users' \in [Users -> UserRows]
              /\ \A u \in Users : Known(u) => Known(u)'
              /\ Production => \A u \in Users : Known(u) /\ ~ users[u].active => ~ users'[u].active
  <1>1. ASSUME NEW u \in Users, NEW row, Kept(u, row), users' = [users EXCEPT ![u] = row]
        PROVE  Goal
    BY <1>1 DEF AccountsIInv, Known
  <1>2. CASE users' = users
    BY <1>2 DEF AccountsIInv, Known
  <1>3. ASSUME NEW u \in Users, AdminAccounts!Bootstrap(u)
        PROVE  Goal
    <2> DEFINE row == IF users[u] = AdminAccounts!NoAccount
                      THEN AdminAccounts!Account(AdminAccounts!National)
                      ELSE IF Production THEN users[u] ELSE [users[u] EXCEPT !.active = TRUE]
    <2>1. users' = [users EXCEPT ![u] = row]
      BY <1>3 DEF AdminAccounts!Bootstrap
    <2>2. users[u] \in UserRows
      BY DEF AccountsIInv
    <2>3. Kept(u, row)
      BY <2>2, RowIsKnown, NationalIsAssigned, AssignmentIsARow DEF Known, UserRows
    <2> HIDE DEF row, Kept, Goal
    <2> QED
      BY <1>1, <2>1, <2>3
  <1>4. ASSUME NEW c \in Served, AdminAccounts!CreateAccount(c)
        PROVE  Goal
    <2> DEFINE u == served[c].target
               row == IF users[u] = AdminAccounts!NoAccount THEN AdminAccounts!Account(served[c].next)
                      ELSE users[u]
    <2>1. users' = [users EXCEPT ![u] = row] /\ served[c].phase = "hashed"
      BY <1>4 DEF AdminAccounts!CreateAccount
    <2>2. u \in Users /\ served[c].next \in ValidAssignments
      BY <2>1, CallByPhase DEF AccountsIInv, Creating
    <2>3. users[u] \in UserRows
      BY <2>2 DEF AccountsIInv
    <2>4. Kept(u, row)
      BY <2>2, <2>3, RowIsKnown, AssignmentIsARow DEF Known, UserRows
    <2> HIDE DEF row, u, Kept, Goal
    <2> QED
      BY <1>1, <2>1, <2>2, <2>4
  <1>5. ASSUME NEW c \in Served, AdminAccounts!ChangeScope(c)
        PROVE  Goal
    <2> DEFINE u == served[c].target
               row == [AdminAccounts!Account(served[c].next) EXCEPT !.active = users[u].active]
    <2>1. /\ users' = [users EXCEPT ![u] = row]
          /\ served[c].phase = "judged" /\ served[c].kind = "scope"
      BY <1>5 DEF AdminAccounts!ChangeScope
    <2>2. u \in Users /\ served[c].next \in ValidAssignments /\ Known(u)
      BY <2>1, CallByPhase DEF AccountsIInv, Rescoping, Deactivating
    <2>3. users[u] \in AccountRows
      BY <2>2 DEF AccountsIInv, UserRows, Known
    <2>4. row \in AccountRows /\ row.active = users[u].active
      BY <2>2, <2>3, RowIsKnown, AssignmentIsARow
    <2> HIDE DEF row, u
    <2>5. Kept(u, row)
      BY <2>4, RowIsKnown DEF UserRows
    <2> HIDE DEF Kept, Goal
    <2> QED
      BY <1>1, <2>1, <2>2, <2>5
  <1>6. ASSUME NEW c \in Served, AdminAccounts!Deactivate(c)
        PROVE  Goal
    <2> DEFINE u == served[c].target
               row == [users[u] EXCEPT !.active = FALSE]
    <2>1. served[c].phase = "judged" /\ (users' = users \/ users' = [users EXCEPT ![u] = row])
      BY <1>6 DEF AdminAccounts!Deactivate
    <2>2. u \in Users /\ Known(u)
      BY <2>1, CallByPhase DEF AccountsIInv, Rescoping, Deactivating
    <2>3. users[u] \in AccountRows
      BY <2>2 DEF AccountsIInv, UserRows, Known
    <2>4. row \in AccountRows /\ ~ row.active
      BY <2>3 DEF AccountRows, AdminAccounts!LegalReach
    <2> HIDE DEF row, u
    <2>5. Kept(u, row)
      BY <2>4, RowIsKnown DEF UserRows
    <2> HIDE DEF Kept
    <2>6. CASE users' = users
      BY <2>6, <1>2
    <2> HIDE DEF Goal
    <2> QED
      BY <1>1, <2>1, <2>2, <2>5, <2>6
  <1>7. users' = users \/ (\E u \in Users : AdminAccounts!Bootstrap(u))
        \/ \E c \in Served : \/ AdminAccounts!CreateAccount(c) \/ AdminAccounts!ChangeScope(c)
                             \/ AdminAccounts!Deactivate(c)
    <2>2. ASSUME NEW t \in Tokens, AdminAccounts!Expire(t)
          PROVE  users' = users
      BY <2>2 DEF AdminAccounts!Expire
    <2>3. ASSUME NEW c \in Served, NEW t \in Tokens,
                 \/ AdminAccounts!StartSession(c, t) \/ AdminAccounts!Authenticate(c, t)
                 \/ AdminAccounts!RefuseSession(c, t)
          PROVE  users' = users
      BY <2>3 DEF AdminAccounts!StartSession, AdminAccounts!Authenticate, AdminAccounts!RefuseSession
    <2>4. ASSUME NEW c \in Served, NEW u \in Users, NEW a \in AdminAccounts!Assignments,
                 \/ AdminAccounts!VerifyCredentials(c, u) \/ AdminAccounts!CheckAccount(c, u, a)
                 \/ AdminAccounts!ReadForScope(c, u, a)
          PROVE  users' = users
      BY <2>4 DEF AdminAccounts!VerifyCredentials, AdminAccounts!CheckAccount, AdminAccounts!ReadForScope
    <2>5. ASSUME NEW c \in Served, NEW u \in Users, 
                 AdminAccounts!VerifyCredentials(c, u) \/ AdminAccounts!ReadForDeactivation(c, u)
          PROVE  users' = users
      BY <2>5 DEF AdminAccounts!VerifyCredentials, AdminAccounts!ReadForDeactivation
    <2>6. ASSUME NEW c \in Served, AdminAccounts!Logout(c) \/ AdminAccounts!Judge(c)
          PROVE  users' = users
      BY <2>6 DEF AdminAccounts!Logout, AdminAccounts!Judge
    <2>7. UNCHANGED AdminAccounts!vars => users' = users
      BY DEF AdminAccounts!vars
    <2> QED
      BY <2>2, <2>3, <2>4, <2>5, <2>6, <2>7 DEF AdminAccounts!Next
  <1>8. CASE \E u \in Users : AdminAccounts!Bootstrap(u)
    BY <1>3, <1>8
  <1>9. CASE \E c \in Served : \/ AdminAccounts!CreateAccount(c) \/ AdminAccounts!ChangeScope(c)
                                \/ AdminAccounts!Deactivate(c)
    BY <1>4, <1>5, <1>6, <1>9
  <1> QED
    BY <1>2, <1>7, <1>8, <1>9

\* A step in which no session begins.
SessionsOnlyEnd ==
  /\ sessions' \in [Tokens -> SessionRows]
  /\ \A t \in Tokens : AdminAccounts!Live(t)' => AdminAccounts!Live(t) /\ sessions'[t].user = sessions[t].user
  /\ \A t \in Tokens : sessions[t] = AdminAccounts!Deleted => sessions'[t] = AdminAccounts!Deleted

LEMMA SessionByState ==
  ASSUME NEW row \in SessionRows
  PROVE  /\ row.state \in {"live", "expired"} <=> row \in [state : {"live", "expired"}, user : Users]
         /\ row.state \in {"live", "expired"} => row # AdminAccounts!Deleted /\ row # AdminAccounts!Fresh
         /\ row.state \notin {"live", "expired"} => row \in {AdminAccounts!Deleted, AdminAccounts!Fresh}
  BY DEF SessionRows, AdminAccounts!Fresh, AdminAccounts!Deleted

LEMMA DeletingEnds ==
  ASSUME AccountsIInv, NEW t \in Tokens, sessions' = [sessions EXCEPT ![t] = AdminAccounts!Deleted]
  PROVE  SessionsOnlyEnd
  BY DEF AccountsIInv, SessionsOnlyEnd, SessionRows, AdminAccounts!Live, AdminAccounts!Deleted

LEMMA EndingEnds ==
  ASSUME AccountsIInv, NEW u, AdminAccounts!EndSessionsOf(u)
  PROVE  SessionsOnlyEnd
  <1>1. \A t \in Tokens : sessions'[t] = IF AdminAccounts!Live(t) /\ sessions[t].user = u
                                         THEN AdminAccounts!Deleted ELSE sessions[t]
    BY DEF AdminAccounts!EndSessionsOf
  <1>2. sessions' \in [Tokens -> SessionRows]
    BY DEF AdminAccounts!EndSessionsOf, AccountsIInv, SessionRows
  <1>3. ~ (AdminAccounts!Deleted.state \in {"live", "expired"})
    BY DEF AdminAccounts!Deleted
  <1> QED
    BY <1>1, <1>2, <1>3 DEF SessionsOnlyEnd, AdminAccounts!Live

LEMMA ExpiringEnds ==
  ASSUME AccountsIInv, NEW t \in Tokens, AdminAccounts!Expire(t)
  PROVE  SessionsOnlyEnd
  <1>1. /\ sessions' = [sessions EXCEPT ![t] = [sessions[t] EXCEPT !.state = "expired"]]
        /\ sessions[t].state = "live" /\ sessions[t] \in SessionRows
    BY DEF AdminAccounts!Expire, AccountsIInv
  <1>2. sessions[t] \in [state : {"live", "expired"}, user : Users]
    BY <1>1, SessionByState
  <1> DEFINE row == [sessions[t] EXCEPT !.state = "expired"]
  <1>3. row \in SessionRows /\ row.user = sessions[t].user
    BY <1>2 DEF SessionRows
  <1>4. sessions[t] # AdminAccounts!Deleted
    BY <1>1, SessionByState
  <1> HIDE DEF row
  <1>5. /\ sessions' \in [Tokens -> SessionRows] /\ sessions'[t] = row
        /\ \A s \in Tokens : s # t => sessions'[s] = sessions[s]
    BY <1>1, <1>3 DEF AccountsIInv, row
  <1> QED
    BY <1>1, <1>3, <1>4, <1>5 DEF SessionsOnlyEnd, AdminAccounts!Live

\* A call that is taken further, or answered.
ServedBecomes(c, call) ==
  /\ served' = [served EXCEPT ![c] = call]
  /\ call \in ServedCalls
  /\ call.phase = "verified" => Known(call.actor)
  /\ call.phase \in {"judging", "judged"} => Known(call.target)

LEMMA IdleIsServed ==
  /\ AdminAccounts!Idle \in ServedCalls
  /\ AdminAccounts!Idle.phase = "idle"
  BY DEF ServedCalls, AdminAccounts!Idle

\* A step that takes one call further keeps the invariant, when no session begins in it
\* and whoever is told of a sign-out is told of a deleted session.
LEMMA CallStepIInv ==
  ASSUME AccountsIInv, NEW c \in Served, NEW call, ServedBecomes(c, call),
         users' \in [Users -> UserRows], \A u \in Users : Known(u) => Known(u)',
         SessionsOnlyEnd,
         signedOut' \subseteq signedOut \cup {t \in Tokens : sessions'[t] = AdminAccounts!Deleted}
  PROVE  AccountsIInv'
  <1>1. /\ served' \in [Served -> ServedCalls] /\ served'[c] = call
        /\ \A d \in Served : d # c => served'[d] = served[d]
    BY DEF ServedBecomes, AccountsIInv
  <1>2. \A t \in Tokens : AdminAccounts!Live(t)' => Known(sessions[t].user)'
    <2> SUFFICES ASSUME NEW t \in Tokens, AdminAccounts!Live(t)' PROVE Known(sessions[t].user)'
      OBVIOUS
    <2>1. AdminAccounts!Live(t) /\ sessions'[t].user = sessions[t].user /\ Known(sessions[t].user)
      BY DEF SessionsOnlyEnd, AccountsIInv
    <2>2. sessions[t].user \in Users
      BY <2>1, SessionByState DEF AccountsIInv, AdminAccounts!Live
    <2> QED
      BY <2>1, <2>2 DEF Known
  <1>3. \A d \in Served : served'[d].phase = "verified" => Known(served[d].actor)'
    <2> SUFFICES ASSUME NEW d \in Served, served'[d].phase = "verified" PROVE Known(served[d].actor)'
      OBVIOUS
    <2>1. Known(served'[d].actor)
      BY <1>1 DEF ServedBecomes, AccountsIInv
    <2>2. served'[d].actor \in Users
      BY <1>1, CallByPhase DEF Signing
    <2> QED
      BY <2>1, <2>2 DEF Known
  <1>4. \A d \in Served : served'[d].phase \in {"judging", "judged"} => Known(served[d].target)'
    <2> SUFFICES ASSUME NEW d \in Served, served'[d].phase \in {"judging", "judged"}
                 PROVE  Known(served[d].target)'
      OBVIOUS
    <2>1. Known(served'[d].target)
      BY <1>1 DEF ServedBecomes, AccountsIInv
    <2>2. served'[d].target \in Users
      BY <1>1, CallByPhase DEF Rescoping, Deactivating
    <2> QED
      BY <2>1, <2>2 DEF Known
  <1>5. signedOut' \subseteq {t \in Tokens : sessions'[t] = AdminAccounts!Deleted}
    BY DEF SessionsOnlyEnd, AccountsIInv
  <1>6. sessions' \in [Tokens -> SessionRows]
    BY DEF SessionsOnlyEnd
  <1> QED
    BY <1>1, <1>2, <1>3, <1>4, <1>5, <1>6 DEF AccountsIInv

\* The same when no call is taken further.
LEMMA OtherStepIInv ==
  ASSUME AccountsIInv, UNCHANGED <<served, signedOut>>,
         users' \in [Users -> UserRows], \A u \in Users : Known(u) => Known(u)',
         SessionsOnlyEnd
  PROVE  AccountsIInv'
  <1>1. CASE Served = {}
    <2>1. \A t \in Tokens : AdminAccounts!Live(t)' => Known(sessions[t].user)'
      <3> SUFFICES ASSUME NEW t \in Tokens, AdminAccounts!Live(t)' PROVE Known(sessions[t].user)'
        OBVIOUS
      <3>1. AdminAccounts!Live(t) /\ sessions'[t].user = sessions[t].user /\ Known(sessions[t].user)
        BY DEF SessionsOnlyEnd, AccountsIInv
      <3>2. sessions[t].user \in Users
        BY <3>1, SessionByState DEF AccountsIInv, AdminAccounts!Live
      <3> QED
        BY <3>1, <3>2 DEF Known
    <2> QED
      BY <1>1, <2>1 DEF AccountsIInv, SessionsOnlyEnd
  <1>2. ASSUME NEW c \in Served PROVE AccountsIInv'
    <2>1. ServedBecomes(c, served[c])
      BY DEF ServedBecomes, AccountsIInv
    <2> QED
      BY <2>1, CallStepIInv
  <1> QED
    BY <1>1, <1>2

LEMMA NoSessionTouched ==
  ASSUME AccountsIInv, UNCHANGED sessions
  PROVE  SessionsOnlyEnd
  BY DEF AccountsIInv, SessionsOnlyEnd, AdminAccounts!Live

LEMMA AccountsStepIInv ==
  ASSUME AccessAssumption, AccountsIInv, [AdminAccounts!Next]_(AdminAccounts!vars)
  PROVE  AccountsIInv'
  <1>1. users' \in [Users -> UserRows] /\ \A u \in Users : Known(u) => Known(u)'
    BY AccountsStay
  <1>2. CASE UNCHANGED AdminAccounts!vars
    BY <1>1, <1>2, NoSessionTouched, OtherStepIInv DEF AdminAccounts!vars
  <1>3. ASSUME NEW u \in Users, AdminAccounts!Bootstrap(u) PROVE AccountsIInv'
    BY <1>1, <1>3, NoSessionTouched, OtherStepIInv DEF AdminAccounts!Bootstrap
  <1>4. ASSUME NEW t \in Tokens, AdminAccounts!Expire(t) PROVE AccountsIInv'
    BY <1>1, <1>4, ExpiringEnds, OtherStepIInv DEF AdminAccounts!Expire
  <1>5. ASSUME NEW c \in Served, NEW u \in Users, AdminAccounts!VerifyCredentials(c, u)
        PROVE  AccountsIInv'
    <2> DEFINE call == [phase |-> "verified", actor |-> u]
    <2>1. Known(u)
      BY <1>5, RowIsKnown DEF AdminAccounts!VerifyCredentials, Known
    <2>2. ServedBecomes(c, call)
      BY <1>5, <2>1 DEF AdminAccounts!VerifyCredentials, ServedBecomes, ServedCalls, Signing
    <2> HIDE DEF call
    <2> QED
      BY <1>1, <1>5, <2>2, CallStepIInv, NoSessionTouched DEF AdminAccounts!VerifyCredentials
  <1>6. ASSUME NEW c \in Served, NEW t \in Tokens, AdminAccounts!StartSession(c, t)
        PROVE  AccountsIInv'
    <2> DEFINE row == [state |-> "live", user |-> served[c].actor]
    <2>1. /\ served[c].phase = "verified" /\ sessions[t] = AdminAccounts!Fresh
          /\ sessions' = [sessions EXCEPT ![t] = row]
          /\ served' = [served EXCEPT ![c] = AdminAccounts!Idle]
          /\ UNCHANGED <<users, signedOut>>
      BY <1>6 DEF AdminAccounts!StartSession, AdminAccounts!Answer
    <2>2. served[c].actor \in Users /\ Known(served[c].actor)
      BY <2>1, CallByPhase DEF AccountsIInv, Signing
    <2>3. row \in SessionRows /\ row.user = served[c].actor
      BY <2>2 DEF SessionRows
    <2>4. AdminAccounts!Fresh # AdminAccounts!Deleted
      BY DEF AdminAccounts!Fresh, AdminAccounts!Deleted
    <2> HIDE DEF row
    <2>5. /\ sessions' \in [Tokens -> SessionRows] /\ sessions'[t] = row
          /\ \A s \in Tokens : s # t => sessions'[s] = sessions[s]
      BY <2>1, <2>3 DEF AccountsIInv
    <2>6. /\ served' \in [Served -> ServedCalls] /\ served'[c] = AdminAccounts!Idle
          /\ \A d \in Served : d # c => served'[d] = served[d]
      BY <2>1, IdleIsServed DEF AccountsIInv
    <2>7. signedOut' \subseteq {s \in Tokens : sessions'[s] = AdminAccounts!Deleted}
      BY <2>1, <2>4, <2>5 DEF AccountsIInv
    <2>8. \A s \in Tokens : AdminAccounts!Live(s)' => Known(sessions[s].user)'
      BY <2>1, <2>2, <2>3, <2>5 DEF AccountsIInv, AdminAccounts!Live, Known
    <2>9. \A d \in Served : /\ served'[d].phase = "verified" => Known(served[d].actor)'
                            /\ served'[d].phase \in {"judging", "judged"} => Known(served[d].target)'
      BY <2>1, <2>6, IdleIsServed DEF AccountsIInv, Known
    <2> QED
      BY <1>1, <2>5, <2>6, <2>7, <2>8, <2>9 DEF AccountsIInv
  <1>7. ASSUME NEW c \in Served, NEW t \in Tokens, AdminAccounts!Authenticate(c, t)
        PROVE  AccountsIInv'
    <2> DEFINE u == sessions[t].user
               reach == [role |-> users[u].role, wilaya |-> users[u].wilaya, commune |-> users[u].commune]
               call == [phase |-> "in", actor |-> u, token |-> t, as |-> reach]
    <2>1. u \in Users /\ Known(u)
      BY <1>7, SessionByState DEF AdminAccounts!Authenticate, AdminAccounts!Accepted,
         AdminAccounts!Live, AccountsIInv
    <2>2. users[u] \in AccountRows
      BY <2>1 DEF AccountsIInv, UserRows, Known
    <2>3. reach \in AdminAccounts!Assignments
      BY <2>2 DEF AccountRows, AdminAccounts!Assignments
    <2>4. served' = [served EXCEPT ![c] = call] /\ UNCHANGED <<users, sessions, signedOut>>
      BY <1>7 DEF AdminAccounts!Authenticate
    <2> HIDE DEF u, reach
    <2>5. call \in Inside /\ call.phase = "in"
      BY <2>1, <2>3 DEF Inside
    <2> HIDE DEF call
    <2>6. ServedBecomes(c, call)
      BY <2>4, <2>5 DEF ServedBecomes, ServedCalls
    <2> QED
      BY <1>1, <2>4, <2>6, CallStepIInv, NoSessionTouched
  <1>8. ASSUME NEW c \in Served, NEW t \in Tokens, AdminAccounts!RefuseSession(c, t)
        PROVE  AccountsIInv'
    <2>1. SessionsOnlyEnd /\ UNCHANGED <<users, signedOut, served>>
      BY <1>8, DeletingEnds, EndingEnds DEF AdminAccounts!RefuseSession
    <2> QED
      BY <1>1, <2>1, OtherStepIInv
  <1>9. ASSUME NEW c \in Served, AdminAccounts!Logout(c)
        PROVE  AccountsIInv'
    <2>1. /\ served[c].phase = "in"
          /\ sessions' = [sessions EXCEPT ![served[c].token] = AdminAccounts!Deleted]
          /\ signedOut' = signedOut \cup {served[c].token}
          /\ served' = [served EXCEPT ![c] = AdminAccounts!Idle]
      BY <1>9 DEF AdminAccounts!Logout, AdminAccounts!Answer
    <2>2. served[c].token \in Tokens
      BY <2>1, CallByPhase DEF AccountsIInv, Inside
    <2>3. SessionsOnlyEnd /\ sessions'[served[c].token] = AdminAccounts!Deleted
      BY <2>1, <2>2, DeletingEnds DEF AccountsIInv
    <2>4. ServedBecomes(c, AdminAccounts!Idle)
      BY <2>1, IdleIsServed DEF ServedBecomes
    <2> QED
      BY <1>1, <2>1, <2>2, <2>3, <2>4, CallStepIInv
  <1>10. ASSUME NEW c \in Served, NEW u \in Users, NEW a \in AdminAccounts!Assignments,
                AdminAccounts!CheckAccount(c, u, a) \/ AdminAccounts!ReadForScope(c, u, a)
                  \/ AdminAccounts!ReadForDeactivation(c, u)
         PROVE  AccountsIInv'
    <2>1. served[c].actor \in Users /\ users[u] \in UserRows
      BY <1>10, CallByPhase DEF AdminAccounts!CheckAccount, AdminAccounts!ReadForScope,
         AdminAccounts!ReadForDeactivation, AdminAccounts!AsNational, AccountsIInv, Inside
    <2>2. CASE AdminAccounts!CheckAccount(c, u, a)
      <3> DEFINE call == [phase |-> "hashed", actor |-> served[c].actor, target |-> u, next |-> a]
      <3>1. a \in ValidAssignments /\ served' = [served EXCEPT ![c] = call]
            /\ UNCHANGED <<users, sessions, signedOut>>
        BY <2>2 DEF AdminAccounts!CheckAccount, ValidAssignments
      <3>2. call \in Creating /\ call.phase = "hashed"
        BY <2>1, <3>1 DEF Creating
      <3> HIDE DEF call
      <3>3. ServedBecomes(c, call)
        BY <3>1, <3>2 DEF ServedBecomes, ServedCalls
      <3> QED
        BY <1>1, <3>1, <3>3, CallStepIInv, NoSessionTouched
    <2>3. CASE AdminAccounts!ReadForScope(c, u, a)
      <3> DEFINE phase == IF users[u].role = "SUPER_ADMIN" /\ a.role # "SUPER_ADMIN"
                          THEN "judging" ELSE "judged"
                 call == [phase |-> phase, kind |-> "scope", actor |-> served[c].actor, target |-> u,
                          next |-> a, seen |-> users[u]]
      <3>1. a \in ValidAssignments /\ served' = [served EXCEPT ![c] = call]
            /\ UNCHANGED <<users, sessions, signedOut>> /\ Known(u)
        BY <2>3 DEF AdminAccounts!ReadForScope, AdminAccounts!Another, ValidAssignments, Known
      <3>2. phase \in {"judging", "judged"}
        OBVIOUS
      <3> HIDE DEF phase
      <3>3. call \in Rescoping /\ call.phase # "verified" /\ call.target = u
        BY <2>1, <3>1, <3>2 DEF Rescoping
      <3> HIDE DEF call
      <3>4. ServedBecomes(c, call)
        BY <3>1, <3>3 DEF ServedBecomes, ServedCalls
      <3> QED
        BY <1>1, <3>1, <3>4, CallStepIInv, NoSessionTouched
    <2>4. CASE AdminAccounts!ReadForDeactivation(c, u)
      <3> DEFINE call == [phase |-> "judging", kind |-> "deactivate", actor |-> served[c].actor,
                          target |-> u, seen |-> users[u]]
      <3>1. served' = [served EXCEPT ![c] = call] /\ UNCHANGED <<users, sessions, signedOut>> /\ Known(u)
        BY <2>4 DEF AdminAccounts!ReadForDeactivation, AdminAccounts!Another, Known
      <3>2. call \in Deactivating /\ call.phase # "verified" /\ call.target = u
        BY <2>1, <3>1 DEF Deactivating
      <3> HIDE DEF call
      <3>3. ServedBecomes(c, call)
        BY <3>1, <3>2 DEF ServedBecomes, ServedCalls
      <3> QED
        BY <1>1, <3>1, <3>3, CallStepIInv, NoSessionTouched
    <2> QED
      BY <1>10, <2>2, <2>3, <2>4
  <1>11. ASSUME NEW c \in Served, AdminAccounts!CreateAccount(c) \/ AdminAccounts!ChangeScope(c)
         PROVE  AccountsIInv'
    <2>1. ServedBecomes(c, AdminAccounts!Idle) /\ UNCHANGED <<sessions, signedOut>>
      BY <1>11, IdleIsServed DEF AdminAccounts!CreateAccount, AdminAccounts!ChangeScope,
         AdminAccounts!Answer, ServedBecomes
    <2> QED
      BY <1>1, <2>1, CallStepIInv, NoSessionTouched
  <1>12. ASSUME NEW c \in Served, AdminAccounts!Deactivate(c)
         PROVE  AccountsIInv'
    <2>1. ServedBecomes(c, AdminAccounts!Idle) /\ UNCHANGED signedOut
      BY <1>12, IdleIsServed DEF AdminAccounts!Deactivate, AdminAccounts!Answer, ServedBecomes
    <2>2. SessionsOnlyEnd
      BY <1>12, EndingEnds, NoSessionTouched DEF AdminAccounts!Deactivate
    <2> QED
      BY <1>1, <2>1, <2>2, CallStepIInv
  <1>13. ASSUME NEW c \in Served, AdminAccounts!Judge(c)
         PROVE  AccountsIInv'
    <2> DEFINE call == [served[c] EXCEPT !.phase = "judged"]
    <2>1. served[c].phase = "judging" /\ UNCHANGED <<users, sessions, signedOut>>
          /\ (served' = [served EXCEPT ![c] = AdminAccounts!Idle] \/ served' = [served EXCEPT ![c] = call])
      BY <1>13 DEF AdminAccounts!Judge, AdminAccounts!Answer
    <2>2. served[c] \in Rescoping \cup Deactivating /\ Known(served[c].target)
      BY <2>1, CallByPhase DEF AccountsIInv
    <2>3. /\ call \in Rescoping \cup Deactivating
          /\ call.target = served[c].target /\ call.phase = "judged"
      BY <2>2 DEF Rescoping, Deactivating
    <2> HIDE DEF call
    <2>4. CASE served' = [served EXCEPT ![c] = AdminAccounts!Idle]
      <3>1. ServedBecomes(c, AdminAccounts!Idle)
        BY <2>4, IdleIsServed DEF ServedBecomes
      <3> QED
        BY <1>1, <2>1, <3>1, CallStepIInv, NoSessionTouched
    <2>5. CASE served' = [served EXCEPT ![c] = call]
      <3>1. ServedBecomes(c, call)
        BY <2>2, <2>3, <2>5 DEF ServedBecomes, ServedCalls
      <3> QED
        BY <1>1, <2>1, <3>1, CallStepIInv, NoSessionTouched
    <2> QED
      BY <2>1, <2>4, <2>5
  <1>14. ASSUME NEW c \in Served, NEW u \in Users, AdminAccounts!ReadForDeactivation(c, u)
         PROVE  AccountsIInv'
    <2>1. AdminAccounts!National \in AdminAccounts!Assignments
      BY NationalIsAssigned DEF ValidAssignments
    <2> QED
      BY <1>10, <1>14, <2>1
  <1> QED
    BY <1>2, <1>3, <1>4, <1>5, <1>6, <1>7, <1>8, <1>9, <1>10, <1>11, <1>12, <1>13, <1>14
    DEF AdminAccounts!Next

LEMMA AccountsInit == AccessAssumption /\ AdminAccounts!Init => AccountsIInv
  <1> SUFFICES ASSUME AdminAccounts!Init PROVE AccountsIInv
    OBVIOUS
  <1>1. /\ users \in [Users -> UserRows] /\ sessions \in [Tokens -> SessionRows]
        /\ served \in [Served -> ServedCalls] /\ signedOut = {}
    BY DEF AdminAccounts!Init, UserRows, SessionRows, ServedCalls
  <1>2. \A t \in Tokens : ~ AdminAccounts!Live(t)
    BY DEF AdminAccounts!Init, AdminAccounts!Live, AdminAccounts!Fresh
  <1>3. \A c \in Served : served[c].phase = "idle"
    BY DEF AdminAccounts!Init, AdminAccounts!Idle
  <1> QED
    BY <1>1, <1>2, <1>3 DEF AccountsIInv

LEMMA AccountsInvariance == AdminAccounts!Spec => []AccountsIInv
  <1> QED
    BY AccountsInit, AccountsStepIInv, AccessAssumption, PTL DEF AdminAccounts!Spec

LEMMA AccountsAreTyped == AccountsIInv => AdminAccounts!TypeOK
  <1> SUFFICES ASSUME AccountsIInv PROVE AdminAccounts!TypeOK
    OBVIOUS
  <1>1. ASSUME NEW u \in Users
        PROVE  users[u] = AdminAccounts!NoAccount
                 \/ (users[u].active \in BOOLEAN /\ AdminAccounts!LegalReach(users[u]))
    BY DEF AccountsIInv, UserRows, AccountRows
  <1>2. ASSUME NEW t \in Tokens
        PROVE  \/ sessions[t] \in {AdminAccounts!Fresh, AdminAccounts!Deleted}
               \/ AdminAccounts!Live(t) /\ users[sessions[t].user] # AdminAccounts!NoAccount
    BY SessionByState DEF AccountsIInv, AdminAccounts!Live, Known
  <1>3. ASSUME NEW t \in signedOut PROVE sessions[t] = AdminAccounts!Deleted
    BY DEF AccountsIInv
  <1> QED
    BY <1>1, <1>2, <1>3 DEF AdminAccounts!TypeOK

\* A call gets in only with a session that is live, of an account that is active.
LEMMA OnlyTheActiveGetIn ==
  ASSUME AccountsIInv, [AdminAccounts!Next]_(AdminAccounts!vars), NEW c \in Served,
         served[c] = AdminAccounts!Idle, served'[c].phase = "in"
  PROVE  users[served'[c].actor].active /\ served'[c].token \notin signedOut
  <1> DEFINE In(d, t) ==
        LET u == sessions[t].user IN
        [phase |-> "in", actor |-> u, token |-> t,
         as |-> [role |-> users[u].role, wilaya |-> users[u].wilaya, commune |-> users[u].commune]]
  <1>1. ASSUME NEW d \in Served, NEW call, served' = [served EXCEPT ![d] = call], call.phase # "in"
        PROVE  FALSE
    BY <1>1, IdleIsServed DEF AccountsIInv
  <1>2. CASE served' = served
    BY <1>2, IdleIsServed
  <1>3. ASSUME NEW d \in Served, NEW t \in Tokens, AdminAccounts!Authenticate(d, t)
        PROVE  users[served'[c].actor].active /\ served'[c].token \notin signedOut
    <2> DEFINE call == In(d, t)
    <2>1. served' = [served EXCEPT ![d] = call]
      BY <1>3 DEF AdminAccounts!Authenticate
    <2>2. call.actor = sessions[t].user /\ call.token = t
      OBVIOUS
    <2>3. users[sessions[t].user].active /\ sessions[t].state = "live"
      BY <1>3 DEF AdminAccounts!Authenticate, AdminAccounts!Accepted
    <2> HIDE DEF call
    <2>4. served'[c] = call
      BY <2>1, IdleIsServed DEF AccountsIInv
    <2>5. t \notin signedOut
      BY <2>3 DEF AccountsIInv, AdminAccounts!Deleted
    <2> QED
      BY <2>2, <2>3, <2>4, <2>5
  <1>4. ASSUME NEW d \in Served, NEW u \in Users, NEW a \in AdminAccounts!Assignments,
               \/ AdminAccounts!CheckAccount(d, u, a) \/ AdminAccounts!ReadForScope(d, u, a)
        PROVE  FALSE
    <2>1. CASE AdminAccounts!CheckAccount(d, u, a)
      <3> DEFINE call == [phase |-> "hashed", actor |-> served[d].actor, target |-> u, next |-> a]
      <3>1. served' = [served EXCEPT ![d] = call] /\ call.phase # "in"
        BY <2>1 DEF AdminAccounts!CheckAccount
      <3> HIDE DEF call
      <3> QED
        BY <1>1, <3>1
    <2>2. CASE AdminAccounts!ReadForScope(d, u, a)
      <3> DEFINE call ==
            [phase |-> IF users[u].role = "SUPER_ADMIN" /\ a.role # "SUPER_ADMIN" THEN "judging" ELSE "judged",
             kind |-> "scope", actor |-> served[d].actor, target |-> u, next |-> a, seen |-> users[u]]
      <3>1. served' = [served EXCEPT ![d] = call] /\ call.phase # "in"
        BY <2>2 DEF AdminAccounts!ReadForScope
      <3> HIDE DEF call
      <3> QED
        BY <1>1, <3>1
    <2> QED
      BY <1>4, <2>1, <2>2
  <1>5. ASSUME NEW d \in Served, NEW u \in Users,
               AdminAccounts!VerifyCredentials(d, u) \/ AdminAccounts!ReadForDeactivation(d, u)
        PROVE  FALSE
    <2>1. CASE AdminAccounts!VerifyCredentials(d, u)
      <3> DEFINE call == [phase |-> "verified", actor |-> u]
      <3>1. served' = [served EXCEPT ![d] = call] /\ call.phase # "in"
        BY <2>1 DEF AdminAccounts!VerifyCredentials
      <3> HIDE DEF call
      <3> QED
        BY <1>1, <3>1
    <2>2. CASE AdminAccounts!ReadForDeactivation(d, u)
      <3> DEFINE call == [phase |-> "judging", kind |-> "deactivate", actor |-> served[d].actor,
                          target |-> u, seen |-> users[u]]
      <3>1. served' = [served EXCEPT ![d] = call] /\ call.phase # "in"
        BY <2>2 DEF AdminAccounts!ReadForDeactivation
      <3> HIDE DEF call
      <3> QED
        BY <1>1, <3>1
    <2> QED
      BY <1>5, <2>1, <2>2
  <1>6. ASSUME NEW d \in Served, served' = [served EXCEPT ![d] = AdminAccounts!Idle]
        PROVE  FALSE
    BY <1>1, <1>6, IdleIsServed
  <1>7. ASSUME NEW d \in Served,
               \/ AdminAccounts!Logout(d) \/ AdminAccounts!CreateAccount(d)
               \/ AdminAccounts!ChangeScope(d) \/ AdminAccounts!Deactivate(d)
               \/ \E t \in Tokens : AdminAccounts!StartSession(d, t)
        PROVE  FALSE
    BY <1>6, <1>7 DEF AdminAccounts!Logout, AdminAccounts!CreateAccount, AdminAccounts!ChangeScope,
       AdminAccounts!Deactivate, AdminAccounts!StartSession, AdminAccounts!Answer
  <1>8. ASSUME NEW d \in Served, AdminAccounts!Judge(d)
        PROVE  FALSE
    <2> DEFINE call == [served[d] EXCEPT !.phase = "judged"]
    <2>1. served[d].phase = "judging"
          /\ (served' = [served EXCEPT ![d] = AdminAccounts!Idle] \/ served' = [served EXCEPT ![d] = call])
      BY <1>8 DEF AdminAccounts!Judge, AdminAccounts!Answer
    <2>2. call.phase = "judged"
      BY <2>1, CallByPhase DEF AccountsIInv, Rescoping, Deactivating
    <2> HIDE DEF call
    <2> QED
      BY <1>1, <1>6, <2>1, <2>2
  <1>9. CASE \/ UNCHANGED AdminAccounts!vars
             \/ \E u \in Users : AdminAccounts!Bootstrap(u)
             \/ \E t \in Tokens : AdminAccounts!Expire(t)
             \/ \E d \in Served, t \in Tokens : AdminAccounts!RefuseSession(d, t)
    BY <1>2, <1>9 DEF AdminAccounts!vars, AdminAccounts!Bootstrap, AdminAccounts!Expire,
       AdminAccounts!RefuseSession
  <1> QED
    BY <1>3, <1>4, <1>5, <1>7, <1>8, <1>9 DEF AdminAccounts!Next

\* The accounts as a whole, in production, for any users, wilayas, sessions and calls.
LEMMA AccountsKeepTheirWord ==
  ASSUME Production
  PROVE  AdminAccounts!Spec => /\ AdminAccounts!OnlySignedIn /\ AdminAccounts!DisabledForGood
                               /\ []AdminAccounts!TypeOK
  <1> DEFINE GetIn == \A c \in Served :
               served[c] = AdminAccounts!Idle /\ served'[c].phase = "in" =>
                 users[served'[c].actor].active /\ served'[c].token \notin signedOut
             Stay == \A u \in Users :
               users[u] # AdminAccounts!NoAccount /\ ~ users[u].active => ~ users'[u].active
  <1>1. AccountsIInv /\ [AdminAccounts!Next]_(AdminAccounts!vars)
          => [GetIn]_(AdminAccounts!vars) /\ [Stay]_(AdminAccounts!vars)
    BY OnlyTheActiveGetIn, AccountsStay, AccessAssumption DEF Known
  <1> HIDE DEF GetIn, Stay
  <1>2. AdminAccounts!Spec => [][GetIn]_(AdminAccounts!vars) /\ [][Stay]_(AdminAccounts!vars)
    BY <1>1, AccountsInvariance, PTL DEF AdminAccounts!Spec
  <1>3. AdminAccounts!Spec => AdminAccounts!OnlySignedIn /\ AdminAccounts!DisabledForGood
    BY <1>2 DEF GetIn, Stay, AdminAccounts!OnlySignedIn, AdminAccounts!DisabledForGood
  <1>4. AdminAccounts!Spec => []AdminAccounts!TypeOK
    BY AccountsInvariance, AccountsAreTyped, PTL
  <1> QED
    BY <1>3, <1>4

------------------------------------------------------------------------------
(* SignIn: the browser that is told it is signed out.                       *)

HasEnded(token, rows) == token \in Cookies /\ rows[token] # Null /\ ~ rows[token].live

\* What an answer on its way has in it.
RequestOK(kind, r, rows) ==
  r # Null =>
    /\ r \in SignIn!Requests
    /\ kind = "me" /\ r.answer = "ok" => r.gets \in Accounts
    /\ kind = "login" /\ r.answer = "ok" => r.user \in Accounts /\ r.gets \in Cookies
    /\ kind = "logout" /\ r.answer = "ok" => HasEnded(r.token, rows)

TabRows ==
  {row \in [status : SignIn!Statuses, user : Accounts \cup {Null}] :
     row.status = "authenticated" <=> row.user # Null}

RequestTypes == [Tabs -> [SignIn!Kinds -> SignIn!Requests \cup {Null}]]

SessionTypes == [Cookies -> SignIn!Sessions \cup {Null}]

\* Every token a browser was told is signed out is one of a session that has ended.
SignInIInv ==
  /\ cookie \in Cookies \cup {Null}
  /\ session \in SessionTypes
  /\ tab \in [Tabs -> TabRows]
  /\ sent \in RequestTypes
  /\ \A t \in Tabs, kind \in SignIn!Kinds : RequestOK(kind, sent[t][kind], session)
  /\ \A token \in told : HasEnded(token, session)

SignInNull ==
  /\ Null \notin Cookies \cup Accounts \cup SignIn!Answers \cup SignIn!Sessions \cup SignIn!Requests
  /\ MaxAttempts \in Nat /\ MayFail \in BOOLEAN

LEMMA SignInConstants == AccessAssumption => SignInNull
  BY DEF AccessAssumption, SignIn!SignInAssumption, SignInNull

\* One request on its way is another, or none.
OneRequest(t, kind, r) ==
  /\ sent' \in RequestTypes /\ sent'[t][kind] = r
  /\ \A s \in Tabs, k \in SignIn!Kinds : s # t \/ k # kind => sent'[s][k] = sent[s][k]

LEMMA RequestIsPut ==
  ASSUME SignInIInv, NEW t \in Tabs, NEW kind \in SignIn!Kinds, NEW r \in SignIn!Requests \cup {Null},
         sent' = [sent EXCEPT ![t][kind] = r]
  PROVE  OneRequest(t, kind, r)
  BY DEF SignInIInv, OneRequest, RequestTypes

LEMMA ReplyIsPut ==
  ASSUME SignInIInv, NEW t \in Tabs, NEW kind \in SignIn!Kinds, sent[t][kind] # Null,
         NEW answer \in SignIn!Answers, NEW gets \in Cookies \cup Accounts \cup {Null},
         SignIn!Reply(t, kind, answer, gets)
  PROVE  \E r \in SignIn!Requests :
           /\ OneRequest(t, kind, r) /\ r.answer = answer /\ r.gets = gets
           /\ r.token = sent[t][kind].token /\ r.user = sent[t][kind].user
  <1> DEFINE q == sent[t][kind]
             r == [q EXCEPT !.answer = answer, !.gets = gets]
  <1>1. q \in SignIn!Requests
    BY DEF SignInIInv, RequestTypes
  <1>2. r \in SignIn!Requests /\ r.answer = answer /\ r.gets = gets /\ r.token = q.token
        /\ r.user = q.user
    BY <1>1 DEF SignIn!Requests
  <1>3. sent' = [sent EXCEPT ![t] = [sent[t] EXCEPT ![kind] = r]]
    BY DEF SignIn!Reply, SignInIInv, RequestTypes
  <1> HIDE DEF r
  <1>4. OneRequest(t, kind, r)
    BY <1>2, <1>3, RequestIsPut
  <1> QED
    BY <1>2, <1>4

\* Sessions go on, end, or begin for a token that was never given out.
SessionsGoOn ==
  /\ session' \in SessionTypes
  /\ \A token : HasEnded(token, session) => HasEnded(token, session')

LEMMA SessionsMayStay == SignInIInv /\ UNCHANGED session => SessionsGoOn
  BY DEF SignInIInv, SessionsGoOn

LEMMA SessionEnds ==
  ASSUME AccessAssumption, SignInIInv, NEW token \in Cookies, SignIn!Live(token),
         session' = [session EXCEPT ![token].live = FALSE]
  PROVE  SessionsGoOn /\ HasEnded(token, session')
  <1>1. session[token] \in SignIn!Sessions
    BY DEF SignInIInv, SessionTypes, SignIn!Live
  <1> DEFINE row == [session[token] EXCEPT !.live = FALSE]
  <1>2. row \in SignIn!Sessions /\ ~ row.live /\ row # Null
    BY <1>1, SignInConstants DEF SignIn!Sessions, SignInNull
  <1>3. session' = [session EXCEPT ![token] = row]
    OBVIOUS
  <1> HIDE DEF row
  <1>4. /\ session' \in SessionTypes /\ session'[token] = row
        /\ \A s \in Cookies : s # token => session'[s] = session[s]
    BY <1>2, <1>3 DEF SignInIInv, SessionTypes
  <1> QED
    BY <1>2, <1>4 DEF SessionsGoOn, HasEnded

LEMMA SessionBegins ==
  ASSUME AccessAssumption, SignInIInv, NEW token \in Cookies, session[token] = Null, NEW user \in Accounts,
         session' = [session EXCEPT ![token] = [user |-> user, live |-> TRUE]]
  PROVE  SessionsGoOn
  <1> DEFINE row == [user |-> user, live |-> TRUE]
  <1>1. row \in SignIn!Sessions
    BY DEF SignIn!Sessions
  <1> HIDE DEF row
  <1>2. /\ session' \in SessionTypes
        /\ \A s \in Cookies : s # token => session'[s] = session[s]
    BY <1>1 DEF SignInIInv, SessionTypes, row
  <1> QED
    BY <1>2 DEF SessionsGoOn, HasEnded

\* A step about one request keeps the invariant when what it leaves on its way is sound.
LEMMA RequestStepIInv ==
  ASSUME SignInIInv, SessionsGoOn, NEW t \in Tabs, NEW kind \in SignIn!Kinds, NEW r,
         OneRequest(t, kind, r), RequestOK(kind, r, session'),
         cookie' \in Cookies \cup {Null}, tab' \in [Tabs -> TabRows],
         \A token \in told' : token \in told \/ HasEnded(token, session')
  PROVE  SignInIInv'
  <1>1. \A s \in Tabs, k \in SignIn!Kinds : RequestOK(k, sent'[s][k], session')
    <2> SUFFICES ASSUME NEW s \in Tabs, NEW k \in SignIn!Kinds PROVE RequestOK(k, sent'[s][k], session')
      OBVIOUS
    <2>1. CASE s = t /\ k = kind
      BY <2>1 DEF OneRequest
    <2>2. CASE s # t \/ k # kind
      <3>1. sent'[s][k] = sent[s][k] /\ RequestOK(k, sent[s][k], session)
        BY <2>2 DEF OneRequest, SignInIInv
      <3>2. RequestOK(k, sent[s][k], session')
        BY <3>1 DEF RequestOK, SessionsGoOn
      <3> QED
        BY <3>1, <3>2
    <2> QED
      BY <2>1, <2>2
  <1>2. \A token \in told' : HasEnded(token, session')
    BY DEF SignInIInv, SessionsGoOn
  <1> QED
    BY <1>1, <1>2 DEF SignInIInv, SessionsGoOn, OneRequest

LEMMA TabsOfSignIn ==
  ASSUME AccessAssumption, SignInIInv, NEW t \in Tabs
  PROVE  /\ \A user \in Accounts : SignIn!SignedIn(t, user) => tab' \in [Tabs -> TabRows]
         /\ SignIn!SignedOut(t) => tab' \in [Tabs -> TabRows]
         /\ tab' = [tab EXCEPT ![t] = [status |-> "checking", user |-> Null]] => tab' \in [Tabs -> TabRows]
  <1>1. \A user \in Accounts : [status |-> "authenticated", user |-> user] \in TabRows
    BY SignInConstants DEF TabRows, SignIn!Statuses, SignInNull
  <1>2. /\ [status |-> "unauthenticated", user |-> Null] \in TabRows
        /\ [status |-> "checking", user |-> Null] \in TabRows
    BY DEF TabRows, SignIn!Statuses
  <1> QED
    BY <1>1, <1>2 DEF SignInIInv, SignIn!SignedIn, SignIn!SignedOut

LEMMA SendIsSound ==
  ASSUME AccessAssumption, SignInIInv, NEW t \in Tabs, NEW kind \in SignIn!Kinds,
         NEW user \in Accounts \cup {Null}, SignIn!Send(t, kind, user), NEW rows
  PROVE  \E r \in SignIn!Requests :
           /\ OneRequest(t, kind, r) /\ RequestOK(kind, r, rows) /\ ~ r.admitted /\ r.answer = Null
  <1> DEFINE r == SignIn!Request(cookie, user)
  <1>1. r \in SignIn!Requests /\ ~ r.admitted /\ r.answer = Null
    BY DEF SignIn!Request, SignIn!Requests, SignInIInv
  <1>2. sent' = [sent EXCEPT ![t][kind] = r]
    BY DEF SignIn!Send
  <1> HIDE DEF r
  <1>3. OneRequest(t, kind, r)
    BY <1>1, <1>2, RequestIsPut
  <1>4. Null # "ok"
    BY SignInConstants DEF SignInNull, SignIn!Answers
  <1> QED
    BY <1>1, <1>3, <1>4 DEF RequestOK

LEMMA ArrivalIsSound ==
  ASSUME SignInIInv, NEW t \in Tabs, NEW kind \in SignIn!Kinds, SignIn!Arrives(t, kind), NEW rows
  PROVE  OneRequest(t, kind, Null) /\ RequestOK(kind, Null, rows)
  BY RequestIsPut DEF SignIn!Arrives, RequestOK

LEMMA KindsOfRequest == {"me", "login", "logout", "call"} \subseteq SignIn!Kinds
  BY DEF SignIn!Kinds

\* An attempt that has been counted and not yet been judged.
StillAsking(r) == r # Null /\ r.admitted /\ r.answer = Null

Admitted == {t \in Tabs : StillAsking(sent[t]["login"])}

\* Each attempt that is counted is a wrong password that was checked, or not judged yet,
\* or lost.
CountIInv ==
  /\ hits \in Nat /\ wrong \in Nat /\ hits <= MaxAttempts
  /\ IsFiniteSet(Admitted)
  /\ wrong + Cardinality(Admitted) <= hits
  /\ ~ MayFail => hits = wrong + Cardinality(Admitted)

LEMMA CountStays ==
  ASSUME CountIInv, NEW t \in Tabs, NEW kind, NEW r, OneRequest(t, kind, r),
         "login" \in SignIn!Kinds, UNCHANGED <<hits, wrong>>,
         kind # "login" \/ (StillAsking(r) <=> StillAsking(sent[t]["login"]))
  PROVE  CountIInv'
  <1>1. \A s \in Tabs : StillAsking(sent'[s]["login"]) <=> StillAsking(sent[s]["login"])
    BY DEF OneRequest
  <1>2. Admitted' = Admitted
    BY <1>1 DEF Admitted, StillAsking
  <1> QED
    BY <1>2 DEF CountIInv

LEMMA OneAdmittedLess ==
  ASSUME CountIInv, NEW t \in Tabs, NEW r, OneRequest(t, "login", r), "login" \in SignIn!Kinds,
         StillAsking(sent[t]["login"]), ~ StillAsking(r)
  PROVE  /\ IsFiniteSet(Admitted') /\ Cardinality(Admitted') = Cardinality(Admitted) - 1
         /\ Cardinality(Admitted') \in Nat /\ Cardinality(Admitted) \in Nat
  <1>1. Admitted' = Admitted \ {t} /\ t \in Admitted
    BY DEF OneRequest, Admitted, StillAsking
  <1>2. IsFiniteSet(Admitted)
    BY DEF CountIInv
  <1>3. IsFiniteSet(Admitted \ {t}) /\ Cardinality(Admitted \ {t}) = Cardinality(Admitted) - 1
    BY <1>1, <1>2, FS_RemoveElement
  <1> QED
    BY <1>1, <1>2, <1>3, FS_CardinalityType

LEMMA OneAdmittedMore ==
  ASSUME CountIInv, NEW t \in Tabs, NEW r, OneRequest(t, "login", r), "login" \in SignIn!Kinds,
         ~ StillAsking(sent[t]["login"]), StillAsking(r)
  PROVE  /\ IsFiniteSet(Admitted') /\ Cardinality(Admitted') = Cardinality(Admitted) + 1
         /\ Cardinality(Admitted') \in Nat /\ Cardinality(Admitted) \in Nat
  <1>1. Admitted' = Admitted \cup {t} /\ t \notin Admitted
    BY DEF OneRequest, Admitted, StillAsking
  <1>2. IsFiniteSet(Admitted)
    BY DEF CountIInv
  <1>3. IsFiniteSet(Admitted \cup {t}) /\ Cardinality(Admitted \cup {t}) = Cardinality(Admitted) + 1
    BY <1>1, <1>2, FS_AddElement
  <1> QED
    BY <1>1, <1>2, <1>3, FS_CardinalityType

SignInInv == SignInIInv /\ CountIInv

LEMMA NullIsNoAnswer == AccessAssumption => Null \notin {"ok", "refused", "tooMany", "error"}
  BY SignInConstants DEF SignInNull, SignIn!Answers

LEMMA SendInv ==
  ASSUME AccessAssumption, SignInInv, NEW t \in Tabs, NEW kind \in SignIn!Kinds,
         NEW user \in Accounts \cup {Null}, sent[t][kind] = Null, SignIn!Send(t, kind, user),
         tab' \in [Tabs -> TabRows], UNCHANGED <<cookie, session, hits, wrong, told>>
  PROVE  SignInInv'
  <1>1. PICK r \in SignIn!Requests :
          OneRequest(t, kind, r) /\ RequestOK(kind, r, session') /\ ~ r.admitted
    BY SendIsSound DEF SignInInv
  <1>2. SignInIInv'
    BY <1>1, SessionsMayStay, RequestStepIInv DEF SignInInv, SignInIInv
  <1>3. CountIInv'
    BY <1>1, KindsOfRequest, CountStays DEF SignInInv, StillAsking
  <1> QED
    BY <1>2, <1>3 DEF SignInInv

LEMMA BrowserAsks ==
  ASSUME AccessAssumption, SignInInv, NEW t \in Tabs,
         \/ SignIn!Open(t) \/ SignIn!SubmitLogout(t) \/ SignIn!Call(t)
         \/ \E user \in Accounts \cup {Null} : SignIn!SubmitLogin(t, user)
  PROVE  SignInInv'
  <1> USE KindsOfRequest
  <1>1. CASE SignIn!Open(t)
    <2>1. sent[t]["me"] = Null /\ SignIn!Send(t, "me", Null) /\ UNCHANGED <<cookie, session, hits, wrong, told>>
      BY <1>1 DEF SignIn!Open, SignIn!Idle
    <2>2. tab' \in [Tabs -> TabRows]
      BY <1>1, TabsOfSignIn DEF SignIn!Open, SignInInv
    <2> QED
      BY <2>1, <2>2, SendInv
  <1>2. CASE SignIn!SubmitLogout(t)
    BY <1>2, SendInv DEF SignIn!SubmitLogout, SignInInv, SignInIInv
  <1>3. CASE SignIn!Call(t)
    BY <1>3, SendInv DEF SignIn!Call, SignInInv, SignInIInv
  <1>4. CASE \E user \in Accounts \cup {Null} : SignIn!SubmitLogin(t, user)
    BY <1>4, SendInv DEF SignIn!SubmitLogin, SignInInv, SignInIInv
  <1> QED
    BY <1>1, <1>2, <1>3, <1>4

\* An answer is written under a request that keeps its sessions.
LEMMA ReplyInv ==
  ASSUME AccessAssumption, SignInInv, SessionsGoOn, NEW t \in Tabs, NEW kind \in SignIn!Kinds,
         sent[t][kind] # Null,
         NEW answer \in SignIn!Answers, NEW gets \in Cookies \cup Accounts \cup {Null},
         SignIn!Reply(t, kind, answer, gets),
         kind = "me" /\ answer = "ok" => gets \in Accounts,
         kind = "login" /\ answer = "ok" => sent[t][kind].user \in Accounts /\ gets \in Cookies,
         kind = "logout" /\ answer = "ok" => HasEnded(sent[t][kind].token, session'),
         UNCHANGED <<cookie, tab, told>>
  PROVE  /\ SignInIInv'
         /\ \E r : OneRequest(t, kind, r) /\ ~ StillAsking(r)
  <1>1. PICK r \in SignIn!Requests :
          /\ OneRequest(t, kind, r) /\ r.answer = answer /\ r.gets = gets
          /\ r.token = sent[t][kind].token /\ r.user = sent[t][kind].user
    BY ReplyIsPut DEF SignInInv
  <1>2. RequestOK(kind, r, session')
    BY <1>1 DEF RequestOK
  <1>3. SignInIInv'
    BY <1>1, <1>2, RequestStepIInv DEF SignInInv, SignInIInv
  <1>4. ~ StillAsking(r)
    BY <1>1, NullIsNoAnswer DEF StillAsking, SignIn!Answers
  <1> QED
    BY <1>1, <1>3, <1>4

LEMMA AdmitInv ==
  ASSUME AccessAssumption, SignInInv, NEW t \in Tabs, SignIn!Admit(t)
  PROVE  SignInInv'
  <1> USE KindsOfRequest
  <1> DEFINE q == sent[t]["login"]
  <1>1. /\ q # Null /\ q.answer = Null /\ ~ q.admitted
        /\ UNCHANGED <<cookie, session, tab, wrong, told>>
    BY DEF SignIn!Admit, SignIn!Waiting
  <1>2. q \in SignIn!Requests /\ RequestOK("login", q, session)
    BY <1>1 DEF SignInInv, SignInIInv, RequestTypes
  <1>3. ~ StillAsking(q)
    BY <1>1 DEF StillAsking
  <1>4. CASE hits < MaxAttempts
    <2> DEFINE r == [q EXCEPT !.admitted = TRUE]
    <2>1. /\ hits' = hits + 1
          /\ sent' = [sent EXCEPT ![t]["login"] = r]
      BY <1>4 DEF SignIn!Admit
    <2>2. r \in SignIn!Requests /\ r.admitted /\ r.answer = Null
      BY <1>1, <1>2 DEF SignIn!Requests
    <2> HIDE DEF r, q
    <2>3. OneRequest(t, "login", r)
      BY <2>1, <2>2, RequestIsPut DEF SignInInv
    <2>4. RequestOK("login", r, session') /\ StillAsking(r)
      BY <2>2, NullIsNoAnswer, SignInConstants DEF RequestOK, StillAsking, SignInNull
    <2>5. SignInIInv'
      BY <1>1, <2>3, <2>4, SessionsMayStay, RequestStepIInv DEF SignInInv, SignInIInv
    <2>6. /\ IsFiniteSet(Admitted') /\ Cardinality(Admitted') = Cardinality(Admitted) + 1
          /\ Cardinality(Admitted) \in Nat
      BY <1>3, <2>3, <2>4, OneAdmittedMore DEF SignInInv, q
    <2>7. CountIInv'
      BY <1>1, <1>4, <2>1, <2>6, SignInConstants DEF SignInInv, CountIInv, SignInNull
    <2> QED
      BY <2>5, <2>7 DEF SignInInv
  <1>5. CASE ~ (hits < MaxAttempts)
    <2>1. SignIn!Reply(t, "login", "tooMany", Null) /\ hits' = hits
      BY <1>5 DEF SignIn!Admit
    <2>2. SignInIInv' /\ \E r : OneRequest(t, "login", r) /\ ~ StillAsking(r)
      BY <1>1, <2>1, SessionsMayStay, ReplyInv DEF SignInInv, SignIn!Answers
    <2>3. CountIInv'
      BY <1>1, <1>3, <2>1, <2>2, CountStays DEF SignInInv
    <2> QED
      BY <2>2, <2>3 DEF SignInInv
  <1> QED
    BY <1>4, <1>5

LEMMA LoginInv ==
  ASSUME AccessAssumption, SignInInv, NEW t \in Tabs, SignIn!Login(t)
  PROVE  SignInInv'
  <1> USE KindsOfRequest
  <1> DEFINE q == sent[t]["login"]
  <1>1. /\ q # Null /\ StillAsking(q) /\ UNCHANGED <<cookie, tab, told>>
    BY DEF SignIn!Login, SignIn!Waiting, StillAsking
  <1>2. q \in SignIn!Requests
    BY <1>1 DEF SignInInv, SignInIInv, RequestTypes
  <1>3. ASSUME SignInIInv', \E r : OneRequest(t, "login", r) /\ ~ StillAsking(r),
               \/ wrong' = wrong + 1 /\ hits' = hits
               \/ wrong' = wrong /\ hits' = hits - 1
        PROVE  SignInInv'
    <2>1. /\ IsFiniteSet(Admitted') /\ Cardinality(Admitted') = Cardinality(Admitted) - 1
          /\ Cardinality(Admitted') \in Nat /\ Cardinality(Admitted) \in Nat
      BY <1>1, <1>3, OneAdmittedLess DEF SignInInv
    <2>2. CountIInv'
      BY <1>3, <2>1, SignInConstants DEF SignInInv, CountIInv, SignInNull
    <2> QED
      BY <1>3, <2>2 DEF SignInInv
  <1>4. CASE q.user = Null
    <2>1. SignIn!Reply(t, "login", "refused", Null) /\ wrong' = wrong + 1 /\ UNCHANGED <<session, hits>>
      BY <1>4 DEF SignIn!Login
    <2>2. SignInIInv' /\ \E r : OneRequest(t, "login", r) /\ ~ StillAsking(r)
      BY <1>1, <2>1, SessionsMayStay, ReplyInv DEF SignInInv, SignIn!Answers
    <2> QED
      BY <1>3, <2>1, <2>2
  <1>5. CASE q.user # Null
    <2>1. PICK token \in {s \in Cookies : session[s] = Null} :
            /\ session' = [session EXCEPT ![token] = [user |-> q.user, live |-> TRUE]]
            /\ SignIn!Reply(t, "login", "ok", token)
            /\ hits' = hits - 1 /\ wrong' = wrong
      BY <1>5 DEF SignIn!Login
    <2>2. q.user \in Accounts
      BY <1>2, <1>5 DEF SignIn!Requests
    <2>3. SessionsGoOn
      BY <2>1, <2>2, SessionBegins DEF SignInInv
    <2>4. SignInIInv' /\ \E r : OneRequest(t, "login", r) /\ ~ StillAsking(r)
      BY <1>1, <2>1, <2>2, <2>3, ReplyInv DEF SignInInv, SignIn!Answers
    <2> QED
      BY <1>3, <2>1, <2>4
  <1> QED
    BY <1>4, <1>5

LEMMA ServeInv ==
  ASSUME AccessAssumption, SignInInv, NEW t \in Tabs, NEW kind \in SignIn!Kinds, SignIn!Serve(t, kind)
  PROVE  SignInInv'
  <1> DEFINE token == sent[t][kind].token
  <1>1. /\ kind \in {"me", "call"} /\ sent[t][kind] # Null
        /\ UNCHANGED <<cookie, session, tab, hits, wrong, told>>
    BY DEF SignIn!Serve, SignIn!Waiting
  <1>2. PICK answer \in {"ok", "refused"}, gets \in Accounts \cup {Null} :
          SignIn!Reply(t, kind, answer, gets) /\ (answer = "ok" => gets \in Accounts)
    <2>1. CASE SignIn!Live(token)
      <3>1. sent[t][kind] \in SignIn!Requests
        BY <1>1 DEF SignInInv, SignInIInv, RequestTypes
      <3>2. token \in Cookies /\ session[token] # Null
        BY <2>1, <3>1 DEF SignIn!Live, SignIn!Requests
      <3>3. session[token].user \in Accounts
        BY <3>2 DEF SignInInv, SignInIInv, SessionTypes, SignIn!Sessions
      <3>4. SignIn!Reply(t, kind, "ok", session[token].user)
        BY <2>1 DEF SignIn!Serve
      <3> QED
        BY <3>3, <3>4
    <2>2. CASE ~ SignIn!Live(token)
      BY <2>2 DEF SignIn!Serve
    <2> QED
      BY <2>1, <2>2
  <1>3. SignInIInv' /\ \E r : OneRequest(t, kind, r) /\ ~ StillAsking(r)
    BY <1>1, <1>2, SessionsMayStay, ReplyInv DEF SignInInv, SignIn!Answers
  <1>4. CountIInv'
    BY <1>1, <1>3, KindsOfRequest, CountStays DEF SignInInv
  <1> QED
    BY <1>3, <1>4 DEF SignInInv

LEMMA LogoutInv ==
  ASSUME AccessAssumption, SignInInv, NEW t \in Tabs, SignIn!Logout(t)
  PROVE  SignInInv'
  <1> USE KindsOfRequest
  <1> DEFINE token == sent[t]["logout"].token
  <1>1. sent[t]["logout"] # Null /\ UNCHANGED <<cookie, tab, hits, wrong, told>>
    BY DEF SignIn!Logout, SignIn!Waiting
  <1>2. SignInIInv' /\ \E r : OneRequest(t, "logout", r) /\ ~ StillAsking(r)
    <2>1. CASE SignIn!Live(token)
      <3>1. sent[t]["logout"] \in SignIn!Requests
        BY <1>1 DEF SignInInv, SignInIInv, RequestTypes
      <3>2. token \in Cookies
        BY <2>1, <3>1 DEF SignIn!Live, SignIn!Requests
      <3>3. SignIn!Reply(t, "logout", "ok", Null) /\ session' = [session EXCEPT ![token].live = FALSE]
        BY <2>1 DEF SignIn!Logout
      <3>4. SessionsGoOn /\ HasEnded(token, session')
        BY <2>1, <3>2, <3>3, SessionEnds DEF SignInInv
      <3> QED
        BY <1>1, <3>3, <3>4, ReplyInv DEF SignIn!Answers
    <2>2. CASE ~ SignIn!Live(token)
      <3>1. SignIn!Reply(t, "logout", "refused", Null) /\ UNCHANGED session
        BY <2>2 DEF SignIn!Logout
      <3> QED
        BY <1>1, <3>1, SessionsMayStay, ReplyInv DEF SignInInv, SignIn!Answers
    <2> QED
      BY <2>1, <2>2
  <1>3. CountIInv'
    BY <1>1, <1>2, CountStays DEF SignInInv
  <1> QED
    BY <1>2, <1>3 DEF SignInInv

LEMMA LoseInv ==
  ASSUME AccessAssumption, SignInInv, NEW t \in Tabs, NEW kind \in SignIn!Kinds, SignIn!Lose(t, kind)
  PROVE  SignInInv'
  <1>1. /\ MayFail /\ sent[t][kind] # Null /\ SignIn!Reply(t, kind, "error", Null)
        /\ UNCHANGED <<cookie, session, tab, hits, wrong, told>>
    BY DEF SignIn!Lose
  <1>2. SignInIInv' /\ \E r : OneRequest(t, kind, r) /\ ~ StillAsking(r)
    BY <1>1, SessionsMayStay, ReplyInv DEF SignInInv, SignIn!Answers
  <1>3. CASE kind # "login" \/ ~ StillAsking(sent[t]["login"])
    BY <1>1, <1>2, <1>3, KindsOfRequest, CountStays DEF SignInInv
  <1>4. CASE kind = "login" /\ StillAsking(sent[t]["login"])
    <2>1. /\ IsFiniteSet(Admitted') /\ Cardinality(Admitted') = Cardinality(Admitted) - 1
          /\ Cardinality(Admitted') \in Nat /\ Cardinality(Admitted) \in Nat
      BY <1>2, <1>4, KindsOfRequest, OneAdmittedLess DEF SignInInv
    <2>2. CountIInv'
      BY <1>1, <2>1, SignInConstants DEF SignInInv, CountIInv, SignInNull
    <2> QED
      BY <1>2, <2>2 DEF SignInInv
  <1> QED
    BY <1>2, <1>3, <1>4 DEF SignInInv

\* An answer that has arrived leaves nothing on its way.
LEMMA ArrivesInv ==
  ASSUME AccessAssumption, SignInInv, NEW t \in Tabs, NEW kind \in SignIn!Kinds,
         SignIn!Arrives(t, kind), sent[t][kind].answer # Null,
         cookie' \in Cookies \cup {Null}, tab' \in [Tabs -> TabRows],
         \A token \in told' : token \in told \/ HasEnded(token, session'),
         UNCHANGED <<session, hits, wrong>>
  PROVE  SignInInv'
  <1>1. OneRequest(t, kind, Null) /\ RequestOK(kind, Null, session') /\ ~ StillAsking(Null)
    BY ArrivalIsSound DEF SignInInv, StillAsking
  <1>2. SignInIInv'
    BY <1>1, SessionsMayStay, RequestStepIInv DEF SignInInv
  <1>3. CountIInv'
    BY <1>1, KindsOfRequest, CountStays DEF SignInInv, StillAsking
  <1> QED
    BY <1>2, <1>3 DEF SignInInv

LEMMA AnswersArrive ==
  ASSUME AccessAssumption, SignInInv, NEW t \in Tabs,
         SignIn!Checked(t) \/ SignIn!LoggedIn(t) \/ SignIn!LoggedOut(t) \/ SignIn!Returned(t)
  PROVE  SignInInv'
  <1> USE KindsOfRequest
  <1>1. \A kind \in SignIn!Kinds : sent[t][kind] # Null => RequestOK(kind, sent[t][kind], session)
    BY DEF SignInInv, SignInIInv
  <1>2. cookie \in Cookies \cup {Null} /\ tab \in [Tabs -> TabRows]
    BY DEF SignInInv, SignInIInv
  <1>3. CASE SignIn!Checked(t)
    <2>1. /\ sent[t]["me"] # Null /\ sent[t]["me"].answer \in {"ok", "refused", "error"}
          /\ SignIn!Arrives(t, "me") /\ UNCHANGED <<cookie, session, hits, wrong, told>>
      BY <1>3 DEF SignIn!Checked, SignIn!Answered
    <2>2. tab' \in [Tabs -> TabRows]
      BY <1>1, <1>3, <2>1, TabsOfSignIn DEF SignIn!Checked, RequestOK, SignInInv
    <2> QED
      BY <1>2, <2>1, <2>2, NullIsNoAnswer, ArrivesInv
  <1>4. CASE SignIn!LoggedIn(t)
    <2>1. /\ sent[t]["login"] # Null /\ sent[t]["login"].answer \in {"ok", "refused", "tooMany", "error"}
          /\ SignIn!Arrives(t, "login") /\ UNCHANGED <<session, hits, wrong, told>>
      BY <1>4 DEF SignIn!LoggedIn, SignIn!Answered
    <2>2. \/ /\ sent[t]["login"].answer = "ok"
             /\ cookie' = sent[t]["login"].gets /\ SignIn!SignedIn(t, sent[t]["login"].user)
          \/ SignIn!SignedOut(t) /\ UNCHANGED cookie
          \/ UNCHANGED <<cookie, tab>>
      BY <1>4, <2>1 DEF SignIn!LoggedIn
    <2>3. tab' \in [Tabs -> TabRows] /\ cookie' \in Cookies \cup {Null}
      BY <1>1, <1>2, <2>1, <2>2, TabsOfSignIn DEF RequestOK, SignInInv
    <2> QED
      BY <2>1, <2>3, NullIsNoAnswer, ArrivesInv
  <1>5. CASE SignIn!LoggedOut(t)
    <2>1. /\ sent[t]["logout"] # Null /\ sent[t]["logout"].answer \in {"ok", "refused", "error"}
          /\ SignIn!Arrives(t, "logout") /\ UNCHANGED <<session, hits, wrong>> /\ SignIn!SignedOut(t)
      BY <1>5 DEF SignIn!LoggedOut, SignIn!Answered
    <2>2. tab' \in [Tabs -> TabRows]
      BY <2>1, TabsOfSignIn DEF SignInInv
    <2>3. cookie' \in Cookies \cup {Null} /\ \A token \in told' : token \in told \/ HasEnded(token, session')
      BY <1>1, <1>2, <1>5, <2>1 DEF SignIn!LoggedOut, RequestOK
    <2> QED
      BY <2>1, <2>2, <2>3, NullIsNoAnswer, ArrivesInv
  <1>6. CASE SignIn!Returned(t)
    <2>1. /\ sent[t]["call"] # Null /\ sent[t]["call"].answer \in {"ok", "refused", "error"}
          /\ SignIn!Arrives(t, "call") /\ UNCHANGED <<cookie, session, hits, wrong, told>>
      BY <1>6 DEF SignIn!Returned, SignIn!Answered
    <2>2. tab' \in [Tabs -> TabRows]
      BY <1>2, <1>6, TabsOfSignIn DEF SignIn!Returned, SignInInv
    <2> QED
      BY <1>2, <2>1, <2>2, NullIsNoAnswer, ArrivesInv
  <1> QED
    BY <1>3, <1>4, <1>5, <1>6

\* Nothing is on its way anew.
LEMMA QuietInv ==
  ASSUME SignInInv, SessionsGoOn, UNCHANGED <<cookie, tab, sent, hits, wrong, told>>
  PROVE  SignInInv'
  <1>1. SignInIInv'
    BY DEF SignInInv, SignInIInv, SessionsGoOn, RequestOK
  <1>2. CountIInv'
    BY DEF SignInInv, CountIInv, Admitted
  <1> QED
    BY <1>1, <1>2 DEF SignInInv

LEMMA SignInStep ==
  ASSUME AccessAssumption, SignInInv, [SignIn!Next]_(SignIn!vars)
  PROVE  SignInInv'
  <1>1. CASE UNCHANGED SignIn!vars
    BY <1>1, SessionsMayStay, QuietInv DEF SignIn!vars, SignInInv
  <1>2. ASSUME NEW token \in Cookies, SignIn!Expire(token)
        PROVE  SignInInv'
    BY <1>2, SessionEnds, QuietInv DEF SignIn!Expire, SignInInv
  <1> QED
    BY <1>1, <1>2, BrowserAsks, AdmitInv, LoginInv, ServeInv, LogoutInv, LoseInv, AnswersArrive
    DEF SignIn!Next

LEMMA SignInStart ==
  ASSUME AccessAssumption, SignIn!Init
  PROVE  SignInInv
  <1>1. \A t \in Tabs, kind \in SignIn!Kinds : sent[t][kind] = Null
    BY DEF SignIn!Init
  <1>2. SignInIInv
    BY <1>1 DEF SignIn!Init, SignInIInv, SessionTypes, RequestTypes, TabRows, SignIn!Statuses, RequestOK
  <1>3. Admitted = {}
    BY <1>1, KindsOfRequest DEF Admitted, StillAsking
  <1>4. CountIInv
    BY <1>3, FS_EmptySet, SignInConstants DEF CountIInv, SignIn!Init, SignInNull
  <1> QED
    BY <1>2, <1>4 DEF SignInInv

LEMMA SignInInvariance == SignIn!Spec => []SignInInv
  BY SignInStart, SignInStep, AccessAssumption, PTL DEF SignIn!Spec

LEMMA SignInIsTyped == AccessAssumption /\ SignInInv => SignIn!TypeOK
  <1> SUFFICES ASSUME AccessAssumption, SignInInv PROVE SignIn!TypeOK
    OBVIOUS
  <1>1. \A s \in Cookies : session[s] = Null \/ session[s].user \in Accounts
    BY DEF SignInInv, SignInIInv, SessionTypes, SignIn!Sessions
  <1>2. \A t \in Tabs : tab[t] \in TabRows
    BY DEF SignInInv, SignInIInv
  <1>3. \A t \in Tabs :
          /\ tab[t].status \in SignIn!Statuses /\ tab[t].user \in Accounts \cup {Null}
          /\ tab[t].status = "authenticated" <=> tab[t].user # Null
    BY <1>2 DEF TabRows
  <1>4. hits \in 0 .. MaxAttempts
    BY SignInConstants DEF SignInInv, CountIInv, SignInNull
  <1> QED
    BY <1>1, <1>3, <1>4 DEF SignIn!TypeOK, SignInInv, SignInIInv

LEMMA AttemptsAreFew == AccessAssumption /\ SignInInv => SignIn!AttemptsAreBounded
  <1> SUFFICES ASSUME AccessAssumption, SignInInv PROVE SignIn!AttemptsAreBounded
    OBVIOUS
  <1>1. Cardinality(Admitted) \in Nat
    BY FS_CardinalityType DEF SignInInv, CountIInv
  <1>2. wrong <= MaxAttempts
    BY <1>1, SignInConstants DEF SignInInv, CountIInv, SignInNull
  <1>3. ASSUME \A t \in Tabs : sent[t]["login"] = Null, ~ MayFail
        PROVE  hits = wrong
    <2>1. Admitted = {}
      BY <1>3 DEF Admitted, StillAsking
    <2>2. Cardinality(Admitted) = 0
      BY <2>1, FS_EmptySet
    <2> QED
      BY <1>3, <2>2 DEF SignInInv, CountIInv
  <1> QED
    BY <1>2, <1>3 DEF SignIn!AttemptsAreBounded

\* A request that waits, of a session whose sign-out was confirmed, gets no more than a refusal.
LEMMA WhoWasToldIsRefused ==
  ASSUME AccessAssumption, SignInInv, [SignIn!Next]_(SignIn!vars),
         NEW t \in Tabs, NEW kind \in SignIn!Kinds, kind # "login",
         sent[t][kind] # Null, sent[t][kind].token \in told, sent[t][kind].answer = Null,
         sent'[t][kind] # Null
  PROVE  sent'[t][kind].answer # "ok"
  <1> USE KindsOfRequest
  <1> DEFINE token == sent[t][kind].token
             Same == sent'[t][kind] = sent[t][kind]
  <1>1. ~ SignIn!Live(token)
    BY DEF SignInInv, SignInIInv, HasEnded, SignIn!Live
  <1>2. CASE Same
    BY <1>2, NullIsNoAnswer
  <1>3. ASSUME NEW s \in Tabs, NEW k \in SignIn!Kinds, NEW r, s # t \/ k # kind,
               sent' = [sent EXCEPT ![s][k] = r]
        PROVE  Same
    BY <1>3 DEF SignInInv, SignInIInv, RequestTypes
  <1>4. ASSUME NEW s \in Tabs, NEW k \in SignIn!Kinds, NEW r, r = Null, sent' = [sent EXCEPT ![s][k] = r]
        PROVE  Same
    BY <1>3, <1>4 DEF SignInInv, SignInIInv, RequestTypes
  <1>5. ASSUME NEW s \in Tabs, NEW k \in SignIn!Kinds, NEW user, sent[s][k] = Null, SignIn!Send(s, k, user)
        PROVE  Same
    <2> DEFINE r == SignIn!Request(cookie, user)
    <2>1. sent' = [sent EXCEPT ![s][k] = r]
      BY <1>5 DEF SignIn!Send
    <2> HIDE DEF r
    <2> QED
      BY <1>3, <1>5, <2>1
  <1>6. ASSUME NEW s \in Tabs, NEW k \in SignIn!Kinds, sent[s][k] # Null,
               NEW answer \in SignIn!Answers, NEW gets \in Cookies \cup Accounts \cup {Null},
               SignIn!Reply(s, k, answer, gets), answer # "ok" \/ s # t \/ k # kind
        PROVE  sent'[t][kind].answer # "ok"
    <2>1. PICK r : OneRequest(s, k, r) /\ r.answer = answer
      BY <1>6, ReplyIsPut DEF SignInInv
    <2>2. CASE s # t \/ k # kind
      BY <1>2, <2>1, <2>2 DEF OneRequest
    <2>3. CASE s = t /\ k = kind
      BY <1>6, <2>1, <2>3 DEF OneRequest
    <2> QED
      BY <2>2, <2>3
  <1> HIDE DEF Same
  <1>7. ASSUME NEW s \in Tabs,
               \/ SignIn!Open(s) \/ SignIn!SubmitLogout(s) \/ SignIn!Call(s)
               \/ \E user \in Accounts \cup {Null} : SignIn!SubmitLogin(s, user)
        PROVE  Same
    <2>1. CASE SignIn!Open(s)
      BY <1>5, <2>1 DEF SignIn!Open, SignIn!Idle
    <2>2. CASE SignIn!SubmitLogout(s)
      BY <1>5, <2>2 DEF SignIn!SubmitLogout
    <2>3. CASE SignIn!Call(s)
      BY <1>5, <2>3 DEF SignIn!Call
    <2>4. CASE \E user \in Accounts \cup {Null} : SignIn!SubmitLogin(s, user)
      BY <1>5, <2>4 DEF SignIn!SubmitLogin
    <2> QED
      BY <1>7, <2>1, <2>2, <2>3, <2>4
  <1>8. ASSUME NEW s \in Tabs,
               SignIn!Checked(s) \/ SignIn!LoggedIn(s) \/ SignIn!LoggedOut(s) \/ SignIn!Returned(s)
        PROVE  Same
    <2>1. \/ SignIn!Arrives(s, "me") \/ SignIn!Arrives(s, "login") \/ SignIn!Arrives(s, "logout")
          \/ SignIn!Arrives(s, "call")
      BY <1>8 DEF SignIn!Checked, SignIn!LoggedIn, SignIn!LoggedOut, SignIn!Returned
    <2>2. ASSUME NEW k \in SignIn!Kinds, SignIn!Arrives(s, k) PROVE Same
      BY <1>4, <2>2 DEF SignIn!Arrives
    <2> QED
      BY <2>1, <2>2
  <1>9. ASSUME NEW s \in Tabs, SignIn!Admit(s)
        PROVE  sent'[t][kind].answer # "ok"
    <2> DEFINE r == [sent[s]["login"] EXCEPT !.admitted = TRUE]
    <2>1. \/ sent' = [sent EXCEPT ![s]["login"] = r]
          \/ sent[s]["login"] # Null /\ SignIn!Reply(s, "login", "tooMany", Null)
      BY <1>9 DEF SignIn!Admit, SignIn!Waiting
    <2> HIDE DEF r
    <2> QED
      BY <1>2, <1>3, <1>6, <2>1 DEF SignIn!Answers
  <1>10. ASSUME NEW s \in Tabs, SignIn!Login(s)
         PROVE  sent'[t][kind].answer # "ok"
    <2>1. /\ sent[s]["login"] # Null
          /\ \E answer \in SignIn!Answers, gets \in Cookies \cup {Null} : SignIn!Reply(s, "login", answer, gets)
      BY <1>10 DEF SignIn!Login, SignIn!Waiting, SignIn!Answers
    <2> QED
      BY <1>6, <2>1
  <1>11. ASSUME NEW s \in Tabs, NEW k \in SignIn!Kinds, SignIn!Lose(s, k)
         PROVE  sent'[t][kind].answer # "ok"
    BY <1>6, <1>11 DEF SignIn!Lose, SignIn!Answers
  <1>12. ASSUME NEW s \in Tabs, NEW k \in SignIn!Kinds, SignIn!Serve(s, k)
         PROVE  sent'[t][kind].answer # "ok"
    <2>1. sent[s][k] # Null
      BY <1>12 DEF SignIn!Serve, SignIn!Waiting
    <2>2. CASE SignIn!Live(sent[s][k].token)
      <3>1. s # t \/ k # kind
        BY <1>1, <2>2
      <3>2. SignIn!Reply(s, k, "ok", session[sent[s][k].token].user)
        BY <1>12, <2>2 DEF SignIn!Serve
      <3>3. session[sent[s][k].token].user \in Accounts
        <4>1. sent[s][k] \in SignIn!Requests
          BY <2>1 DEF SignInInv, SignInIInv, RequestTypes
        <4>2. sent[s][k].token \in Cookies /\ session[sent[s][k].token] # Null
          BY <2>2, <4>1 DEF SignIn!Live, SignIn!Requests
        <4> QED
          BY <4>2 DEF SignInInv, SignInIInv, SessionTypes, SignIn!Sessions
      <3> QED
        BY <1>6, <2>1, <3>1, <3>2, <3>3 DEF SignIn!Answers
    <2>3. CASE ~ SignIn!Live(sent[s][k].token)
      BY <1>6, <1>12, <2>1, <2>3 DEF SignIn!Serve, SignIn!Answers
    <2> QED
      BY <2>2, <2>3
  <1>13. ASSUME NEW s \in Tabs, SignIn!Logout(s)
         PROVE  sent'[t][kind].answer # "ok"
    <2>1. sent[s]["logout"] # Null
      BY <1>13 DEF SignIn!Logout, SignIn!Waiting
    <2>2. CASE SignIn!Live(sent[s]["logout"].token)
      <3>1. s # t \/ "logout" # kind
        BY <1>1, <2>2
      <3>2. SignIn!Reply(s, "logout", "ok", Null)
        BY <1>13, <2>2 DEF SignIn!Logout
      <3> QED
        BY <1>6, <2>1, <3>1, <3>2 DEF SignIn!Answers
    <2>3. CASE ~ SignIn!Live(sent[s]["logout"].token)
      BY <1>6, <1>13, <2>1, <2>3 DEF SignIn!Logout, SignIn!Answers
    <2> QED
      BY <2>2, <2>3
  <1>14. CASE UNCHANGED SignIn!vars \/ \E s \in Cookies : SignIn!Expire(s)
    <2>1. Same
      BY <1>14 DEF SignIn!vars, SignIn!Expire, Same
    <2> QED
      BY <1>2, <2>1
  <1>15. CASE Same
    BY <1>2, <1>15
  <1> QED
    BY <1>7, <1>8, <1>9, <1>10, <1>11, <1>12, <1>13, <1>14, <1>15 DEF SignIn!Next

LEMMA SignInKeepsItsWord ==
  SignIn!Spec => SignIn!ToldIsEnded /\ [](SignIn!TypeOK /\ SignIn!AttemptsAreBounded)
  <1> DEFINE Refused ==
        \A t \in Tabs, kind \in SignIn!Kinds :
          sent[t][kind] # Null /\ sent[t][kind].token \in told /\ sent[t][kind].answer = Null
            /\ sent'[t][kind] # Null /\ kind # "login"
          => sent'[t][kind].answer # "ok"
  <1>1. SignInInv /\ [SignIn!Next]_(SignIn!vars) => [Refused]_(SignIn!vars)
    BY WhoWasToldIsRefused, AccessAssumption
  <1> HIDE DEF Refused
  <1>2. SignIn!Spec => [][Refused]_(SignIn!vars)
    BY <1>1, SignInInvariance, PTL DEF SignIn!Spec
  <1>3. SignIn!Spec => SignIn!ToldIsEnded
    BY <1>2 DEF Refused, SignIn!ToldIsEnded
  <1>4. SignIn!Spec => [](SignIn!TypeOK /\ SignIn!AttemptsAreBounded)
    BY SignInInvariance, SignInIsTyped, AttemptsAreFew, AccessAssumption, PTL
  <1> QED
    BY <1>3, <1>4

\* In production, whatever is asked at once: a call is served only for an account that is
\* active, with a session whose sign-out was not confirmed; what was deactivated stays so;
\* a browser that was told it is signed out hears nothing else from that session, requests
\* on their way included; and no more wrong passwords are tried than the limit.
THEOREM OnlyTheSignedInAreServed ==
  ASSUME Production
  PROVE  AdminAccounts!Spec /\ SignIn!Spec => OnlySignedIn
  <1>1. AdminAccounts!Spec => AdminAccounts!OnlySignedIn /\ AdminAccounts!DisabledForGood
    BY AccountsKeepTheirWord
  <1>2. AdminAccounts!Spec => []AdminAccounts!TypeOK
    BY AccountsKeepTheirWord
  <1>3. SignIn!Spec => SignIn!ToldIsEnded /\ [](SignIn!TypeOK /\ SignIn!AttemptsAreBounded)
    BY SignInKeepsItsWord
  <1> QED
    BY <1>1, <1>2, <1>3, PTL DEF OnlySignedIn

------------------------------------------------------------------------------
(* Reach: what is in whose trail, and what a listing shows.                 *)

FiledRequests ==
  [author : Staff, filed : {Reach!ScopeOfCommune(c) : c \in Localities},
   status : {"PENDING", "CANCELLED", "APPROVED", "REJECTED"}]

BatchRows ==
  {row \in [uploader : Staff, lands : SUBSET Localities,
            status : {"READY_FOR_REVIEW", "APPROVED", "REJECTED", "IMPORTED"},
            refused : SUBSET Localities] :
     row.refused \subseteq row.lands /\ (row.status = "IMPORTED" => row.refused = {})}

\* Filed under the whole country, a wilaya, or a commune with its wilaya.
Filings ==
  {Reach!NationalScope} \cup {[wilaya |-> w, commune |-> Null] : w \in Wilayas}
    \cup {Reach!ScopeOfCommune(c) : c \in Localities}

\* What is filed under a commune is filed under its wilaya too.
ProperEvent(e) ==
  /\ e.filed \in Filings
  /\ e.about \in Localities => e.filed = Reach!ScopeOfCommune(e.about)

ReachIInv ==
  /\ place \in [Staff -> Reach!Places]
  /\ \E a \in Staff : place[a] = Country
  /\ known \in [Staff -> Reach!Places \cup {Null}]
  /\ request \in [Localities -> FiledRequests \cup {Null}]
  /\ \A c \in Localities : request[c] # Null => request[c].filed = Reach!ScopeOfCommune(c)
  /\ batch \in [Batches -> BatchRows \cup {Null}]
  /\ \A e \in events : ProperEvent(e)
  /\ DOMAIN listing = Readers
  /\ Reach!FilterOnlyNarrows

LEMMA ReachConstants ==
  ASSUME AccessAssumption
  PROVE  /\ Null \notin Reach!Places /\ Country \notin Wilayas \cup Localities
         /\ Wilayas \cap Localities = {} /\ WilayaOf \in [Localities -> Wilayas]
         /\ AppointedTo \in [Staff -> Reach!Places] /\ \E a \in Staff : AppointedTo[a] = Country
         /\ Movable \subseteq Staff /\ Batches \cap Localities = {}
  BY DEF AccessAssumption, Reach!ReachAssumption

\* The places, one kind at a time.
LEMMA WithinOfPlace ==
  ASSUME AccessAssumption, NEW filed
  PROVE  /\ Reach!Within(Country, filed)
         /\ \A w \in Wilayas : Reach!Within(w, filed) <=> filed.wilaya = w
         /\ \A c \in Localities : Reach!Within(c, filed) <=> filed.commune = c
  BY ReachConstants DEF Reach!Within

LEMMA ScopesAreFilings ==
  ASSUME AccessAssumption
  PROVE  /\ Reach!NationalScope \in Filings
         /\ \A c \in Localities : Reach!ScopeOfCommune(c) \in Filings
         /\ \A p \in Reach!Places : Reach!UploaderScope(p) \in Filings
  BY DEF Filings, Reach!UploaderScope, Reach!Places

LEMMA FilingsNest ==
  ASSUME AccessAssumption, NEW filed \in Filings, NEW c \in Localities, Reach!Within(c, filed)
  PROVE  Reach!Within(WilayaOf[c], filed)
  <1>1. filed.commune = c /\ WilayaOf[c] \in Wilayas /\ c # Null
    BY ReachConstants, WithinOfPlace DEF Reach!Places
  <1>2. filed = Reach!ScopeOfCommune(c)
    BY <1>1 DEF Filings, Reach!NationalScope, Reach!ScopeOfCommune
  <1>3. filed.wilaya = WilayaOf[c]
    BY <1>2 DEF Reach!ScopeOfCommune
  <1> QED
    BY <1>1, <1>3, WithinOfPlace

LEMMA RecordIsProper ==
  ASSUME ReachIInv, NEW about, NEW filed \in Filings,
         about \in Localities => filed = Reach!ScopeOfCommune(about), Reach!Record(about, filed)
  PROVE  \A e \in events' : ProperEvent(e)
  BY DEF ReachIInv, Reach!Record, Reach!Entry, ProperEvent

LEMMA AnswerOfRequest ==
  ASSUME ReachIInv, NEW a \in Staff, Reach!Answer(a)
  PROVE  known' \in [Staff -> Reach!Places \cup {Null}]
  BY DEF ReachIInv, Reach!Answer

\* An act that records one event.
LEMMA ActIInv ==
  ASSUME AccessAssumption, ReachIInv, NEW a \in Staff, Reach!Answer(a), UNCHANGED listing,
         NEW about, NEW filed \in Filings, Reach!Record(about, filed),
         about \in Localities => filed = Reach!ScopeOfCommune(about),
         place' \in [Staff -> Reach!Places], \E b \in Staff : place'[b] = Country,
         request' \in [Localities -> FiledRequests \cup {Null}],
         \A c \in Localities : request'[c] # Null => request'[c].filed = Reach!ScopeOfCommune(c),
         batch' \in [Batches -> BatchRows \cup {Null}]
  PROVE  ReachIInv'
  <1>1. known' \in [Staff -> Reach!Places \cup {Null}] /\ \A e \in events' : ProperEvent(e)
    BY AnswerOfRequest, RecordIsProper
  <1>2. DOMAIN listing' = Readers /\ Reach!FilterOnlyNarrows'
    BY DEF ReachIInv, Reach!FilterOnlyNarrows
  <1> QED
    BY <1>1, <1>2 DEF ReachIInv

LEMMA FilingIInv ==
  ASSUME AccessAssumption, ReachIInv, NEW a \in Staff, NEW c \in Localities,
         \/ Reach!RequestCorrection(a, c) \/ Reach!Withdraw(a, c) \/ Reach!Review(a, c)
  PROVE  ReachIInv'
  <1> DEFINE filed == Reach!ScopeOfCommune(c)
  <1>1. PICK row \in FiledRequests : request' = [request EXCEPT ![c] = row] /\ row.filed = filed
    <2>1. CASE Reach!RequestCorrection(a, c)
      <3> DEFINE row == [author |-> a, filed |-> filed, status |-> "PENDING"]
      <3>1. row \in FiledRequests /\ row.filed = filed
        BY DEF FiledRequests
      <3>2. request' = [request EXCEPT ![c] = row]
        BY <2>1 DEF Reach!RequestCorrection
      <3> QED
        BY <3>1, <3>2
    <2>2. ASSUME NEW decision \in {"CANCELLED", "APPROVED", "REJECTED"}, request[c] # Null,
                 request' = [request EXCEPT ![c].status = decision]
          PROVE  \E row \in FiledRequests : request' = [request EXCEPT ![c] = row] /\ row.filed = filed
      <3> DEFINE old == request[c]
                 row == [old EXCEPT !.status = decision]
      <3>1. old \in FiledRequests /\ old.filed = filed
        BY <2>2 DEF ReachIInv
      <3>2. row \in FiledRequests /\ row.filed = filed
        BY <3>1 DEF FiledRequests
      <3>3. request' = [request EXCEPT ![c] = row]
        BY <2>2
      <3> QED
        BY <3>2, <3>3
    <2>3. CASE Reach!Withdraw(a, c)
      BY <2>2, <2>3 DEF Reach!Withdraw
    <2>4. CASE Reach!Review(a, c)
      BY <2>2, <2>4 DEF Reach!Review
    <2> QED
      BY <2>1, <2>3, <2>4
  <1>2. Reach!Record(c, filed)
    BY DEF Reach!RequestCorrection, Reach!Withdraw, Reach!Review, ReachIInv
  <1>3. Reach!Answer(a) /\ UNCHANGED <<place, batch, listing>>
    BY DEF Reach!RequestCorrection, Reach!Withdraw, Reach!Review
  <1>4. filed \in Filings
    BY ScopesAreFilings
  <1> HIDE DEF filed
  <1>5. /\ request' \in [Localities -> FiledRequests \cup {Null}]
        /\ \A d \in Localities : request'[d] # Null => request'[d].filed = Reach!ScopeOfCommune(d)
    BY <1>1 DEF ReachIInv, filed
  <1>6. /\ place' \in [Staff -> Reach!Places] /\ \E b \in Staff : place'[b] = Country
        /\ batch' \in [Batches -> BatchRows \cup {Null}]
    BY <1>3 DEF ReachIInv
  <1>7. c \in Localities => filed = Reach!ScopeOfCommune(c)
    BY DEF filed
  <1> QED
    BY <1>2, <1>3, <1>4, <1>5, <1>6, <1>7, ActIInv

LEMMA BatchIInv ==
  ASSUME AccessAssumption, ReachIInv, NEW a \in Staff, NEW b \in Batches, NEW row \in BatchRows,
         NEW p \in Reach!Places, Reach!Record(b, Reach!UploaderScope(p)),
         batch' = [batch EXCEPT ![b] = row], Reach!Answer(a), UNCHANGED <<place, request, listing>>
  PROVE  ReachIInv'
  <1> DEFINE filed == Reach!UploaderScope(p)
  <1>1. filed \in Filings /\ b \notin Localities
    BY ScopesAreFilings, ReachConstants
  <1>2. Reach!Record(b, filed)
    OBVIOUS
  <1> HIDE DEF filed
  <1>3. batch' \in [Batches -> BatchRows \cup {Null}]
    BY DEF ReachIInv
  <1>4. /\ place' \in [Staff -> Reach!Places] /\ \E d \in Staff : place'[d] = Country
        /\ request' \in [Localities -> FiledRequests \cup {Null}]
        /\ \A c \in Localities : request'[c] # Null => request'[c].filed = Reach!ScopeOfCommune(c)
    BY DEF ReachIInv
  <1> QED
    BY <1>1, <1>2, <1>3, <1>4, ActIInv

LEMMA UploadIInv ==
  ASSUME AccessAssumption, ReachIInv, NEW a \in Staff, NEW b \in Batches, NEW lands \in SUBSET Localities,
         Reach!Upload(a, b, lands)
  PROVE  ReachIInv'
  <1> DEFINE row == [uploader |-> a, lands |-> lands, status |-> "READY_FOR_REVIEW",
                     refused |-> {c \in lands : ~ Reach!Within(known[a], Reach!ScopeOfCommune(c))}]
  <1>1. known[a] \in Reach!Places
    BY DEF ReachIInv, Reach!Upload
  <1>2. row \in BatchRows
    BY DEF BatchRows
  <1>3. batch' = [batch EXCEPT ![b] = row]
    BY DEF Reach!Upload
  <1> HIDE DEF row
  <1> QED
    BY <1>1, <1>2, <1>3, BatchIInv DEF Reach!Upload

LEMMA SettleIInv ==
  ASSUME AccessAssumption, ReachIInv, NEW a \in Staff, NEW b \in Batches, NEW from,
         NEW to \in {"APPROVED", "REJECTED", "IMPORTED"}, Reach!Settle(a, b, from, to)
  PROVE  ReachIInv'
  <1> DEFINE old == batch[b]
             row == [old EXCEPT !.status = to]
  <1>1. old \in BatchRows /\ (to = "IMPORTED" => old.refused = {})
    BY DEF ReachIInv, Reach!Settle
  <1>2. row \in BatchRows
    BY <1>1 DEF BatchRows
  <1>3. batch' = [batch EXCEPT ![b] = row]
    BY DEF Reach!Settle
  <1>4. place[old.uploader] \in Reach!Places
    BY <1>1 DEF BatchRows, ReachIInv
  <1>5. Reach!Record(b, Reach!UploaderScope(place[old.uploader]))
    BY DEF Reach!Settle
  <1> HIDE DEF row
  <1> QED
    BY <1>2, <1>3, <1>4, <1>5, BatchIInv DEF Reach!Settle

LEMMA WorkIInv ==
  ASSUME AccessAssumption, ReachIInv, NEW a \in Staff, NEW c \in Localities, Reach!WorkOnDraw(a, c)
  PROVE  ReachIInv'
  <1> DEFINE filed == Reach!ScopeOfCommune(c)
  <1>1. filed \in Filings /\ Reach!Record(c, filed) /\ Reach!Answer(a)
        /\ UNCHANGED <<place, request, batch, listing>>
    BY ScopesAreFilings DEF Reach!WorkOnDraw
  <1>2. /\ place' \in [Staff -> Reach!Places] /\ \E d \in Staff : place'[d] = Country
        /\ request' \in [Localities -> FiledRequests \cup {Null}]
        /\ batch' \in [Batches -> BatchRows \cup {Null}]
        /\ \A d \in Localities : request'[d] # Null => request'[d].filed = Reach!ScopeOfCommune(d)
    BY <1>1 DEF ReachIInv
  <1> QED
    BY <1>1, <1>2, ActIInv

LEMMA ChangeScopeIInv ==
  ASSUME AccessAssumption, ReachIInv, NEW a \in Staff, NEW other \in Movable, NEW p \in Reach!Places,
         Reach!ChangeScope(a, other, p)
  PROVE  ReachIInv'
  <1>1. other \in Staff /\ Null \notin Localities /\ Reach!NationalScope \in Filings
    BY ReachConstants, ScopesAreFilings DEF Reach!Places
  <1>2. /\ place' = [place EXCEPT ![other] = p] /\ Reach!Record(Null, Reach!NationalScope)
        /\ Reach!Answer(a) /\ UNCHANGED <<request, batch, listing>>
        /\ place[other] = Country => \E o \in Staff \ {other} : place[o] = Country
    BY DEF Reach!ChangeScope
  <1>3. place' \in [Staff -> Reach!Places] /\ \E d \in Staff : place'[d] = Country
    BY <1>1, <1>2 DEF ReachIInv
  <1>4. /\ request' \in [Localities -> FiledRequests \cup {Null}]
        /\ batch' \in [Batches -> BatchRows \cup {Null}]
        /\ \A d \in Localities : request'[d] # Null => request'[d].filed = Reach!ScopeOfCommune(d)
    BY <1>2 DEF ReachIInv
  <1> QED
    BY <1>1, <1>2, <1>3, <1>4, ActIInv

LEMMA ListIInv ==
  ASSUME AccessAssumption, ReachIInv, NEW a \in Staff, NEW kind, NEW p \in Reach!Places,
         a \in Readers, Reach!List(a, kind, p)
  PROVE  ReachIInv'
  <1> DEFINE shown == [items |-> Reach!IntersectFilters(known[a], p, Reach!Items(kind)),
                       reach |-> known[a], asked |-> p]
  <1>1. \A i \in shown.items : Reach!Within(shown.reach, i.filed) /\ Reach!Within(shown.asked, i.filed)
    BY DEF Reach!IntersectFilters
  <1>2. listing' = [listing EXCEPT ![a] = shown] /\ Reach!Answer(a)
        /\ UNCHANGED <<place, request, batch, events>>
    BY DEF Reach!List
  <1> HIDE DEF shown
  <1>3. DOMAIN listing' = Readers /\ listing'[a] = shown
        /\ \A r \in Readers : r # a => listing'[r] = listing[r]
    BY <1>2 DEF ReachIInv
  <1>4. Reach!FilterOnlyNarrows'
    BY <1>1, <1>3 DEF ReachIInv, Reach!FilterOnlyNarrows
  <1>5. known' \in [Staff -> Reach!Places \cup {Null}]
    BY <1>2, AnswerOfRequest
  <1> QED
    BY <1>2, <1>3, <1>4, <1>5 DEF ReachIInv

LEMMA ReachStep ==
  ASSUME AccessAssumption, ReachIInv, [Reach!Next]_(Reach!vars)
  PROVE  ReachIInv'
  <1>1. CASE UNCHANGED Reach!vars
    BY <1>1 DEF Reach!vars, ReachIInv, Reach!FilterOnlyNarrows
  <1>2. ASSUME NEW a \in Staff, Reach!Authenticate(a)
        PROVE  ReachIInv'
    BY <1>2 DEF Reach!Authenticate, ReachIInv, Reach!FilterOnlyNarrows
  <1> QED
    BY <1>1, <1>2, WorkIInv, FilingIInv, UploadIInv, SettleIInv, ChangeScopeIInv, ListIInv
    DEF Reach!Next

LEMMA ReachInit ==
  ASSUME AccessAssumption, Reach!Init
  PROVE  ReachIInv
  BY ReachConstants DEF Reach!Init, ReachIInv, Reach!FilterOnlyNarrows, Reach!NoPage

LEMMA ReachInvariance == Reach!Spec => []ReachIInv
  BY ReachInit, ReachStep, AccessAssumption, PTL DEF Reach!Spec

LEMMA ReachKeepsItsWord ==
  ASSUME AccessAssumption, ReachIInv
  PROVE  TrailReachesTerritory
  <1>1. Reach!TypeOK
    <2>1. \A c \in Localities : request[c] # Null =>
            request[c].author \in Staff /\ request[c].filed = Reach!ScopeOfCommune(c)
      BY DEF ReachIInv, FiledRequests
    <2>2. \A b \in Batches : batch[b] # Null => batch[b] \in BatchRows
      BY DEF ReachIInv
    <2>3. \A b \in Batches : batch[b] # Null =>
            /\ batch[b].uploader \in Staff /\ batch[b].refused \subseteq batch[b].lands
            /\ batch[b].status = "IMPORTED" => batch[b].refused = {}
      BY <2>2 DEF BatchRows
    <2> QED
      BY <2>1, <2>3 DEF Reach!TypeOK, ReachIInv
  <1>2. Reach!TrailReachesTerritory
    BY DEF ReachIInv, ProperEvent, Reach!TrailReachesTerritory
  <1>3. Reach!ReachesNest
    <2> SUFFICES ASSUME NEW c \in Localities
                 PROVE  /\ \A e \in events : Reach!Within(c, e.filed) => Reach!Within(WilayaOf[c], e.filed)
                        /\ \A b \in Batches, a \in Staff : batch[b] # Null =>
                             /\ Reach!ImportRowScope(a, c, b) \subseteq Reach!ImportRowScope(a, WilayaOf[c], b)
                             /\ Reach!BatchVisibility(a, c, b) => Reach!BatchVisibility(a, WilayaOf[c], b)
      BY DEF Reach!ReachesNest
    <2>1. \A e \in events : Reach!Within(c, e.filed) => Reach!Within(WilayaOf[c], e.filed)
      BY FilingsNest DEF ReachIInv, ProperEvent
    <2>2. ASSUME NEW b \in Batches, NEW a \in Staff, batch[b] # Null
          PROVE  /\ Reach!ImportRowScope(a, c, b) \subseteq Reach!ImportRowScope(a, WilayaOf[c], b)
                 /\ Reach!BatchVisibility(a, c, b) => Reach!BatchVisibility(a, WilayaOf[c], b)
      <3>1. batch[b].lands \subseteq Localities
        BY <2>2 DEF ReachIInv, BatchRows
      <3>2. \A d \in batch[b].lands :
              Reach!Within(c, Reach!ScopeOfCommune(d)) => Reach!Within(WilayaOf[c], Reach!ScopeOfCommune(d))
        BY <3>1, FilingsNest, ScopesAreFilings
      <3>3. Reach!ImportRowScope(a, c, b) \subseteq Reach!ImportRowScope(a, WilayaOf[c], b)
        BY <3>2 DEF Reach!ImportRowScope
      <3>4. c # Country
        BY ReachConstants
      <3> QED
        BY <3>3, <3>4 DEF Reach!BatchVisibility
    <2> QED
      BY <2>1, <2>2
  <1>4. Reach!UploaderSeesItWhole
    BY DEF Reach!UploaderSeesItWhole, Reach!BatchVisibility, Reach!ImportRowScope
  <1> QED
    BY <1>1, <1>2, <1>3, <1>4 DEF TrailReachesTerritory, ReachIInv

\* Wherever accounts are moved meanwhile, what happens to a commune is in the trail of
\* whoever reaches it, whoever reaches a wilaya sees what its communes see, an upload is
\* whole for its author, and a listing never shows what is outside the reach it was asked
\* with.
THEOREM TrailsReachTheirTerritory == Reach!Spec => []TrailReachesTerritory
  <1>1. ReachIInv => TrailReachesTerritory
    BY AccessAssumption, ReachKeepsItsWord
  <1> QED
    BY <1>1, ReachInvariance, PTL

------------------------------------------------------------------------------
(* StatusLookup: what an applicant is told.                                 *)

AppStatuses == StatusLookup!Outcomes \cup {"PENDING", "ELIGIBLE", "INELIGIBLE"}

PublicStatuses == {"SUBMITTED", "IN_DRAW", "NOT_ELIGIBLE", "AWAITING_RESULTS"} \cup StatusLookup!Outcomes

Answers == [status : PublicStatuses, resultsPublished : BOOLEAN]

Pages ==
  [state : {"form", "sent", "verified", "found", "failed"},
   ref : StatusLookup!TypedReferences \cup {Null}, right : BOOLEAN,
   read : AppStatuses \cup {Null}, answer : Answers \cup {Null}]

\* A lookup on its way has a reference, and a verified one an application it read.
PageOK(shown) ==
  /\ shown.state = "sent" => shown.ref \in StatusLookup!TypedReferences
  /\ shown.state = "sent" /\ shown.right => shown.ref \in Applications
  /\ shown.state \in {"verified", "found"} => shown.ref \in Applications
  /\ shown.state = "verified" => shown.read \in AppStatuses

LookupTypes ==
  /\ draw \in [status : StatusLookup!CommuneDrawStatus, published : BOOLEAN]
  /\ draw.published => draw.status = "COMPLETED"
  /\ app \in [Applications -> AppStatuses]
  /\ page \in [Visitors -> Pages]
  /\ \A v \in Visitors : PageOK(page[v])
  /\ last \in [Visitors -> [Applications -> Answers \cup {Null}]]
  /\ byAddress \in [Addresses -> 0 .. MaxCounted]
  /\ byReference \in [StatusLookup!TypedReferences -> 0 .. MaxCounted]
  /\ minted \in [Addresses -> SUBSET StatusLookup!TypedReferences]

\* What becomes of a status: an eligible application gets an outcome, a reserve a place.
Leads(old, new) ==
  \/ old = new
  \/ old = "ELIGIBLE" /\ new \in StatusLookup!Outcomes
  \/ old = "RESERVE" /\ new = "SELECTED"

\* The status a visitor's next answer about an application will be made of, if that lookup
\* is the one on its way.
NextRead(v, a) ==
  IF page[v].state = "verified" /\ page[v].ref = a THEN page[v].read ELSE app[a]

\* What was read is what the application was, and each answer was made of what it was
\* before the next is.
ReadsAreTrue ==
  /\ \A v \in Visitors : page[v].state = "verified" => Leads(page[v].read, app[page[v].ref])
  /\ \A v \in Visitors, a \in Applications : last[v][a] # Null =>
       \E standing \in AppStatuses :
         /\ Leads(standing, NextRead(v, a))
         /\ last[v][a].status =
              StatusLookup!ToPublicApplicationStatus(standing, last[v][a].resultsPublished)
         /\ last[v][a].resultsPublished => draw.published

LEMMA InitLookupTypes == AccessAssumption /\ StatusLookup!Init => LookupTypes
  BY DEF AccessAssumption, StatusLookup!LookupAssumption, StatusLookup!Init, LookupTypes, Pages,
         PageOK, StatusLookup!Form, AppStatuses, StatusLookup!CommuneDrawStatus

\* What is told is one of the public statuses, an outcome only when results are public.
LEMMA AnswerIsTyped ==
  ASSUME NEW standing \in AppStatuses, NEW published \in BOOLEAN
  PROVE  /\ StatusLookup!ToPublicApplicationStatus(standing, published) \in PublicStatuses
         /\ StatusLookup!ToPublicApplicationStatus(standing, published) \in StatusLookup!Outcomes
              => published
  BY DEF AppStatuses, PublicStatuses, StatusLookup!ToPublicApplicationStatus, StatusLookup!Outcomes

\* A page with another in its place.
LEMMA PageBecomes ==
  ASSUME LookupTypes, NEW v \in Visitors, NEW shown \in Pages, PageOK(shown),
         StatusLookup!Show(v, shown)
  PROVE  /\ page' \in [Visitors -> Pages] /\ page'[v] = shown
         /\ \A w \in Visitors : w # v => page'[w] = page[w]
         /\ \A w \in Visitors : PageOK(page'[w])
  BY DEF LookupTypes, StatusLookup!Show

\* The empty form, and the page of a lookup that failed.
LEMMA FormIsPage ==
  /\ StatusLookup!Form \in Pages /\ PageOK(StatusLookup!Form)
  /\ [StatusLookup!Form EXCEPT !.state = "failed"] \in Pages
  /\ PageOK([StatusLookup!Form EXCEPT !.state = "failed"])
  BY DEF StatusLookup!Form, Pages, PageOK

\* Counting stays within the bound of a counter.
LEMMA CountersStay ==
  ASSUME AccessAssumption, NEW n \in 0 .. MaxCounted
  PROVE  StatusLookup!Count(n) \in 0 .. MaxCounted /\ StatusLookup!GiveBack(n) \in 0 .. MaxCounted
  BY DEF AccessAssumption, StatusLookup!LookupAssumption, StatusLookup!Count, StatusLookup!GiveBack

LEMMA AdmitTypes ==
  ASSUME AccessAssumption, LookupTypes, NEW v \in Visitors, NEW ref \in StatusLookup!TypedReferences,
         StatusLookup!Admit(v, ref)
  PROVE  /\ byAddress' \in [Addresses -> 0 .. MaxCounted]
         /\ byReference' \in [StatusLookup!TypedReferences -> 0 .. MaxCounted]
         /\ minted' \in [Addresses -> SUBSET StatusLookup!TypedReferences]
  <1> DEFINE x == AddressOf[v]
  <1>1. x \in Addresses
    BY DEF AccessAssumption, StatusLookup!LookupAssumption
  <1>2. StatusLookup!Count(byAddress[x]) \in 0 .. MaxCounted
        /\ StatusLookup!Count(byReference[ref]) \in 0 .. MaxCounted
    BY <1>1, CountersStay DEF LookupTypes
  <1>3. byAddress' = [byAddress EXCEPT ![x] = StatusLookup!Count(byAddress[x])]
    BY DEF StatusLookup!Admit
  <1>4. byReference' = byReference
        \/ byReference' = [byReference EXCEPT ![ref] = StatusLookup!Count(byReference[ref])]
    BY DEF StatusLookup!Admit
  <1>5. minted' = minted \/ minted' = [minted EXCEPT ![x] = minted[x] \cup {ref}]
    BY DEF StatusLookup!Admit
  <1> HIDE DEF x
  <1> QED
    BY <1>1, <1>2, <1>3, <1>4, <1>5 DEF LookupTypes

\* What the draw does to an application's status, and to nothing that a page shows.
LEMMA DrawActs ==
  ASSUME LookupTypes, StatusLookup!Next,
         ~ \E v \in Visitors : \/ StatusLookup!Submit(v) \/ StatusLookup!ReadApplication(v)
                               \/ StatusLookup!ReadDraw(v) \/ StatusLookup!CheckAnother(v)
  PROVE  /\ UNCHANGED <<page, last, byAddress, byReference, minted>>
         /\ draw' \in [status : StatusLookup!CommuneDrawStatus, published : BOOLEAN]
         /\ draw'.published => draw'.status = "COMPLETED"
         /\ draw.published => draw'.published
         /\ app' \in [Applications -> AppStatuses]
         /\ \A a \in Applications : Leads(app[a], app'[a])
  <1>1. CASE \E to \in StatusLookup!CommuneDrawStatus : StatusLookup!Lifecycle(to)
    BY <1>1 DEF LookupTypes, StatusLookup!Lifecycle, StatusLookup!limits, Leads,
       StatusLookup!CanTransitionCommuneDraw, StatusLookup!CommuneDrawTransitions
  <1>2. CASE StatusLookup!Execute
    <2>1. PICK drawn \in [Applications -> StatusLookup!Outcomes] :
            app' = [a \in Applications |-> IF app[a] = "ELIGIBLE" THEN drawn[a] ELSE app[a]]
      BY <1>2 DEF StatusLookup!Execute
    <2>2. app' \in [Applications -> AppStatuses] /\ \A a \in Applications : Leads(app[a], app'[a])
      BY <2>1 DEF LookupTypes, AppStatuses, Leads
    <2> QED
      BY <1>2, <2>2 DEF LookupTypes, StatusLookup!Execute, StatusLookup!limits,
         StatusLookup!CommuneDrawStatus
  <1>3. CASE StatusLookup!Publish
    BY <1>3 DEF LookupTypes, StatusLookup!Publish, StatusLookup!limits, Leads
  <1>4. CASE \E a \in Applications : StatusLookup!Abandon(a)
    BY <1>4 DEF LookupTypes, StatusLookup!Abandon, StatusLookup!limits, Leads
  <1>5. CASE \E a \in Applications : StatusLookup!Promote(a)
    BY <1>5 DEF LookupTypes, StatusLookup!Promote, StatusLookup!limits, Leads, AppStatuses,
       StatusLookup!Outcomes
  <1> QED
    BY <1>1, <1>2, <1>3, <1>4, <1>5 DEF StatusLookup!Next

\* A status that leads to another leads where that one does.
LEMMA LeadsOn ==
  ASSUME NEW r, NEW s, NEW t, Leads(r, s), Leads(s, t)
  PROVE  Leads(r, t)
  BY DEF Leads, StatusLookup!Outcomes

LookupIInv == LookupTypes /\ ReadsAreTrue

LEMMA DrawLookupIInv ==
  ASSUME LookupIInv, StatusLookup!Next,
         ~ \E v \in Visitors : \/ StatusLookup!Submit(v) \/ StatusLookup!ReadApplication(v)
                               \/ StatusLookup!ReadDraw(v) \/ StatusLookup!CheckAnother(v)
  PROVE  LookupIInv'
  <1> USE DEF LookupIInv
  <1>1. /\ UNCHANGED <<page, last, byAddress, byReference, minted>>
        /\ draw.published => draw'.published
        /\ \A a \in Applications : Leads(app[a], app'[a])
        /\ LookupTypes'
    BY DrawActs DEF LookupTypes
  <1>2. ASSUME NEW v \in Visitors, page'[v].state = "verified"
        PROVE  Leads(page'[v].read, app'[page'[v].ref])
    <2>1. page[v].ref \in Applications /\ page' = page
      BY <1>1, <1>2 DEF LookupTypes, PageOK
    <2>2. Leads(page[v].read, app[page[v].ref])
      BY <1>2, <2>1 DEF ReadsAreTrue
    <2> QED
      BY <1>1, <2>1, <2>2, LeadsOn
  <1>3. ASSUME NEW v \in Visitors, NEW a \in Applications, last'[v][a] # Null
        PROVE  \E standing \in AppStatuses :
                 /\ Leads(standing, NextRead(v, a)')
                 /\ last'[v][a].status =
                      StatusLookup!ToPublicApplicationStatus(standing, last'[v][a].resultsPublished)
                 /\ last'[v][a].resultsPublished => draw'.published
    <2>1. last' = last /\ page' = page
      BY <1>1
    <2>2. PICK standing \in AppStatuses :
            /\ Leads(standing, NextRead(v, a))
            /\ last[v][a].status =
                 StatusLookup!ToPublicApplicationStatus(standing, last[v][a].resultsPublished)
            /\ last[v][a].resultsPublished => draw.published
      BY <1>3, <2>1 DEF ReadsAreTrue
    <2>3. Leads(NextRead(v, a), NextRead(v, a)')
      BY <1>1, <2>1 DEF NextRead, Leads
    <2>4. Leads(standing, NextRead(v, a)')
      BY <2>2, <2>3, LeadsOn
    <2> QED
      BY <1>1, <2>1, <2>2, <2>4
  <1> QED
    BY <1>1, <1>2, <1>3 DEF ReadsAreTrue

\* A page that is no lookup of a verified application changes nothing of what the next
\* answers are made of.
LEMMA PageOnlyIInv ==
  ASSUME LookupIInv, LookupTypes', NEW v \in Visitors, UNCHANGED <<draw, app, last>>,
         page'[v].state # "verified", page[v].state # "verified",
         \A w \in Visitors : w # v => page'[w] = page[w]
  PROVE  LookupIInv'
  <1>1. \A w \in Visitors, a \in Applications : NextRead(w, a)' = NextRead(w, a)
    BY DEF NextRead
  <1>2. \A w \in Visitors : page'[w].state = "verified" => page[w].state = "verified" /\ page'[w] = page[w]
    OBVIOUS
  <1> QED
    BY <1>1, <1>2 DEF LookupIInv, ReadsAreTrue

LEMMA SubmitLookupIInv ==
  ASSUME AccessAssumption, LookupIInv, NEW v \in Visitors, StatusLookup!Submit(v)
  PROVE  LookupIInv'
  <1>1. PICK ref \in StatusLookup!TypedReferences, right \in BOOLEAN :
          /\ ref = Unknown => ~ right
          /\ StatusLookup!Admit(v, ref)
          /\ StatusLookup!Show(v,
               IF StatusLookup!Refused(v, ref) THEN [StatusLookup!Form EXCEPT !.state = "failed"]
               ELSE [StatusLookup!Form EXCEPT !.state = "sent", !.ref = ref, !.right = right])
    BY DEF StatusLookup!Submit
  <1> DEFINE shown ==
        IF StatusLookup!Refused(v, ref) THEN [StatusLookup!Form EXCEPT !.state = "failed"]
        ELSE [StatusLookup!Form EXCEPT !.state = "sent", !.ref = ref, !.right = right]
  <1>2. shown \in Pages /\ PageOK(shown) /\ shown.state # "verified"
    BY <1>1 DEF Pages, PageOK, StatusLookup!Form, StatusLookup!TypedReferences
  <1>3. StatusLookup!Show(v, shown)
    BY <1>1
  <1> HIDE DEF shown
  <1>4. /\ page' \in [Visitors -> Pages] /\ page'[v] = shown
        /\ \A w \in Visitors : w # v => page'[w] = page[w]
        /\ \A w \in Visitors : PageOK(page'[w])
    BY <1>2, <1>3, PageBecomes DEF LookupIInv
  <1>5. /\ byAddress' \in [Addresses -> 0 .. MaxCounted]
        /\ byReference' \in [StatusLookup!TypedReferences -> 0 .. MaxCounted]
        /\ minted' \in [Addresses -> SUBSET StatusLookup!TypedReferences]
    BY <1>1, AdmitTypes DEF LookupIInv
  <1>6. UNCHANGED <<draw, app, last>> /\ page[v].state # "verified"
    BY DEF StatusLookup!Submit
  <1>7. LookupTypes'
    BY <1>4, <1>5, <1>6 DEF LookupIInv, LookupTypes
  <1> QED
    BY <1>2, <1>4, <1>6, <1>7, PageOnlyIInv

LEMMA ReadApplicationLookupIInv ==
  ASSUME AccessAssumption, LookupIInv, NEW v \in Visitors, StatusLookup!ReadApplication(v)
  PROVE  LookupIInv'
  <1> DEFINE ref == page[v].ref
  <1>1. page[v] \in Pages /\ page[v].state = "sent" /\ PageOK(page[v])
    BY DEF LookupIInv, LookupTypes, StatusLookup!ReadApplication
  <1>2. UNCHANGED <<draw, app, last, byAddress, byReference>>
    BY DEF StatusLookup!ReadApplication
  <1>3. minted' \in [Addresses -> SUBSET StatusLookup!TypedReferences]
    BY <1>1 DEF StatusLookup!ReadApplication, LookupIInv, LookupTypes, PageOK
  <1>4. CASE page[v].right
    <2> DEFINE shown == [page[v] EXCEPT !.state = "verified", !.read = app[ref]]
    <2>1. ref \in Applications /\ app[ref] \in AppStatuses
      BY <1>1, <1>4 DEF PageOK, LookupIInv, LookupTypes
    <2>2. shown \in Pages /\ PageOK(shown)
      BY <1>1, <2>1 DEF Pages, PageOK
    <2>3. StatusLookup!Show(v, shown)
      BY <1>4 DEF StatusLookup!ReadApplication
    <2>4. shown.state = "verified" /\ shown.ref = ref /\ shown.read = app[ref]
      BY <1>1 DEF Pages
    <2> HIDE DEF shown
    <2>5. /\ page' \in [Visitors -> Pages] /\ page'[v] = shown
          /\ \A w \in Visitors : w # v => page'[w] = page[w]
          /\ \A w \in Visitors : PageOK(page'[w])
      BY <2>2, <2>3, PageBecomes DEF LookupIInv
    <2>6. LookupTypes'
      BY <1>2, <1>3, <2>5 DEF LookupIInv, LookupTypes
    <2>7. \A w \in Visitors, a \in Applications : NextRead(w, a)' = NextRead(w, a)
      BY <1>1, <1>2, <2>4, <2>5 DEF NextRead
    <2>8. \A w \in Visitors : page'[w].state = "verified" => Leads(page'[w].read, app'[page'[w].ref])
      BY <1>2, <2>4, <2>5 DEF LookupIInv, ReadsAreTrue, Leads
    <2> QED
      BY <1>2, <2>6, <2>7, <2>8 DEF LookupIInv, ReadsAreTrue
  <1>5. CASE ~ page[v].right
    <2> DEFINE shown == [StatusLookup!Form EXCEPT !.state = "failed"]
    <2>1. StatusLookup!Show(v, shown) /\ shown.state = "failed"
      BY <1>5 DEF StatusLookup!ReadApplication, StatusLookup!Form
    <2>2. shown \in Pages /\ PageOK(shown)
      BY FormIsPage
    <2> HIDE DEF shown
    <2>3. /\ page' \in [Visitors -> Pages] /\ page'[v] = shown
          /\ \A w \in Visitors : w # v => page'[w] = page[w]
          /\ \A w \in Visitors : PageOK(page'[w])
      BY <2>1, <2>2, PageBecomes DEF LookupIInv
    <2>4. LookupTypes'
      BY <1>2, <1>3, <2>3 DEF LookupIInv, LookupTypes
    <2> QED
      BY <1>1, <1>2, <2>1, <2>3, <2>4, PageOnlyIInv
  <1> QED
    BY <1>4, <1>5

\* Who asks again is told the same or more: a status that leads on, and an announcement
\* that stays.
LEMMA NothingIsTakenBackOf ==
  ASSUME NEW s \in AppStatuses, NEW t \in AppStatuses, Leads(s, t),
         NEW p \in BOOLEAN, NEW q \in BOOLEAN, p => q
  PROVE  LET old == StatusLookup!ToPublicApplicationStatus(s, p)
             new == StatusLookup!ToPublicApplicationStatus(t, q)
         IN  new = old \/ StatusLookup!Rank(new) > StatusLookup!Rank(old)
  <1> DEFINE To(standing, published) == StatusLookup!ToPublicApplicationStatus(standing, published)
             Rank(standing) == StatusLookup!Rank(standing)
  <1>1. /\ To("PENDING", p) = "SUBMITTED" /\ To("PENDING", q) = "SUBMITTED"
        /\ To("ELIGIBLE", p) = "IN_DRAW" /\ To("ELIGIBLE", q) = "IN_DRAW"
        /\ To("INELIGIBLE", p) = "NOT_ELIGIBLE" /\ To("INELIGIBLE", q) = "NOT_ELIGIBLE"
    BY DEF StatusLookup!ToPublicApplicationStatus, StatusLookup!Outcomes
  <1>2. \A o \in StatusLookup!Outcomes :
          /\ To(o, p) = (IF p THEN o ELSE "AWAITING_RESULTS")
          /\ To(o, q) = (IF q THEN o ELSE "AWAITING_RESULTS")
    BY DEF StatusLookup!ToPublicApplicationStatus, StatusLookup!Outcomes
  <1>3. /\ Rank("IN_DRAW") = 0 /\ Rank("AWAITING_RESULTS") = 1 /\ Rank("RESERVE") = 2
        /\ Rank("SELECTED") = 3 /\ Rank("NOT_SELECTED") = 3
    BY DEF StatusLookup!Rank
  <1> SUFFICES To(t, q) = To(s, p) \/ Rank(To(t, q)) > Rank(To(s, p))
    OBVIOUS
  <1> HIDE DEF To, Rank
  <1>4. CASE s = t
    BY <1>1, <1>2, <1>3, <1>4 DEF AppStatuses, StatusLookup!Outcomes
  <1>5. CASE s = "ELIGIBLE" /\ t \in StatusLookup!Outcomes
    BY <1>1, <1>2, <1>3, <1>5 DEF StatusLookup!Outcomes
  <1>6. CASE s = "RESERVE" /\ t = "SELECTED"
    BY <1>2, <1>3, <1>6 DEF StatusLookup!Outcomes
  <1> QED
    BY <1>4, <1>5, <1>6 DEF Leads

\* What a lookup finds: the answer it shows and keeps, and that nothing else is answered.
LEMMA ReadDrawAnswers ==
  ASSUME LookupTypes, NEW v \in Visitors, StatusLookup!ReadDraw(v)
  PROVE  LET answer == [status |-> StatusLookup!ToPublicApplicationStatus(page[v].read, draw.published),
                        resultsPublished |-> draw.published]
         IN  /\ answer \in Answers
             /\ page[v].ref \in Applications /\ page[v].read \in AppStatuses
             /\ page' = [page EXCEPT ![v] = [page[v] EXCEPT !.state = "found", !.answer = answer]]
             /\ last' \in [Visitors -> [Applications -> Answers \cup {Null}]]
             /\ last'[v][page[v].ref] = answer
             /\ \A w \in Visitors, a \in Applications :
                  w # v \/ a # page[v].ref => last'[w][a] = last[w][a]
  <1> DEFINE answer == [status |-> StatusLookup!ToPublicApplicationStatus(page[v].read, draw.published),
                        resultsPublished |-> draw.published]
             ref == page[v].ref
  <1>1. page[v].state = "verified" /\ PageOK(page[v])
    BY DEF LookupTypes, StatusLookup!ReadDraw
  <1>2. ref \in Applications /\ page[v].read \in AppStatuses
    BY <1>1 DEF PageOK
  <1>3. answer \in Answers
    BY <1>2, AnswerIsTyped DEF LookupTypes, Answers
  <1>4. /\ StatusLookup!Show(v, [page[v] EXCEPT !.state = "found", !.answer = answer])
        /\ last' = [last EXCEPT ![v][ref] = answer]
    BY DEF StatusLookup!ReadDraw
  <1>5. last \in [Visitors -> [Applications -> Answers \cup {Null}]]
    BY DEF LookupTypes
  <1>6. page' = [page EXCEPT ![v] = [page[v] EXCEPT !.state = "found", !.answer = answer]]
    BY <1>4 DEF StatusLookup!Show
  <1> SUFFICES
        /\ last' \in [Visitors -> [Applications -> Answers \cup {Null}]]
        /\ last'[v][ref] = answer
        /\ \A w \in Visitors, a \in Applications : w # v \/ a # ref => last'[w][a] = last[w][a]
    BY <1>2, <1>3, <1>6
  <1> HIDE DEF answer, ref
  <1> QED
    BY <1>2, <1>3, <1>4, <1>5

LEMMA ReadDrawLookupIInv ==
  ASSUME AccessAssumption, LookupIInv, NEW v \in Visitors, StatusLookup!ReadDraw(v)
  PROVE  LookupIInv'
  <1> DEFINE answer == [status |-> StatusLookup!ToPublicApplicationStatus(page[v].read, draw.published),
                        resultsPublished |-> draw.published]
             ref == page[v].ref
             shown == [page[v] EXCEPT !.state = "found", !.answer = answer]
  <1>1. /\ answer \in Answers /\ ref \in Applications /\ page[v].read \in AppStatuses
        /\ page' = [page EXCEPT ![v] = shown]
        /\ last' \in [Visitors -> [Applications -> Answers \cup {Null}]]
        /\ last'[v][ref] = answer
        /\ \A w \in Visitors, a \in Applications : w # v \/ a # ref => last'[w][a] = last[w][a]
    BY ReadDrawAnswers DEF LookupIInv
  <1>2. page[v].state = "verified" /\ page[v] \in Pages /\ AddressOf[v] \in Addresses
    BY DEF LookupIInv, LookupTypes, StatusLookup!ReadDraw, AccessAssumption, StatusLookup!LookupAssumption
  <1>3. shown \in Pages /\ PageOK(shown) /\ shown.state = "found"
    BY <1>1, <1>2 DEF Pages, PageOK
  <1>4. answer.resultsPublished = draw.published
        /\ answer.status = StatusLookup!ToPublicApplicationStatus(page[v].read, answer.resultsPublished)
    OBVIOUS
  <1>5. /\ byAddress' = [byAddress EXCEPT ![AddressOf[v]] = StatusLookup!GiveBack(@)]
        /\ byReference' = [byReference EXCEPT ![ref] = StatusLookup!GiveBack(@)]
        /\ UNCHANGED <<draw, app, minted>>
    BY DEF StatusLookup!ReadDraw
  <1>6. Leads(page[v].read, app[ref])
    BY <1>2 DEF LookupIInv, ReadsAreTrue
  <1>7. ref \in StatusLookup!TypedReferences
    BY <1>1 DEF StatusLookup!TypedReferences
  <1> HIDE DEF answer, ref, shown
  <1>8. StatusLookup!GiveBack(byAddress[AddressOf[v]]) \in 0 .. MaxCounted
        /\ StatusLookup!GiveBack(byReference[ref]) \in 0 .. MaxCounted
    BY <1>2, <1>7, CountersStay DEF LookupIInv, LookupTypes
  <1>9. /\ page' \in [Visitors -> Pages] /\ page'[v] = shown
        /\ \A w \in Visitors : w # v => page'[w] = page[w]
        /\ \A w \in Visitors : PageOK(page'[w])
    BY <1>1, <1>3 DEF LookupIInv, LookupTypes
  <1>10. LookupTypes'
    BY <1>1, <1>2, <1>5, <1>7, <1>8, <1>9 DEF LookupIInv, LookupTypes
  <1>11. ASSUME NEW w \in Visitors, page'[w].state = "verified"
         PROVE  Leads(page'[w].read, app'[page'[w].ref])
    BY <1>3, <1>5, <1>9, <1>11 DEF LookupIInv, ReadsAreTrue
  <1>12. ASSUME NEW w \in Visitors, NEW a \in Applications, last'[w][a] # Null
         PROVE  \E standing \in AppStatuses :
                  /\ Leads(standing, NextRead(w, a)')
                  /\ last'[w][a].status =
                       StatusLookup!ToPublicApplicationStatus(standing, last'[w][a].resultsPublished)
                  /\ last'[w][a].resultsPublished => draw'.published
    <2>1. CASE w = v /\ a = ref
      <3>1. NextRead(w, a)' = app[ref]
        BY <1>3, <1>5, <1>9, <2>1 DEF NextRead
      <3>2. last'[w][a] = answer
        BY <1>1, <2>1
      <3> QED
        BY <1>1, <1>4, <1>5, <1>6, <3>1, <3>2
    <2>2. CASE ~ (w = v /\ a = ref)
      <3>1. NextRead(w, a)' = NextRead(w, a)
        BY <1>2, <1>3, <1>5, <1>9, <2>2 DEF NextRead, ref
      <3>2. last'[w][a] = last[w][a] /\ draw' = draw
        BY <1>1, <1>5, <2>2
      <3> QED
        BY <1>12, <3>1, <3>2 DEF LookupIInv, ReadsAreTrue
    <2> QED
      BY <2>1, <2>2
  <1> QED
    BY <1>10, <1>11, <1>12 DEF LookupIInv, ReadsAreTrue

LEMMA CheckAnotherLookupIInv ==
  ASSUME AccessAssumption, LookupIInv, NEW v \in Visitors, StatusLookup!CheckAnother(v)
  PROVE  LookupIInv'
  <1>1. StatusLookup!Show(v, StatusLookup!Form) /\ page[v].state = "found"
        /\ UNCHANGED <<draw, app, last, byAddress, byReference, minted>>
    BY DEF StatusLookup!CheckAnother, StatusLookup!limits
  <1>2. /\ page' \in [Visitors -> Pages] /\ page'[v] = StatusLookup!Form
        /\ \A w \in Visitors : w # v => page'[w] = page[w]
        /\ \A w \in Visitors : PageOK(page'[w])
    BY <1>1, PageBecomes, FormIsPage DEF LookupIInv
  <1>3. LookupTypes'
    BY <1>1, <1>2 DEF LookupIInv, LookupTypes
  <1>4. StatusLookup!Form.state # "verified"
    BY DEF StatusLookup!Form
  <1> QED
    BY <1>1, <1>2, <1>3, <1>4, PageOnlyIInv

LEMMA StepLookupIInv ==
  AccessAssumption /\ LookupIInv /\ [StatusLookup!Next]_(StatusLookup!vars) => LookupIInv'
  <1> SUFFICES ASSUME AccessAssumption, LookupIInv, [StatusLookup!Next]_(StatusLookup!vars)
               PROVE  LookupIInv'
    OBVIOUS
  <1>1. CASE UNCHANGED StatusLookup!vars
    BY <1>1 DEF StatusLookup!vars, LookupIInv, LookupTypes, ReadsAreTrue, NextRead
  <1>2. CASE \E v \in Visitors : \/ StatusLookup!Submit(v) \/ StatusLookup!ReadApplication(v)
                                 \/ StatusLookup!ReadDraw(v) \/ StatusLookup!CheckAnother(v)
    BY <1>2, SubmitLookupIInv, ReadApplicationLookupIInv, ReadDrawLookupIInv, CheckAnotherLookupIInv
  <1> QED
    BY <1>1, <1>2, DrawLookupIInv

LEMMA InitLookupIInv == AccessAssumption /\ StatusLookup!Init => LookupIInv
  <1> SUFFICES ASSUME AccessAssumption, StatusLookup!Init PROVE LookupIInv
    OBVIOUS
  <1>1. \A v \in Visitors : page[v].state # "verified" /\ \A a \in Applications : last[v][a] = Null
    BY DEF StatusLookup!Init, StatusLookup!Form
  <1> QED
    BY <1>1, InitLookupTypes DEF LookupIInv, ReadsAreTrue

------------------------------------------------------------------------------
(* The second counter of the lookups.                                       *)

\* The module's own instance of the standard operators.
LEMMA LookupFiniteSets ==
  ASSUME NEW S
  PROVE  /\ StatusLookup!IsFiniteSet(S) <=> IsFiniteSet(S)
         /\ StatusLookup!Cardinality(S) = Cardinality(S)
  BY DEF StatusLookup!IsFiniteSet, IsFiniteSet, StatusLookup!Cardinality, Cardinality

\* Visitors whose failure an address may still have to count.
Asking(x) == {v \in Visitors : AddressOf[v] = x /\ page[v].state \in {"sent", "verified"}}

\* Every reference an address has put into the second counter has cost it one of its own
\* attempts, and each lookup on its way keeps one for the reference it may still put there.
KeysArePaidFor ==
  \A x \in Addresses :
    /\ IsFiniteSet(minted[x])
    /\ Cardinality(minted[x]) + Cardinality(Asking(x)) <= byAddress[x]
    /\ Cardinality(minted[x]) + Cardinality(Asking(x)) <= AddressLimit

LEMMA LookupBounds ==
  ASSUME AccessAssumption
  PROVE  /\ IsFiniteSet(Visitors) /\ AddressLimit \in Nat /\ MaxCounted \in Nat
         /\ AddressOf \in [Visitors -> Addresses]
         /\ Visitors # {} => MaxCounted > AddressLimit
  <1>1. /\ IsFiniteSet(Visitors) /\ AddressLimit \in Nat /\ MaxCounted \in Nat
        /\ MaxCounted >= AddressLimit + Cardinality(Visitors)
        /\ AddressOf \in [Visitors -> Addresses]
    BY LookupFiniteSets DEF AccessAssumption, StatusLookup!LookupAssumption
  <1>2. Visitors # {} => Cardinality(Visitors) # 0
    BY <1>1, FS_EmptySet
  <1>3. Cardinality(Visitors) \in Nat
    BY <1>1, FS_CardinalityType
  <1> QED
    BY <1>1, <1>2, <1>3

LEMMA AskingIsFinite ==
  ASSUME AccessAssumption, NEW x
  PROVE  IsFiniteSet(Asking(x)) /\ Cardinality(Asking(x)) \in Nat
  <1>1. Asking(x) \subseteq Visitors
    BY DEF Asking
  <1> QED
    BY <1>1, LookupBounds, FS_Subset, FS_CardinalityType

\* One visitor's lookup begins, ends, or stays as far as it is.
LEMMA AskingChanges ==
  ASSUME AccessAssumption, NEW v \in Visitors, \A w \in Visitors : w # v => page'[w] = page[w]
  PROVE  /\ \A x : x # AddressOf[v] => Asking(x)' = Asking(x)
         /\ page[v].state \in {"sent", "verified"} <=> page'[v].state \in {"sent", "verified"}
              => Asking(AddressOf[v])' = Asking(AddressOf[v])
         /\ page[v].state \notin {"sent", "verified"} /\ page'[v].state \in {"sent", "verified"}
              => Cardinality(Asking(AddressOf[v])') = Cardinality(Asking(AddressOf[v])) + 1
         /\ page[v].state \in {"sent", "verified"} /\ page'[v].state \notin {"sent", "verified"}
              => Cardinality(Asking(AddressOf[v])') = Cardinality(Asking(AddressOf[v])) - 1
  <1> DEFINE x == AddressOf[v]
  <1>1. \A y : y # x => Asking(y)' = Asking(y)
    BY DEF Asking
  <1>2. ASSUME page[v].state \in {"sent", "verified"} <=> page'[v].state \in {"sent", "verified"}
        PROVE  Asking(x)' = Asking(x)
    BY <1>2 DEF Asking
  <1>3. ASSUME page[v].state \notin {"sent", "verified"}, page'[v].state \in {"sent", "verified"}
        PROVE  Cardinality(Asking(x)') = Cardinality(Asking(x)) + 1
    <2>1. Asking(x)' = Asking(x) \cup {v} /\ v \notin Asking(x)
      BY <1>3 DEF Asking
    <2> QED
      BY <2>1, AskingIsFinite, FS_AddElement
  <1>4. ASSUME page[v].state \in {"sent", "verified"}, page'[v].state \notin {"sent", "verified"}
        PROVE  Cardinality(Asking(x)') = Cardinality(Asking(x)) - 1
    <2>1. Asking(x)' = Asking(x) \ {v} /\ v \in Asking(x)
      BY <1>4 DEF Asking
    <2> QED
      BY <2>1, AskingIsFinite, FS_RemoveElement
  <1> QED
    BY <1>1, <1>2, <1>3, <1>4

\* A set with one element put into it grows by one at most.
LEMMA OneKeyMore ==
  ASSUME NEW S, IsFiniteSet(S), NEW e
  PROVE  /\ IsFiniteSet(S \cup {e}) /\ Cardinality(S) \in Nat /\ Cardinality(S \cup {e}) \in Nat
         /\ Cardinality(S \cup {e}) <= Cardinality(S) + 1
  <1>1. IsFiniteSet(S \cup {e}) /\ (Cardinality(S \cup {e}) = Cardinality(S) \/ Cardinality(S \cup {e}) = Cardinality(S) + 1)
    BY FS_AddElement
  <1> QED
    BY <1>1, FS_CardinalityType

LEMMA KeysArePaidForElsewhere ==
  ASSUME AccessAssumption, LookupTypes, KeysArePaidFor, NEW v \in Visitors,
         \A w \in Visitors : w # v => page'[w] = page[w],
         NEW x \in Addresses, x # AddressOf[v],
         minted'[x] = minted[x], byAddress'[x] = byAddress[x]
  PROVE  /\ IsFiniteSet(minted'[x])
         /\ Cardinality(minted'[x]) + Cardinality(Asking(x)') <= byAddress'[x]
         /\ Cardinality(minted'[x]) + Cardinality(Asking(x)') <= AddressLimit
  <1>1. Asking(x)' = Asking(x)
    BY AskingChanges
  <1> QED
    BY <1>1 DEF KeysArePaidFor

LEMMA SubmitKeys ==
  ASSUME AccessAssumption, LookupTypes, KeysArePaidFor, NEW v \in Visitors, StatusLookup!Submit(v)
  PROVE  KeysArePaidFor'
  <1> DEFINE x == AddressOf[v]
  <1>1. x \in Addresses /\ page[v].state \in {"form", "failed"}
    BY LookupBounds DEF StatusLookup!Submit
  <1>2. PICK ref \in StatusLookup!TypedReferences, right \in BOOLEAN :
          /\ StatusLookup!Admit(v, ref)
          /\ StatusLookup!Show(v,
               IF StatusLookup!Refused(v, ref) THEN [StatusLookup!Form EXCEPT !.state = "failed"]
               ELSE [StatusLookup!Form EXCEPT !.state = "sent", !.ref = ref, !.right = right])
    BY DEF StatusLookup!Submit
  <1>3. \A w \in Visitors : w # v => page'[w] = page[w]
    BY <1>2 DEF StatusLookup!Show, LookupTypes
  <1>4. page'[v].state = IF StatusLookup!Refused(v, ref) THEN "failed" ELSE "sent"
    BY <1>2 DEF StatusLookup!Show, LookupTypes, StatusLookup!Form
  <1>5. /\ byAddress' = [byAddress EXCEPT ![x] = StatusLookup!Count(byAddress[x])]
        /\ byAddress[x] \in 0 .. MaxCounted
    BY <1>1, <1>2 DEF StatusLookup!Admit, LookupTypes
  <1>6. /\ byAddress'[x] = StatusLookup!Count(byAddress[x])
        /\ \A y \in Addresses : y # x => byAddress'[y] = byAddress[y]
    BY <1>1, <1>5 DEF LookupTypes
  <1>7. byAddress'[x] >= byAddress[x] /\ (byAddress'[x] <= AddressLimit => byAddress'[x] = byAddress[x] + 1)
    BY <1>5, <1>6, LookupBounds DEF StatusLookup!Count
  <1>8. minted' = minted \/ minted' = [minted EXCEPT ![x] = minted[x] \cup {ref}]
    BY <1>2 DEF StatusLookup!Admit
  <1>9. \A y \in Addresses : y # x => minted'[y] = minted[y]
    BY <1>8 DEF LookupTypes
  <1>10. byAddress'[x] > AddressLimit => minted' = minted
    BY <1>2 DEF StatusLookup!Admit
  <1>11. /\ IsFiniteSet(minted[x]) /\ Cardinality(minted[x]) \in Nat /\ Cardinality(Asking(x)) \in Nat
         /\ Cardinality(minted[x]) + Cardinality(Asking(x)) <= byAddress[x]
         /\ Cardinality(minted[x]) + Cardinality(Asking(x)) <= AddressLimit
    BY <1>1, AskingIsFinite, FS_CardinalityType DEF KeysArePaidFor
  <1>12. IsFiniteSet(minted'[x]) /\ Cardinality(minted'[x]) \in Nat
         /\ Cardinality(minted'[x]) <= Cardinality(minted[x]) + 1
    <2> DEFINE keys == minted[x]
    <2>1. minted'[x] = keys \/ minted'[x] = keys \cup {ref}
      BY <1>1, <1>8 DEF LookupTypes
    <2>2. IsFiniteSet(keys) /\ Cardinality(keys) \in Nat
      BY <1>11
    <2> HIDE DEF keys
    <2>3. /\ IsFiniteSet(keys \cup {ref}) /\ Cardinality(keys \cup {ref}) \in Nat
          /\ Cardinality(keys \cup {ref}) <= Cardinality(keys) + 1
      BY <2>2, OneKeyMore
    <2> DEFINE new == minted'[x]
    <2>4. IsFiniteSet(new) /\ Cardinality(new) \in Nat /\ Cardinality(new) <= Cardinality(keys) + 1
      <3>1. new = keys \/ new = keys \cup {ref}
        BY <2>1
      <3> HIDE DEF new
      <3>2. CASE new = keys
        BY <2>2, <3>2
      <3>3. CASE new = keys \cup {ref}
        BY <2>3, <3>3
      <3> QED
        BY <3>1, <3>2, <3>3
    <2> QED
      BY <2>4 DEF keys
  <1>13. CASE StatusLookup!Refused(v, ref)
    <2>1. Asking(x)' = Asking(x)
      BY <1>1, <1>3, <1>4, <1>13, AskingChanges
    <2>2. /\ Cardinality(minted'[x]) + Cardinality(Asking(x)') <= byAddress'[x]
          /\ Cardinality(minted'[x]) + Cardinality(Asking(x)') <= AddressLimit
      <3>1. CASE minted' = minted
        BY <1>5, <1>6, <1>7, <1>11, <2>1, <3>1 DEF StatusLookup!Count
      <3>2. CASE minted' # minted
        <4>1. ~ (byAddress'[x] > AddressLimit)
          BY <1>10, <3>2
        <4>2. byAddress'[x] \in Int /\ AddressLimit \in Int
          BY <1>5, <1>6, LookupBounds DEF StatusLookup!Count
        <4> QED
          BY <1>5, <1>7, <1>11, <1>12, <2>1, <4>1, <4>2
      <3> QED
        BY <3>1, <3>2
    <2> QED
      BY <1>1, <1>3, <1>6, <1>9, <1>12, <2>2, KeysArePaidForElsewhere DEF KeysArePaidFor
  <1>14. CASE ~ StatusLookup!Refused(v, ref)
    <2>1. Cardinality(Asking(x)') = Cardinality(Asking(x)) + 1
      BY <1>1, <1>3, <1>4, <1>14, AskingChanges
    <2>2. byAddress'[x] \in Int /\ AddressLimit \in Int
      BY <1>5, <1>6, LookupBounds DEF StatusLookup!Count
    <2>3. byAddress'[x] <= AddressLimit
      BY <1>14, <2>2 DEF StatusLookup!Refused
    <2>4. minted' = minted
      BY <1>2, <1>14 DEF StatusLookup!Admit, StatusLookup!Refused
    <2>5. /\ Cardinality(minted'[x]) + Cardinality(Asking(x)') <= byAddress'[x]
          /\ Cardinality(minted'[x]) + Cardinality(Asking(x)') <= AddressLimit
      BY <1>5, <1>7, <1>11, <2>1, <2>2, <2>3, <2>4
    <2> QED
      BY <1>1, <1>3, <1>6, <1>9, <1>12, <2>5, KeysArePaidForElsewhere DEF KeysArePaidFor
  <1> QED
    BY <1>13, <1>14

LEMMA ReadApplicationKeys ==
  ASSUME AccessAssumption, LookupTypes, KeysArePaidFor, NEW v \in Visitors,
         StatusLookup!ReadApplication(v)
  PROVE  KeysArePaidFor'
  <1> DEFINE x == AddressOf[v]
  <1>1. x \in Addresses /\ page[v].state = "sent" /\ byAddress' = byAddress /\ page[v] \in Pages
    BY LookupBounds DEF StatusLookup!ReadApplication, LookupTypes
  <1>2. \A w \in Visitors : w # v => page'[w] = page[w]
    BY DEF StatusLookup!ReadApplication, StatusLookup!Show, LookupTypes
  <1>3. /\ IsFiniteSet(minted[x]) /\ Cardinality(minted[x]) \in Nat /\ Cardinality(Asking(x)) \in Nat
        /\ Cardinality(minted[x]) + Cardinality(Asking(x)) <= byAddress[x]
        /\ Cardinality(minted[x]) + Cardinality(Asking(x)) <= AddressLimit
        /\ byAddress[x] \in Int /\ AddressLimit \in Int
    BY <1>1, AskingIsFinite, FS_CardinalityType, LookupBounds DEF KeysArePaidFor, LookupTypes
  <1>4. CASE page[v].right
    <2> DEFINE read == app[page[v].ref]
    <2>1. minted' = minted /\ page' = [page EXCEPT ![v] = [page[v] EXCEPT !.state = "verified", !.read = read]]
      BY <1>4 DEF StatusLookup!ReadApplication, StatusLookup!Show
    <2> HIDE DEF read
    <2>3. page'[v] = [page[v] EXCEPT !.state = "verified", !.read = read]
      BY <2>1 DEF LookupTypes
    <2>4. page'[v].state = "verified"
      BY <1>1, <2>3 DEF Pages
    <2>2. Asking(x)' = Asking(x)
      BY <1>1, <1>2, <2>4, AskingChanges
    <2> QED
      BY <1>1, <1>2, <1>3, <2>1, <2>2, KeysArePaidForElsewhere DEF KeysArePaidFor
  <1>5. CASE ~ page[v].right
    <2>1. /\ minted' = [minted EXCEPT ![x] = minted[x] \cup {page[v].ref}]
          /\ page'[v].state = "failed"
      BY <1>1, <1>5 DEF StatusLookup!ReadApplication, StatusLookup!Show, LookupTypes, StatusLookup!Form
    <2>2. Cardinality(Asking(x)') = Cardinality(Asking(x)) - 1
      BY <1>1, <1>2, <2>1, AskingChanges
    <2>3. minted'[x] = minted[x] \cup {page[v].ref} /\ \A y \in Addresses : y # x => minted'[y] = minted[y]
      BY <1>1, <2>1 DEF LookupTypes
    <2>4. IsFiniteSet(minted'[x]) /\ Cardinality(minted'[x]) \in Nat
          /\ Cardinality(minted'[x]) <= Cardinality(minted[x]) + 1
      <3> DEFINE keys == minted[x]
                 ref == page[v].ref
      <3>1. IsFiniteSet(keys)
        BY <1>3
      <3> HIDE DEF keys, ref
      <3>2. /\ IsFiniteSet(keys \cup {ref}) /\ Cardinality(keys \cup {ref}) \in Nat
            /\ Cardinality(keys \cup {ref}) <= Cardinality(keys) + 1
        BY <3>1, OneKeyMore
      <3> QED
        BY <2>3, <3>2 DEF keys, ref
    <2>5. /\ Cardinality(minted'[x]) + Cardinality(Asking(x)') <= byAddress'[x]
          /\ Cardinality(minted'[x]) + Cardinality(Asking(x)') <= AddressLimit
      BY <1>1, <1>3, <2>2, <2>4
    <2> QED
      BY <1>1, <1>2, <2>3, <2>4, <2>5, KeysArePaidForElsewhere DEF KeysArePaidFor
  <1> QED
    BY <1>4, <1>5

LEMMA ReadDrawKeys ==
  ASSUME AccessAssumption, LookupTypes, KeysArePaidFor, NEW v \in Visitors, StatusLookup!ReadDraw(v)
  PROVE  KeysArePaidFor'
  <1> DEFINE x == AddressOf[v]
  <1>1. x \in Addresses /\ page[v].state = "verified" /\ minted' = minted
    BY LookupBounds DEF StatusLookup!ReadDraw
  <1>2. /\ \A w \in Visitors : w # v => page'[w] = page[w]
        /\ page'[v].state = "found"
    <2> DEFINE answer == [status |-> StatusLookup!ToPublicApplicationStatus(page[v].read, draw.published),
                          resultsPublished |-> draw.published]
    <2>1. page' = [page EXCEPT ![v] = [page[v] EXCEPT !.state = "found", !.answer = answer]]
      BY ReadDrawAnswers
    <2> HIDE DEF answer
    <2>2. page'[v] = [page[v] EXCEPT !.state = "found", !.answer = answer]
          /\ \A w \in Visitors : w # v => page'[w] = page[w]
      BY <2>1 DEF LookupTypes
    <2>3. page[v] \in Pages
      BY DEF LookupTypes
    <2> QED
      BY <2>2, <2>3 DEF Pages
  <1>3. /\ IsFiniteSet(minted[x]) /\ Cardinality(minted[x]) \in Nat /\ Cardinality(Asking(x)) \in Nat
        /\ Cardinality(minted[x]) + Cardinality(Asking(x)) <= byAddress[x]
        /\ Cardinality(minted[x]) + Cardinality(Asking(x)) <= AddressLimit
        /\ byAddress[x] \in 0 .. MaxCounted /\ AddressLimit \in Int
    BY <1>1, AskingIsFinite, FS_CardinalityType, LookupBounds DEF KeysArePaidFor, LookupTypes
  <1>4. Cardinality(Asking(x)') = Cardinality(Asking(x)) - 1 /\ Cardinality(Asking(x)') \in Nat
    <2>1. Cardinality(Asking(x)') = Cardinality(Asking(x)) - 1
      BY <1>1, <1>2, AskingChanges
    <2>2. v \in Asking(x)
      BY <1>1 DEF Asking
    <2>3. Cardinality(Asking(x)) # 0
      BY <2>2, AskingIsFinite, FS_EmptySet
    <2> QED
      BY <1>3, <2>1, <2>3
  <1>5. /\ byAddress'[x] = StatusLookup!GiveBack(byAddress[x])
        /\ \A y \in Addresses : y # x => byAddress'[y] = byAddress[y]
    BY <1>1 DEF StatusLookup!ReadDraw, LookupTypes
  <1>6. byAddress'[x] = byAddress[x] - 1
    BY <1>3, <1>4, <1>5 DEF StatusLookup!GiveBack
  <1> QED
    BY <1>1, <1>2, <1>3, <1>4, <1>5, <1>6, KeysArePaidForElsewhere DEF KeysArePaidFor

LEMMA StepKeys ==
  ASSUME AccessAssumption, LookupTypes, KeysArePaidFor, [StatusLookup!Next]_(StatusLookup!vars)
  PROVE  KeysArePaidFor'
  <1>1. CASE UNCHANGED <<page, byAddress, minted>>
    BY <1>1 DEF KeysArePaidFor, Asking
  <1>2. CASE \E v \in Visitors : StatusLookup!CheckAnother(v)
    <2>1. PICK v \in Visitors : StatusLookup!CheckAnother(v)
      BY <1>2
    <2>2. /\ \A w \in Visitors : w # v => page'[w] = page[w]
          /\ page[v].state = "found" /\ page'[v].state = "form" /\ UNCHANGED <<minted, byAddress>>
      BY <2>1 DEF StatusLookup!CheckAnother, StatusLookup!Show, StatusLookup!Form, StatusLookup!limits,
         LookupTypes
    <2>3. \A x : Asking(x)' = Asking(x)
      BY <2>2, AskingChanges
    <2> QED
      BY <2>2, <2>3 DEF KeysArePaidFor
  <1>3. CASE \E v \in Visitors : \/ StatusLookup!Submit(v) \/ StatusLookup!ReadApplication(v)
                                 \/ StatusLookup!ReadDraw(v)
    BY <1>3, SubmitKeys, ReadApplicationKeys, ReadDrawKeys
  <1> QED
    BY <1>1, <1>2, <1>3, DrawActs DEF StatusLookup!vars

LEMMA InitKeys == AccessAssumption /\ StatusLookup!Init => KeysArePaidFor
  <1> SUFFICES ASSUME AccessAssumption, StatusLookup!Init, NEW x \in Addresses
               PROVE  /\ IsFiniteSet(minted[x])
                      /\ Cardinality(minted[x]) + Cardinality(Asking(x)) <= byAddress[x]
                      /\ Cardinality(minted[x]) + Cardinality(Asking(x)) <= AddressLimit
    BY DEF KeysArePaidFor
  <1>1. minted[x] = {} /\ byAddress[x] = 0 /\ Asking(x) = {}
    BY DEF StatusLookup!Init, StatusLookup!Form, Asking
  <1>2. AddressLimit \in Nat
    BY LookupBounds
  <1> QED
    BY <1>1, <1>2, FS_EmptySet

LEMMA LookupInvariance == StatusLookup!Spec => [](LookupIInv /\ KeysArePaidFor)
  <1>1. StatusLookup!Init => LookupIInv /\ KeysArePaidFor
    BY InitLookupIInv, InitKeys, AccessAssumption
  <1>2. LookupIInv /\ KeysArePaidFor /\ [StatusLookup!Next]_(StatusLookup!vars)
          => (LookupIInv /\ KeysArePaidFor)'
    BY StepLookupIInv, StepKeys, AccessAssumption DEF LookupIInv
  <1> QED
    BY <1>1, <1>2, PTL DEF StatusLookup!Spec

LEMMA LookupIsTyped == AccessAssumption /\ LookupTypes => StatusLookup!TypeOK
  <1> SUFFICES ASSUME AccessAssumption, LookupTypes PROVE StatusLookup!TypeOK
    OBVIOUS
  <1>1. \A v \in Visitors : page[v] \in Pages /\ PageOK(page[v])
    BY DEF LookupTypes
  <1>2. \A v \in Visitors :
          /\ page[v].state \in {"form", "sent", "verified", "found", "failed"}
          /\ page[v].state \in {"verified", "found"} => page[v].ref \in Applications
    BY <1>1 DEF Pages, PageOK
  <1>3. \A x \in Addresses : byAddress[x] <= MaxCounted /\ minted[x] \subseteq StatusLookup!TypedReferences
    BY LookupBounds DEF LookupTypes
  <1>4. \A r \in StatusLookup!TypedReferences : byReference[r] <= MaxCounted
    BY LookupBounds DEF LookupTypes
  <1> QED
    BY <1>2, <1>3, <1>4 DEF LookupTypes, StatusLookup!TypeOK, AppStatuses

LEMMA NothingEarly == LookupIInv => StatusLookup!NoEarlyOutcome
  <1> SUFFICES ASSUME LookupIInv, NEW v \in Visitors, NEW a \in Applications,
                      last[v][a] # Null, last[v][a].status \in StatusLookup!Outcomes
               PROVE  draw.published
    BY DEF StatusLookup!NoEarlyOutcome
  <1>1. PICK standing \in AppStatuses :
          /\ last[v][a].status =
               StatusLookup!ToPublicApplicationStatus(standing, last[v][a].resultsPublished)
          /\ last[v][a].resultsPublished => draw.published
    BY DEF LookupIInv, ReadsAreTrue
  <1>2. last[v][a] \in Answers
    BY DEF LookupIInv, LookupTypes
  <1>3. last[v][a].resultsPublished \in BOOLEAN
    BY <1>2 DEF Answers
  <1> QED
    BY <1>1, <1>3, AnswerIsTyped

LEMMA KeysFewEnough == AccessAssumption /\ KeysArePaidFor => StatusLookup!KeysAreBounded
  <1> SUFFICES ASSUME AccessAssumption, KeysArePaidFor, NEW x \in Addresses
               PROVE  StatusLookup!Cardinality(minted[x]) <= AddressLimit
    BY DEF StatusLookup!KeysAreBounded
  <1>1. IsFiniteSet(minted[x]) /\ Cardinality(minted[x]) + Cardinality(Asking(x)) <= AddressLimit
    BY DEF KeysArePaidFor
  <1>2. Cardinality(minted[x]) \in Nat /\ Cardinality(Asking(x)) \in Nat /\ AddressLimit \in Nat
    BY <1>1, FS_CardinalityType, AskingIsFinite, LookupBounds
  <1> QED
    BY <1>1, <1>2, LookupFiniteSets

\* Whatever a step does, an answer that was given is followed by itself or by more.
LEMMA NothingIsTakenBack ==
  ASSUME AccessAssumption, LookupIInv, LookupIInv', [StatusLookup!Next]_(StatusLookup!vars),
         NEW v \in Visitors, NEW a \in Applications, last[v][a] # Null
  PROVE  LET old == last[v][a] new == last'[v][a] IN
         /\ old.resultsPublished => new.resultsPublished
         /\ new.status = old.status \/ StatusLookup!Rank(new.status) > StatusLookup!Rank(old.status)
  <1>1. CASE last'[v][a] = last[v][a]
    BY <1>1
  <1>2. CASE last'[v][a] # last[v][a]
    <2>1. PICK w \in Visitors : StatusLookup!ReadDraw(w)
      <3>1. \/ UNCHANGED last
            \/ \E w \in Visitors : StatusLookup!ReadDraw(w)
        <4>1. CASE UNCHANGED StatusLookup!vars
          BY <4>1 DEF StatusLookup!vars
        <4>2. ASSUME NEW w \in Visitors,
                     \/ StatusLookup!Submit(w) \/ StatusLookup!ReadApplication(w)
                     \/ StatusLookup!CheckAnother(w)
              PROVE  UNCHANGED last
          BY <4>2 DEF StatusLookup!Submit, StatusLookup!ReadApplication, StatusLookup!CheckAnother
        <4> QED
          BY <4>1, <4>2, DrawActs DEF LookupIInv
      <3> QED
        BY <1>2, <3>1
    <2> DEFINE answer == [status |-> StatusLookup!ToPublicApplicationStatus(page[w].read, draw.published),
                          resultsPublished |-> draw.published]
    <2>2. w = v /\ a = page[v].ref /\ last'[v][a] = answer /\ page[v].read \in AppStatuses
      BY <1>2, <2>1, ReadDrawAnswers DEF LookupIInv
    <2>3. page[v].state = "verified"
      BY <2>1, <2>2 DEF StatusLookup!ReadDraw
    <2>4. PICK standing \in AppStatuses :
            /\ Leads(standing, NextRead(v, a))
            /\ last[v][a].status =
                 StatusLookup!ToPublicApplicationStatus(standing, last[v][a].resultsPublished)
            /\ last[v][a].resultsPublished => draw.published
      BY DEF LookupIInv, ReadsAreTrue
    <2>5. NextRead(v, a) = page[v].read
      BY <2>2, <2>3 DEF NextRead
    <2>6. last[v][a].resultsPublished \in BOOLEAN /\ draw.published \in BOOLEAN
      <3>1. last[v][a] \in Answers
        BY DEF LookupIInv, LookupTypes
      <3> QED
        BY <3>1 DEF Answers, LookupIInv, LookupTypes
    <2> DEFINE p == last[v][a].resultsPublished
               q == draw.published
               t == page[v].read
               Good(old, new) == new = old \/ StatusLookup!Rank(new) > StatusLookup!Rank(old)
    <2>7. Good(StatusLookup!ToPublicApplicationStatus(standing, p), StatusLookup!ToPublicApplicationStatus(t, q))
      <3>1. Leads(standing, t) /\ t \in AppStatuses /\ p \in BOOLEAN /\ q \in BOOLEAN /\ (p => q)
        BY <2>2, <2>4, <2>5, <2>6
      <3> HIDE DEF p, q, t
      <3> QED
        BY <3>1, NothingIsTakenBackOf
    <2>8. Good(last[v][a].status, last'[v][a].status)
      BY <2>2, <2>4, <2>7
    <2>9. last[v][a].resultsPublished => last'[v][a].resultsPublished
      BY <2>2, <2>4
    <2> QED
      BY <2>8, <2>9
  <1> QED
    BY <1>1, <1>2

\* The lookup as a whole, for any visitors, addresses, applications and limits.
THEOREM NothingIsToldEarly == StatusLookup!Spec => NoEarlyOutcome
  <1>1. LookupIInv /\ KeysArePaidFor
          => StatusLookup!TypeOK /\ StatusLookup!NoEarlyOutcome /\ StatusLookup!KeysAreBounded
    BY LookupIsTyped, NothingEarly, KeysFewEnough, AccessAssumption DEF LookupIInv
  <1> DEFINE Onward ==
        \A v \in Visitors, a \in Applications :
          LET old == last[v][a] new == last'[v][a] IN
          old # Null => /\ old.resultsPublished => new.resultsPublished
                        /\ new.status = old.status \/ StatusLookup!Rank(new.status) > StatusLookup!Rank(old.status)
  <1>2. LookupIInv /\ LookupIInv' /\ [StatusLookup!Next]_(StatusLookup!vars) => [Onward]_(StatusLookup!vars)
    <2> SUFFICES ASSUME LookupIInv, LookupIInv', [StatusLookup!Next]_(StatusLookup!vars) PROVE Onward
      OBVIOUS
    <2> QED
      BY NothingIsTakenBack, AccessAssumption
  <1> HIDE DEF Onward
  <1>3. StatusLookup!Spec => [][Onward]_(StatusLookup!vars)
    BY <1>2, LookupInvariance, PTL DEF StatusLookup!Spec
  <1>4. StatusLookup!Spec => StatusLookup!AnswersNeverGoBack
    BY <1>3 DEF Onward, StatusLookup!AnswersNeverGoBack
  <1>5. StatusLookup!Spec
          => [](StatusLookup!TypeOK /\ StatusLookup!NoEarlyOutcome /\ StatusLookup!KeysAreBounded)
    BY <1>1, LookupInvariance, PTL
  <1> QED
    BY <1>4, <1>5 DEF NoEarlyOutcome

===============================================================================
