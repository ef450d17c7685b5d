---------------------------- MODULE ReservesProofs ----------------------------
(***************************************************************************)
(* Proofs about Reserves, for every draw, every number of calls at a time  *)
(* and every mixture of pairs and single applications.                     *)
(***************************************************************************)
EXTENDS Reserves, FiniteSetTheorems, TLAPS

\* A reserve that was ever called stands for a place its winner gave up.
CallsAreForVacancies ==
  \A r \in Positions : reserve[r].status # "WAITING" => reserve[r].replaces \in abandoned

\* No place has two reserves that have not declined it.
OneReplacement ==
  \A r, s \in Positions :
    /\ reserve[r].replaces = reserve[s].replaces
    /\ reserve[r].status \in {"CALLED", "ACCEPTED"}
    /\ reserve[s].status \in {"CALLED", "ACCEPTED"}
    => r = s

\* Whoever stands before a called reserve was called.
CalledInOrder ==
  \A r, s \in Positions :
    r < s /\ reserve[s].status # "WAITING" => reserve[r].status # "WAITING"

\* What a call in flight has read can no longer become false, but for the
\* reserve still waiting and the place still being free.
CallsReadTrue ==
  \A c \in Clients : request[c] # Idle =>
    /\ request[c].winner \in abandoned
    /\ request[c].at = "claim" =>
         \A s \in Positions : s < request[c].position => reserve[s].status # "WAITING"

\* An imported win excludes for life.
ImportsExclude == legacy \subseteq excluded

IInv ==
  /\ TypeOK
  /\ CallsAreForVacancies
  /\ OneReplacement
  /\ CalledInOrder
  /\ CallsReadTrue
  /\ ImportsExclude
  /\ PromotionIsWhole
  /\ PromotedOnceInLife

------------------------------------------------------------------------------
\* A call in flight has the shape of a call.
LEMMA CallShape ==
  ASSUME TypeOK, NEW c \in Clients, request[c] # Idle
  PROVE  /\ request[c] \in Call
         /\ request[c].winner \in Winners
         /\ request[c].position \in Positions
  BY DEF TypeOK, Call

\* The people of an entry are people of the list, and of no other entry.
LEMMA TravellersApart ==
  /\ \A r \in Positions : Travellers(r) \subseteq People
  /\ \A r, s \in Positions : r # s => Travellers(r) \cap Travellers(s) = {}
  /\ \A x \in People : \E r \in Positions : x \in Travellers(r)
  BY DEF Travellers, People

\* The rows of a draw nobody has acted on have their types.
LEMMA InitTypeOK == Init => TypeOK
  BY DEF Init, TypeOK, Waiting, Reserve

\* Every step keeps the types.
LEMMA StepTypeOK == TypeOK /\ [Next]_vars => TypeOK'
  <1> SUFFICES ASSUME TypeOK, [Next]_vars PROVE TypeOK'
    OBVIOUS
  <1>1. ASSUME NEW w \in Winners, RecordAbandonment(w) PROVE TypeOK'
    BY <1>1 DEF TypeOK, RecordAbandonment, people
  <1>2. ASSUME NEW c \in Clients, NEW w \in Winners, NEW r \in Positions, BeginCall(c, w, r)
        PROVE  TypeOK'
    BY <1>2 DEF TypeOK, BeginCall, people, Call
  <1>3. ASSUME NEW c \in Clients, ConfirmNext(c) PROVE TypeOK'
    <2>1. request[c] \in Call
      BY <1>3, CallShape DEF ConfirmNext, Idle
    <2>2. [request[c] EXCEPT !.at = "claim"] \in Call
      BY <2>1 DEF Call
    <2> QED
      BY <1>3, <2>2 DEF TypeOK, ConfirmNext, people
  <1>4. ASSUME NEW c \in Clients, ClaimReserve(c) PROVE TypeOK'
    <2>1. request[c].winner \in Winners /\ request[c].position \in Positions
      BY <1>4, CallShape DEF ClaimReserve, Idle
    <2>2. [status |-> "CALLED", replaces |-> request[c].winner] \in Reserve
      BY <2>1 DEF Reserve
    <2> QED
      BY <1>4, <2>1, <2>2 DEF TypeOK, ClaimReserve, people
  <1>5. ASSUME NEW c \in Clients, RefuseCall(c) PROVE TypeOK'
    BY <1>5 DEF TypeOK, RefuseCall, people
  <1>6. ASSUME NEW r \in Positions, DeclineReserve(r) PROVE TypeOK'
    <2>1. [reserve[r] EXCEPT !.status = "DECLINED"] \in Reserve
      BY <1>6 DEF TypeOK, DeclineReserve, Reserve, Waiting
    <2> QED
      BY <1>6, <2>1 DEF TypeOK, DeclineReserve, people
  <1>7. ASSUME NEW r \in Positions, PromoteReserve(r) PROVE TypeOK'
    <2>1. [reserve[r] EXCEPT !.status = "ACCEPTED"] \in Reserve
      BY <1>7 DEF TypeOK, PromoteReserve, Reserve, Waiting
    <2> QED
      BY <1>7, <2>1, TravellersApart DEF TypeOK, PromoteReserve
  <1>8. ASSUME NEW x \in People, WinElsewhere(x) PROVE TypeOK'
    BY <1>8 DEF TypeOK, WinElsewhere
  <1>9. ASSUME NEW x \in People, ImportLegacyWin(x) PROVE TypeOK'
    BY <1>9 DEF TypeOK, ImportLegacyWin
  <1>10. CASE UNCHANGED vars
    BY <1>10 DEF TypeOK, vars
  <1> QED
    BY <1>1, <1>2, <1>3, <1>4, <1>5, <1>6, <1>7, <1>8, <1>9, <1>10 DEF Next

------------------------------------------------------------------------------
\* Only three operations write a reserve's row: a call claims a waiting one for
\* a free place, an answer moves a called one and leaves its place alone.
LEMMA ReserveWrites ==
  ASSUME TypeOK, CallsReadTrue, [Next]_vars
  PROVE  \/ reserve' = reserve
         \/ \E r \in Positions, w \in abandoned :
              /\ reserve[r].status = "WAITING"
              /\ Replacing(w) = {}
              /\ \A s \in Positions : s < r => reserve[s].status # "WAITING"
              /\ reserve' = [reserve EXCEPT ![r] = [status |-> "CALLED", replaces |-> w]]
         \/ \E r \in Positions, answer \in {"ACCEPTED", "DECLINED"} :
              /\ reserve[r].status = "CALLED"
              /\ reserve' = [reserve EXCEPT ![r].status = answer]
  <1>1. ASSUME NEW c \in Clients, ClaimReserve(c)
        PROVE  \E r \in Positions, w \in abandoned :
                 /\ reserve[r].status = "WAITING"
                 /\ Replacing(w) = {}
                 /\ \A s \in Positions : s < r => reserve[s].status # "WAITING"
                 /\ reserve' = [reserve EXCEPT ![r] = [status |-> "CALLED", replaces |-> w]]
    <2>1. request[c] # Idle
      BY <1>1 DEF ClaimReserve, Idle
    <2> QED
      BY <1>1, <2>1, CallShape DEF ClaimReserve, CallsReadTrue
  <1>2. ASSUME NEW r \in Positions, DeclineReserve(r) \/ PromoteReserve(r)
        PROVE  \E answer \in {"ACCEPTED", "DECLINED"} :
                 /\ reserve[r].status = "CALLED"
                 /\ reserve' = [reserve EXCEPT ![r].status = answer]
    BY <1>2 DEF DeclineReserve, PromoteReserve
  <1>3. \/ reserve' = reserve
        \/ \E c \in Clients : ClaimReserve(c)
        \/ \E r \in Positions : DeclineReserve(r) \/ PromoteReserve(r)
    BY DEF Next, vars, RecordAbandonment, BeginCall, ConfirmNext, RefuseCall,
           WinElsewhere, ImportLegacyWin
  <1> QED
    BY <1>1, <1>2, <1>3

\* An abandonment is never taken back, and a reserve that was called never
\* waits again.
LEMMA NothingIsTakenBack ==
  ASSUME TypeOK, CallsReadTrue, [Next]_vars
  PROVE  /\ abandoned \subseteq abandoned'
         /\ \A r \in Positions :
              reserve[r].status # "WAITING" => reserve'[r].status # "WAITING"
  <1>1. abandoned \subseteq abandoned'
    BY DEF Next, vars, RecordAbandonment, BeginCall, ConfirmNext, ClaimReserve, RefuseCall,
           DeclineReserve, PromoteReserve, WinElsewhere, ImportLegacyWin
  <1>2. ASSUME NEW r \in Positions, reserve[r].status # "WAITING"
        PROVE  reserve'[r].status # "WAITING"
    <2>1. reserve \in [Positions -> Reserve]
      BY DEF TypeOK
    <2>2. ASSUME NEW q \in Positions, NEW answer \in {"ACCEPTED", "DECLINED"},
                 reserve' = [reserve EXCEPT ![q].status = answer]
          PROVE  reserve'[r].status # "WAITING"
      BY <1>2, <2>1, <2>2 DEF Reserve, Waiting
    <2>3. ASSUME NEW q \in Positions, NEW w \in abandoned,
                 reserve' = [reserve EXCEPT ![q] = [status |-> "CALLED", replaces |-> w]]
          PROVE  reserve'[r].status # "WAITING"
      BY <1>2, <2>1, <2>3
    <2> QED
      BY <1>2, <2>2, <2>3, ReserveWrites
  <1> QED
    BY <1>1, <1>2

\* Every step keeps calls to abandoned places.
LEMMA StepCallsAreForVacancies ==
  TypeOK /\ CallsReadTrue /\ CallsAreForVacancies /\ [Next]_vars => CallsAreForVacancies'
  <1> SUFFICES ASSUME TypeOK, CallsReadTrue, CallsAreForVacancies, [Next]_vars,
                      NEW s \in Positions, reserve'[s].status # "WAITING"
               PROVE  reserve'[s].replaces \in abandoned'
    BY DEF CallsAreForVacancies
  <1>1. \A r \in Positions : reserve[r] \in Reserve
    BY DEF TypeOK
  <1>2. reserve'[s].replaces \in abandoned
    BY <1>1, ReserveWrites DEF TypeOK, CallsAreForVacancies, Reserve, Waiting
  <1> QED
    BY <1>2, NothingIsTakenBack

\* Every step keeps the places to one reserve each.
LEMMA StepOneReplacement ==
  TypeOK /\ CallsReadTrue /\ OneReplacement /\ [Next]_vars => OneReplacement'
  <1> SUFFICES ASSUME TypeOK, CallsReadTrue, OneReplacement, [Next]_vars
               PROVE  OneReplacement'
    OBVIOUS
  <1>1. CASE reserve' = reserve
    BY <1>1 DEF OneReplacement
  <1>2. ASSUME NEW r \in Positions, NEW w \in abandoned, Replacing(w) = {},
               reserve' = [reserve EXCEPT ![r] = [status |-> "CALLED", replaces |-> w]]
        PROVE  OneReplacement'
    BY <1>2 DEF OneReplacement, Replacing, TypeOK
  <1>3. ASSUME NEW r \in Positions, NEW answer \in {"ACCEPTED", "DECLINED"},
               reserve[r].status = "CALLED",
               reserve' = [reserve EXCEPT ![r].status = answer]
        PROVE  OneReplacement'
    <2>1. \A s \in Positions : /\ reserve'[s].replaces = reserve[s].replaces
                               /\ reserve'[s].status \in {"CALLED", "ACCEPTED"}
                                    => reserve[s].status \in {"CALLED", "ACCEPTED"}
      BY <1>3 DEF TypeOK, Reserve, Waiting
    <2> QED
      BY <2>1 DEF OneReplacement
  <1> QED
    BY <1>1, <1>2, <1>3, ReserveWrites

\* Every step keeps the order of the lottery.
LEMMA StepCalledInOrder ==
  TypeOK /\ CallsReadTrue /\ CalledInOrder /\ [Next]_vars => CalledInOrder'
  <1> SUFFICES ASSUME TypeOK, CallsReadTrue, CalledInOrder, [Next]_vars,
                      NEW r \in Positions, NEW s \in Positions,
                      r < s, reserve'[s].status # "WAITING"
               PROVE  reserve'[r].status # "WAITING"
    BY DEF CalledInOrder
  <1>1. CASE reserve[s].status # "WAITING"
    BY <1>1, NothingIsTakenBack DEF CalledInOrder
  <1>2. CASE reserve[s].status = "WAITING"
    <2>1. \A q \in Positions : q < s => reserve[q].status # "WAITING"
      BY <1>2, ReserveWrites DEF TypeOK
    <2> QED
      BY <2>1, NothingIsTakenBack
  <1> QED
    BY <1>1, <1>2

\* What a call has read stays true, whatever commits meanwhile.
LEMMA StepCallsReadTrue == TypeOK /\ CallsReadTrue /\ [Next]_vars => CallsReadTrue'
  <1> SUFFICES ASSUME TypeOK, CallsReadTrue, [Next]_vars,
                      NEW c \in Clients, request'[c] # Idle
               PROVE  /\ request'[c].winner \in abandoned'
                      /\ request'[c].at = "claim" =>
                           \A s \in Positions :
                             s < request'[c].position => reserve'[s].status # "WAITING"
    BY DEF CallsReadTrue
  <1>t. request \in [Clients -> {Idle} \cup Call]
    BY DEF TypeOK
  <1>1. CASE request'[c] = request[c]
    BY <1>1, NothingIsTakenBack, CallShape DEF CallsReadTrue
  <1>2. ASSUME NEW w \in Winners, NEW r \in Positions, BeginCall(c, w, r)
        PROVE  /\ request'[c].winner \in abandoned
               /\ request'[c].at # "claim"
    BY <1>t, <1>2 DEF BeginCall
  <1>3. ASSUME ConfirmNext(c)
        PROVE  /\ request'[c].winner \in abandoned
               /\ \A s \in Positions :
                    s < request'[c].position => reserve[s].status # "WAITING"
    <2>1. request[c] # Idle /\ request[c] \in Call
      BY <1>3, CallShape DEF ConfirmNext, Idle
    <2>2. /\ request'[c].winner = request[c].winner
          /\ request'[c].position = request[c].position
      BY <1>t, <1>3, <2>1 DEF ConfirmNext, Call
    <2> QED
      BY <1>3, <2>1, <2>2 DEF ConfirmNext, NextWaiting, CallsReadTrue
  <1>4. \/ request'[c] = request[c]
        \/ \E w \in Winners, r \in Positions : BeginCall(c, w, r)
        \/ ConfirmNext(c)
    BY <1>t DEF Next, vars, RecordAbandonment, BeginCall, ConfirmNext, ClaimReserve, RefuseCall,
           DeclineReserve, PromoteReserve, WinElsewhere, ImportLegacyWin
  <1> QED
    BY <1>1, <1>2, <1>3, <1>4, NothingIsTakenBack

------------------------------------------------------------------------------
\* Three operations write what is recorded of the people; no other one makes or
\* unmakes an acceptance.
LEMMA PeopleWrites ==
  ASSUME TypeOK, [Next]_vars
  PROVE  \/ /\ UNCHANGED people
            /\ \A r \in Positions :
                 reserve'[r].status = "ACCEPTED" <=> reserve[r].status = "ACCEPTED"
         \/ \E r \in Positions : PromoteReserve(r)
         \/ \E x \in People : WinElsewhere(x)
         \/ \E x \in People : ImportLegacyWin(x)
  <1>t. reserve \in [Positions -> Reserve]
    BY DEF TypeOK
  <1>1. ASSUME NEW c \in Clients, ClaimReserve(c)
        PROVE  /\ UNCHANGED people
               /\ \A r \in Positions :
                    reserve'[r].status = "ACCEPTED" <=> reserve[r].status = "ACCEPTED"
    BY <1>t, <1>1 DEF ClaimReserve
  <1>2. ASSUME NEW q \in Positions, DeclineReserve(q)
        PROVE  /\ UNCHANGED people
               /\ \A r \in Positions :
                    reserve'[r].status = "ACCEPTED" <=> reserve[r].status = "ACCEPTED"
    <2>1. reserve' = [reserve EXCEPT ![q].status = "DECLINED"] /\ reserve[q].status = "CALLED"
      BY <1>2 DEF DeclineReserve
    <2>2. \A r \in Positions :
            reserve'[r].status = "ACCEPTED" <=> reserve[r].status = "ACCEPTED"
      BY <1>t, <2>1 DEF Reserve, Waiting
    <2> QED
      BY <1>2, <2>2 DEF DeclineReserve
  <1>3. \/ UNCHANGED people /\ reserve' = reserve
        \/ \E c \in Clients : ClaimReserve(c)
        \/ \E r \in Positions : DeclineReserve(r) \/ PromoteReserve(r)
        \/ \E x \in People : WinElsewhere(x) \/ ImportLegacyWin(x)
    BY DEF Next, vars, people, RecordAbandonment, BeginCall, ConfirmNext, RefuseCall
  <1> QED
    BY <1>1, <1>2, <1>3

\* Every step keeps the records of the people in accord.
LEMMA StepPeople ==
  TypeOK /\ ImportsExclude /\ PromotionIsWhole /\ PromotedOnceInLife /\ [Next]_vars
    => ImportsExclude' /\ PromotionIsWhole' /\ PromotedOnceInLife'
  <1> SUFFICES ASSUME TypeOK, ImportsExclude, PromotionIsWhole, PromotedOnceInLife, [Next]_vars
               PROVE  ImportsExclude' /\ PromotionIsWhole' /\ PromotedOnceInLife'
    OBVIOUS
  <1>t. /\ reserve \in [Positions -> Reserve]
        /\ application \in [Positions -> {"RESERVE", "SELECTED"}]
        /\ archive \in [People -> {"NONE", "DRAW", "RESERVE_REPLACEMENT"}]
    BY DEF TypeOK
  <1>1. CASE /\ UNCHANGED people
             /\ \A r \in Positions :
                  reserve'[r].status = "ACCEPTED" <=> reserve[r].status = "ACCEPTED"
    BY <1>1 DEF people, ImportsExclude, PromotionIsWhole, PromotedOnceInLife
  <1>2. ASSUME NEW r \in Positions, PromoteReserve(r)
        PROVE  ImportsExclude' /\ PromotionIsWhole' /\ PromotedOnceInLife'
    <2>1. ImportsExclude'
      BY <1>2 DEF PromoteReserve, ImportsExclude
    <2>2. PromotedOnceInLife'
      BY <1>t, <1>2 DEF PromoteReserve, PromotedOnceInLife, ImportsExclude
    <2>3. ASSUME NEW s \in Positions
          PROVE  /\ application'[s] = "SELECTED" <=> reserve'[s].status = "ACCEPTED"
                 /\ \A x \in Travellers(s) :
                      /\ archive'[x] = "RESERVE_REPLACEMENT" <=> reserve'[s].status = "ACCEPTED"
                      /\ x \in ledger' <=> reserve'[s].status = "ACCEPTED"
                      /\ archive'[x] # "NONE" => x \in excluded'
      <3>1. /\ \A x \in People :
                 archive'[x] = IF x \in Travellers(r) THEN "RESERVE_REPLACEMENT" ELSE archive[x]
            /\ excluded' = excluded \cup Travellers(r)
            /\ application' = [application EXCEPT ![r] = "SELECTED"]
            /\ ledger' = ledger \cup Travellers(r)
            /\ reserve' = [reserve EXCEPT ![r].status = "ACCEPTED"]
        BY <1>2 DEF PromoteReserve
      <3>2. Travellers(s) \subseteq People
        BY TravellersApart
      <3>3. CASE s = r
        <4>1. reserve'[s].status = "ACCEPTED" /\ application'[s] = "SELECTED"
          BY <1>t, <3>1, <3>3 DEF Reserve, Waiting
        <4> QED
          BY <3>1, <3>2, <3>3, <4>1
      <3>4. CASE s # r
        <4>1. reserve'[s] = reserve[s] /\ application'[s] = application[s]
          BY <1>t, <3>1, <3>4
        <4>2. Travellers(s) \cap Travellers(r) = {}
          BY <3>4, TravellersApart
        <4>3. /\ application[s] = "SELECTED" <=> reserve[s].status = "ACCEPTED"
              /\ \A x \in Travellers(s) :
                   /\ archive[x] = "RESERVE_REPLACEMENT" <=> reserve[s].status = "ACCEPTED"
                   /\ x \in ledger <=> reserve[s].status = "ACCEPTED"
                   /\ archive[x] # "NONE" => x \in excluded
          BY Zenon DEF PromotionIsWhole
        <4>4. ASSUME NEW x \in Travellers(s)
              PROVE  /\ archive'[x] = archive[x]
                     /\ x \in ledger' <=> x \in ledger
                     /\ x \in excluded => x \in excluded'
          BY <3>1, <3>2, <4>2
        <4> QED
          BY <4>1, <4>3, <4>4
      <3> QED
        BY <3>3, <3>4
    <2>4. PromotionIsWhole'
      BY <2>3, Zenon DEF PromotionIsWhole, Travellers
    <2> QED
      BY <2>1, <2>2, <2>4
  <1>3. ASSUME NEW x \in People, WinElsewhere(x)
        PROVE  ImportsExclude' /\ PromotionIsWhole' /\ PromotedOnceInLife'
    <2>1. ImportsExclude'
      BY <1>3 DEF WinElsewhere, ImportsExclude
    <2>2. PromotedOnceInLife'
      BY <1>t, <1>3 DEF WinElsewhere, PromotedOnceInLife
    <2>3. PromotionIsWhole'
      BY <1>t, <1>3, TravellersApart DEF WinElsewhere, PromotionIsWhole
    <2> QED
      BY <2>1, <2>2, <2>3
  <1>4. ASSUME NEW x \in People, ImportLegacyWin(x)
        PROVE  ImportsExclude' /\ PromotionIsWhole' /\ PromotedOnceInLife'
    <2>1. ImportsExclude'
      BY <1>4 DEF ImportLegacyWin, ImportsExclude
    <2>2. archive[x] = "NONE"
      BY <1>4, TravellersApart DEF ImportLegacyWin, PromotionIsWhole
    <2>3. PromotedOnceInLife'
      BY <1>4, <2>2 DEF ImportLegacyWin, PromotedOnceInLife
    <2>4. PromotionIsWhole'
      BY <1>4 DEF ImportLegacyWin, PromotionIsWhole
    <2> QED
      BY <2>1, <2>3, <2>4
  <1> QED
    BY <1>1, <1>2, <1>3, <1>4, PeopleWrites

------------------------------------------------------------------------------
\* A draw nobody has acted on satisfies the inductive invariant.
LEMMA InitIInv == Init => IInv
  <1> SUFFICES ASSUME Init PROVE IInv
    OBVIOUS
  <1>1. TypeOK
    BY InitTypeOK
  <1>2. CallsAreForVacancies /\ OneReplacement /\ CalledInOrder
    BY DEF Init, Waiting, CallsAreForVacancies, OneReplacement, CalledInOrder
  <1>3. CallsReadTrue
    BY DEF Init, CallsReadTrue
  <1>4. ImportsExclude
    BY DEF Init, ImportsExclude
  <1>5. PromotionIsWhole /\ PromotedOnceInLife
    BY TravellersApart DEF Init, Waiting, PromotionIsWhole, PromotedOnceInLife
  <1> QED
    BY <1>1, <1>2, <1>3, <1>4, <1>5 DEF IInv

\* Every step keeps the inductive invariant.
LEMMA StepIInv == IInv /\ [Next]_vars => IInv'
  BY StepTypeOK, StepCallsAreForVacancies, StepOneReplacement, StepCalledInOrder,
     StepCallsReadTrue, StepPeople DEF IInv

\* The inductive invariant holds in every reachable state.
THEOREM Invariance == Spec => []IInv
  BY InitIInv, StepIInv, PTL DEF Spec

\* Every row keeps the shape its table gives it.
THEOREM TypeCorrect == Spec => []TypeOK
  <1>1. IInv => TypeOK
    BY DEF IInv
  <1> QED
    BY <1>1, Invariance, PTL

\* An acceptance is recorded for all travellers of the entry in all records, and
\* for nobody else on the list, whatever draws and imports commit meanwhile.
THEOREM PromotionsAreWhole == Spec => []PromotionIsWhole
  <1>1. IInv => PromotionIsWhole
    BY DEF IInv
  <1> QED
    BY <1>1, Invariance, PTL

\* Nobody is both promoted from the reserve list and an imported earlier winner.
THEOREM OnceInLife == Spec => []PromotedOnceInLife
  <1>1. IInv => PromotedOnceInLife
    BY DEF IInv
  <1> QED
    BY <1>1, Invariance, PTL

------------------------------------------------------------------------------
\* A waiting reserve stands for no place, every other one for a place of the draw.
LEMMA WhatReservesReplace ==
  ASSUME TypeOK, NEW r \in Positions
  PROVE  /\ reserve[r].status = "WAITING" => reserve[r].replaces \notin Winners
         /\ reserve[r].status # "WAITING" => reserve[r].replaces \in Winners
  BY DrawAssumption DEF TypeOK, Reserve, Waiting, NoWinner, Winners

\* An abandonment is the abstract giving up of a place.
LEMMA AbandonmentGivesUp ==
  ASSUME IInv, NEW w \in Winners, RecordAbandonment(w)
  PROVE  Book!GiveUp(w)
  <1>1. /\ w \notin abandoned /\ abandoned' = abandoned \cup {w} /\ reserve' = reserve
    BY DEF RecordAbandonment
  <1>2. Replacing(w) = {}
    BY <1>1, WhatReservesReplace DEF IInv, CallsAreForVacancies, Replacing
  <1>3. PlaceOf(w) = "held" /\ PlaceOf(w)' = "vacant"
    BY <1>1, <1>2 DEF PlaceOf, Replacing
  <1>4. \A v \in Winners \ {w} : PlaceOf(v)' = PlaceOf(v)
    BY <1>1 DEF PlaceOf, Replacing, Accepted
  <1> QED
    BY <1>1, <1>3, <1>4 DEF Book!GiveUp, Book!Becomes, Winners

\* A claim that is written is the abstract offer, to the next reserve in order.
LEMMA ClaimOffers ==
  ASSUME IInv, NEW r \in Positions, NEW w \in abandoned,
         reserve[r].status = "WAITING",
         Replacing(w) = {},
         \A s \in Positions : s < r => reserve[s].status # "WAITING",
         reserve' = [reserve EXCEPT ![r] = [status |-> "CALLED", replaces |-> w]],
         abandoned' = abandoned
  PROVE  Book!Offer(w)
  <1>1. w \in Winners
    BY DEF IInv, TypeOK
  <1>3. reserve \in [Positions -> Reserve]
    BY DEF IInv, TypeOK
  <1>4. PlaceOf(w) = "vacant" /\ PlaceOf(w)' = "offered"
    BY <1>1, <1>3 DEF PlaceOf, Replacing, Accepted
  <1>5. ASSUME NEW v \in Winners \ {w} PROVE PlaceOf(v)' = PlaceOf(v)
    <2>1. reserve[r].replaces # v
      BY <1>1, WhatReservesReplace DEF IInv
    <2>2. Replacing(v)' = Replacing(v) /\ r \notin Replacing(v)
      BY <1>1, <1>3, <2>1 DEF Replacing
    <2>3. Accepted' = Accepted
      BY <1>1, <1>3 DEF Accepted
    <2> QED
      BY <2>2, <2>3 DEF PlaceOf
  <1>6. \A s \in Positions : reserve[s].status # "WAITING" <=> s < r
    <2>1. \A s \in Positions : r < s => reserve[s].status = "WAITING"
      BY <1>1 DEF IInv, CalledInOrder
    <2> QED
      BY <1>1, <2>1 DEF Positions
  <1>7. {s \in Positions : reserve[s].status # "WAITING"} = 1 .. r - 1
    BY <1>1, <1>6, DrawAssumption DEF Positions
  <1>8. {s \in Positions : reserve'[s].status # "WAITING"} = 1 .. r
    <2>1. \A s \in Positions : reserve'[s].status # "WAITING" <=> s < r \/ s = r
      BY <1>1, <1>3, <1>6
    <2> QED
      BY <1>1, <2>1, DrawAssumption DEF Positions
  <1>9. [v \in Winners |-> PlaceOf(v)]'
          = [[v \in Winners |-> PlaceOf(v)] EXCEPT ![w] = "offered"]
    BY <1>1, <1>4, <1>5
  <1> QED
    BY <1>1, <1>4, <1>7, <1>8, <1>9 DEF Book!Offer, Book!Becomes, Winners, Positions

\* Whichever answer a called reserve gives, its place was offered to it alone,
\* and the other places do not notice.
LEMMA AnswerIsForOnePlace ==
  ASSUME IInv, NEW r \in Positions, NEW answer \in {"ACCEPTED", "DECLINED"},
         NEW w, reserve[r].replaces = w,
         reserve[r].status = "CALLED",
         reserve' = [reserve EXCEPT ![r].status = answer],
         abandoned' = abandoned
  PROVE  /\ w \in Winners
         /\ PlaceOf(w) = "offered"
         /\ PlaceOf(w)' = IF answer = "ACCEPTED" THEN "filled" ELSE "vacant"
         /\ \A v \in Winners \ {w} : PlaceOf(v)' = PlaceOf(v)
         /\ {s \in Positions : reserve'[s].status # "WAITING"}
              = {s \in Positions : reserve[s].status # "WAITING"}
  <1>1. reserve \in [Positions -> Reserve]
    BY DEF IInv, TypeOK
  <1>2. w \in Winners /\ w \in abandoned
    BY WhatReservesReplace DEF IInv, CallsAreForVacancies
  <1>3. Replacing(w) = {r}
    <2>1. ASSUME NEW s \in Replacing(w) PROVE s = r
      <3>1. s \in Positions /\ reserve[s].replaces = w /\ reserve[s].status # "DECLINED"
        BY <2>1 DEF Replacing
      <3>2. reserve[s].status \in {"CALLED", "ACCEPTED"}
        BY <1>1, <1>2, <3>1, WhatReservesReplace DEF IInv, Reserve, Waiting
      <3> QED
        BY <3>1, <3>2 DEF IInv, OneReplacement
    <2> QED
      BY <2>1 DEF Replacing
  <1>4. /\ reserve'[r].status = answer
        /\ \A s \in Positions : reserve'[s].replaces = reserve[s].replaces
        /\ \A s \in Positions \ {r} : reserve'[s].status = reserve[s].status
    BY <1>1 DEF Reserve, Waiting
  <1>5. PlaceOf(w) = "offered"
    BY <1>2, <1>3 DEF PlaceOf, Accepted
  <1>6. /\ Replacing(w)' = IF answer = "ACCEPTED" THEN {r} ELSE {}
        /\ answer = "ACCEPTED" => r \in Accepted'
    BY <1>3, <1>4 DEF Replacing, Accepted
  <1>7. PlaceOf(w)' = IF answer = "ACCEPTED" THEN "filled" ELSE "vacant"
    BY <1>2, <1>6 DEF PlaceOf
  <1>8. ASSUME NEW v \in Winners \ {w} PROVE PlaceOf(v)' = PlaceOf(v)
    <2>1. Replacing(v)' = Replacing(v) /\ r \notin Replacing(v)
      BY <1>4 DEF Replacing
    <2>2. Replacing(v) \cap Accepted' = Replacing(v) \cap Accepted
      BY <1>4, <2>1 DEF Accepted, Replacing
    <2> QED
      BY <2>1, <2>2 DEF PlaceOf
  <1> QED
    BY <1>2, <1>4, <1>5, <1>7, <1>8

\* An answer is the abstract turning down or taking up of the place.
LEMMA AnswersMap ==
  ASSUME IInv, NEW r \in Positions, DeclineReserve(r) \/ PromoteReserve(r)
  PROVE  \E w \in Winners : Book!TurnDown(w) \/ Book!TakeUp(w)
  <1>1. PICK answer \in {"ACCEPTED", "DECLINED"} :
          /\ reserve[r].status = "CALLED"
          /\ reserve' = [reserve EXCEPT ![r].status = answer]
          /\ abandoned' = abandoned
    BY DEF DeclineReserve, PromoteReserve
  <1>2. PICK w : reserve[r].replaces = w
    OBVIOUS
  <1>3. /\ w \in Winners
        /\ PlaceOf(w) = "offered"
        /\ PlaceOf(w)' = IF answer = "ACCEPTED" THEN "filled" ELSE "vacant"
        /\ \A v \in Winners \ {w} : PlaceOf(v)' = PlaceOf(v)
        /\ {s \in Positions : reserve'[s].status # "WAITING"}
             = {s \in Positions : reserve[s].status # "WAITING"}
    BY <1>1, <1>2, AnswerIsForOnePlace
  <1>4. [v \in Winners |-> PlaceOf(v)]'
          = [[v \in Winners |-> PlaceOf(v)] EXCEPT
               ![w] = IF answer = "ACCEPTED" THEN "filled" ELSE "vacant"]
    BY <1>3
  <1>5. CASE answer = "ACCEPTED"
    BY <1>3, <1>4, <1>5 DEF Book!TakeUp, Book!Becomes
  <1>6. CASE answer = "DECLINED"
    BY <1>3, <1>4, <1>6 DEF Book!TurnDown, Book!Becomes
  <1> QED
    BY <1>3, <1>5, <1>6

\* A step that writes neither an abandonment nor a reserve is not seen.
LEMMA UnseenStep ==
  ASSUME abandoned' = abandoned, reserve' = reserve
  PROVE  UNCHANGED Book!bookVars
  <1>1. \A w \in Winners : PlaceOf(w)' = PlaceOf(w)
    BY DEF PlaceOf, Replacing, Accepted
  <1> QED
    BY <1>1 DEF Book!bookVars

\* Every step of the code is a step of the abstract book, or unseen by it.
LEMMA StepBook == IInv /\ [Next]_vars => [Book!Next]_(Book!bookVars)
  <1> SUFFICES ASSUME IInv, [Next]_vars PROVE [Book!Next]_(Book!bookVars)
    OBVIOUS
  <1> USE DEF Book!Next, Winners
  <1>1. ASSUME NEW w \in Winners, RecordAbandonment(w) PROVE Book!Next
    BY <1>1, AbandonmentGivesUp
  <1>2. ASSUME NEW c \in Clients, ClaimReserve(c) PROVE Book!Next
    <2>1. PICK r \in Positions, w \in abandoned :
            /\ reserve[r].status = "WAITING"
            /\ Replacing(w) = {}
            /\ \A s \in Positions : s < r => reserve[s].status # "WAITING"
            /\ reserve' = [reserve EXCEPT ![r] = [status |-> "CALLED", replaces |-> w]]
            /\ abandoned' = abandoned
      <3>1. request[c] # Idle
        BY <1>2 DEF ClaimReserve, Idle
      <3> QED
        BY <1>2, <3>1, CallShape DEF ClaimReserve, CallsReadTrue, IInv
    <2>2. Book!Offer(w) /\ w \in Winners
      BY <2>1, ClaimOffers DEF IInv, TypeOK
    <2> QED
      BY <2>2
  <1>3. ASSUME NEW r \in Positions, DeclineReserve(r) \/ PromoteReserve(r) PROVE Book!Next
    BY <1>3, AnswersMap
  <1>4. \/ abandoned' = abandoned /\ reserve' = reserve
        \/ \E w \in Winners : RecordAbandonment(w)
        \/ \E c \in Clients : ClaimReserve(c)
        \/ \E r \in Positions : DeclineReserve(r) \/ PromoteReserve(r)
    BY DEF Next, vars, BeginCall, ConfirmNext, RefuseCall, WinElsewhere, ImportLegacyWin
  <1> QED
    BY <1>1, <1>2, <1>3, <1>4, UnseenStep

\* Before anybody acts the abstract book is as the lottery left it.
LEMMA InitBook == Init => Book!Init
  BY DEF Init, Book!Init, PlaceOf, Waiting, Winners

\* The code implements the abstract book of places: whatever runs concurrently, a
\* place goes from its winner to one reserve at a time in the order of the
\* lottery, and no place is added.
THEOREM PlaceBookKept == Spec => KeepsPlaceBook
  <1>1. Spec => Book!Init /\ [][Book!Next]_(Book!bookVars)
    BY InitBook, StepBook, Invariance, PTL DEF Spec
  <1> QED
    BY <1>1 DEF KeepsPlaceBook, Book!Spec

------------------------------------------------------------------------------
\* The recount of places passes for whoever has been called: called and accepted
\* reserves stand for different places, each of them abandoned.
LEMMA RoomFollows == IInv => RoomForEveryCall
  <1> SUFFICES ASSUME IInv, NEW r \in Positions, reserve[r].status = "CALLED"
               PROVE  Cardinality(Accepted \cup {r}) <= Cardinality(abandoned)
    BY DEF RoomForEveryCall, PlacesReconcile
  <1> DEFINE standsFor == [s \in Accepted \cup {r} |-> reserve[s].replaces]
  <1>1. standsFor \in [Accepted \cup {r} -> abandoned]
    BY DEF IInv, CallsAreForVacancies, Accepted
  <1>2. ASSUME NEW s \in Accepted \cup {r}, NEW q \in Accepted \cup {r},
               standsFor[s] = standsFor[q]
        PROVE  s = q
    BY <1>2 DEF IInv, OneReplacement, Accepted
  <1>3. standsFor \in Injection(Accepted \cup {r}, abandoned)
    BY <1>1, <1>2 DEF Injection, IsInjective
  <1>4. IsFiniteSet(abandoned)
    <2>1. IsFiniteSet(1 .. WinnerCount)
      BY DrawAssumption, FS_Interval
    <2> QED
      BY <2>1, FS_Subset DEF IInv, TypeOK, Winners
  <1> QED
    BY <1>3, <1>4, FS_Injection

\* However many calls and answers are open, an acceptance never fails the recount.
THEOREM RoomForCalled == Spec => []RoomForEveryCall
  BY RoomFollows, Invariance, PTL

==============================================================================
