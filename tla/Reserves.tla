------------------------------- MODULE Reserves -------------------------------
(***************************************************************************)
(* After the lottery: winners of one commune draw give up their places,    *)
(* and reserves are called, decline or accept (ReserveService).            *)
(*                                                                         *)
(* Every operation is one READ COMMITTED transaction.  Recording an        *)
(* abandonment or an answer comes down to one conditional write, and is    *)
(* one step.  A call is decided by three reads before its conditional      *)
(* write, between which other transactions commit: it is three steps.      *)
(* Meanwhile the people on the list live on: other draws are executed and  *)
(* registers of earlier winners are imported.                              *)
(***************************************************************************)
EXTENDS Integers, FiniteSets

CONSTANTS
  WinnerCount,     \* entries drawn as winners, by selection order
  ReserveCount,    \* entries drawn as reserves, by position
  PairedWinners,   \* winners that are two pilgrims
  PairedReserves,  \* reserves that are two pilgrims
  Clients          \* calls the server works on at the same time

ASSUME DrawAssumption ==
  /\ WinnerCount \in Nat
  /\ ReserveCount \in Nat
  /\ PairedWinners \subseteq 1 .. WinnerCount
  /\ PairedReserves \subseteq 1 .. ReserveCount
  \* The lottery filled both quotas with as many pilgrims.
  /\ WinnerCount + Cardinality(PairedWinners) = ReserveCount + Cardinality(PairedReserves)

VARIABLES
  abandoned,       \* winner_abandonments, by selection order
  reserve,         \* draw_reserves: status and replaces_draw_winner_id
  application,     \* applications.status of the reserves
  archive,         \* winner_archive.source, by person
  legacy,          \* legacy_winners
  excluded,        \* participants whose has_won_hajj is set
  ledger,          \* participation_history rows of this year that say won
  request          \* what each call has read so far

people == <<application, archive, legacy, excluded, ledger>>

vars == <<abandoned, reserve, application, archive, legacy, excluded, ledger, request>>

Winners == 1 .. WinnerCount
Positions == 1 .. ReserveCount

NoWinner == 0

Waiting == [status |-> "WAITING", replaces |-> NoWinner]

Reserve == {Waiting} \cup [status : {"CALLED", "ACCEPTED", "DECLINED"}, replaces : Winners]

\* The people behind the reserves.
Travellers(r) == {r} \X (IF r \in PairedReserves THEN {1, 2} ELSE {1})

People == UNION {Travellers(r) : r \in Positions}

Idle == [at |-> "idle"]

Call == [at : {"vacancy", "claim"}, winner : Winners, position : Positions]

------------------------------------------------------------------------------
\* draw_reserves_active_replacement_key: a declined reserve holds no place.
Replacing(w) == {r \in Positions : reserve[r].replaces = w /\ reserve[r].status # "DECLINED"}

Accepted == {r \in Positions : reserve[r].status = "ACCEPTED"}

\* Faulty: the list is read from its end.
LastWaiting(r) ==
  /\ reserve[r].status = "WAITING"
  /\ \A s \in Positions : s > r => reserve[s].status # "WAITING"

NextWaiting(r) ==
  /\ reserve[r].status = "WAITING"
  /\ \A s \in Positions : s < r => reserve[s].status # "WAITING"

\* winners - abandoned + promoted > winners is refused; the counts are rows.
PlacesReconcile(promoted) == Cardinality(promoted) <= Cardinality(abandoned)

Init ==
  /\ abandoned = {}
  /\ reserve = [r \in Positions |-> Waiting]
  /\ application = [r \in Positions |-> "RESERVE"]
  /\ archive = [x \in People |-> "NONE"]
  /\ legacy = {}
  /\ excluded = {}
  /\ ledger = {}
  /\ request = [c \in Clients |-> Idle]

------------------------------------------------------------------------------
\* winner_abandonments_draw_winner_id_key, append-only.
RecordAbandonment(w) ==
  /\ w \notin abandoned
  /\ abandoned' = abandoned \cup {w}
  /\ UNCHANGED <<reserve, people, request>>

\* callNextReserve(), first two reads: the winner is gone and the place free.
BeginCall(c, w, r) ==
  /\ request[c] = Idle
  /\ w \in abandoned
  /\ Replacing(w) = {}
  /\ request' = [request EXCEPT ![c] = [at |-> "vacancy", winner |-> w, position |-> r]]
  /\ UNCHANGED <<abandoned, reserve, people>>

\* Third read: the position asked for is the next one waiting.
ConfirmNext(c) ==
  /\ request[c].at = "vacancy"
  /\ NextWaiting(request[c].position)
  /\ request' = [request EXCEPT ![c].at = "claim"]
  /\ UNCHANGED <<abandoned, reserve, people>>

\* Faulty: no index keeps a place from being offered twice.
ClaimUnindexed(c) ==
  LET r == request[c].position IN
  /\ request[c].at = "claim"
  /\ reserve[r].status = "WAITING"
  /\ reserve' = [reserve EXCEPT ![r] = [status |-> "CALLED", replaces |-> request[c].winner]]
  /\ request' = [request EXCEPT ![c] = Idle]
  /\ UNCHANGED <<abandoned, people>>

\* Faulty: the claim forgets which place it is for.
ClaimForNoPlace(c) ==
  LET r == request[c].position IN
  /\ request[c].at = "claim"
  /\ reserve[r].status = "WAITING"
  /\ reserve' = [reserve EXCEPT ![r].status = "CALLED"]
  /\ request' = [request EXCEPT ![c] = Idle]
  /\ UNCHANGED <<abandoned, people>>

\* The write: conditional on WAITING, and on the partial unique index.
ClaimReserve(c) ==
  LET r == request[c].position
      w == request[c].winner
  IN
  /\ request[c].at = "claim"
  /\ reserve[r].status = "WAITING"
  /\ Replacing(w) = {}
  /\ reserve' = [reserve EXCEPT ![r] = [status |-> "CALLED", replaces |-> w]]
  /\ request' = [request EXCEPT ![c] = Idle]
  /\ UNCHANGED <<abandoned, people>>

\* A call answers without having written: out of order, already called, a place
\* already filled, a crash.
RefuseCall(c) ==
  /\ request[c] # Idle
  /\ request' = [request EXCEPT ![c] = Idle]
  /\ UNCHANGED <<abandoned, reserve, people>>

DeclineReserve(r) ==
  /\ reserve[r].status = "CALLED"
  /\ reserve' = [reserve EXCEPT ![r].status = "DECLINED"]
  /\ UNCHANGED <<abandoned, people, request>>

\* Faulty: the archive is trusted to know of every earlier win.
PromoteByArchive(r) ==
  /\ reserve[r].status = "CALLED"
  /\ \A x \in Travellers(r) : archive[x] = "NONE"
  /\ reserve' = [reserve EXCEPT ![r].status = "ACCEPTED"]
  /\ archive' = [x \in People |-> IF x \in Travellers(r) THEN "RESERVE_REPLACEMENT" ELSE archive[x]]
  /\ excluded' = excluded \cup Travellers(r)
  /\ application' = [application EXCEPT ![r] = "SELECTED"]
  /\ ledger' = ledger \cup Travellers(r)
  /\ PlacesReconcile(Accepted')
  /\ UNCHANGED <<abandoned, legacy, request>>

\* Faulty: half of a pair is promoted.
PromotePrimary(r) ==
  /\ reserve[r].status = "CALLED"
  /\ archive[<<r, 1>>] = "NONE"
  /\ <<r, 1>> \notin excluded
  /\ reserve' = [reserve EXCEPT ![r].status = "ACCEPTED"]
  /\ archive' = [archive EXCEPT ![<<r, 1>>] = "RESERVE_REPLACEMENT"]
  /\ excluded' = excluded \cup {<<r, 1>>}
  /\ application' = [application EXCEPT ![r] = "SELECTED"]
  /\ ledger' = ledger \cup Travellers(r)
  /\ PlacesReconcile(Accepted')
  /\ UNCHANGED <<abandoned, legacy, request>>

\* Claim, archive, exclude by compare-and-set, settle, correct the ledger,
\* recount: all of it or none.
PromoteReserve(r) ==
  /\ reserve[r].status = "CALLED"
  /\ \A x \in Travellers(r) : archive[x] = "NONE" /\ x \notin excluded
  /\ reserve' = [reserve EXCEPT ![r].status = "ACCEPTED"]
  /\ archive' = [x \in People |-> IF x \in Travellers(r) THEN "RESERVE_REPLACEMENT" ELSE archive[x]]
  /\ excluded' = excluded \cup Travellers(r)
  /\ application' = [application EXCEPT ![r] = "SELECTED"]
  /\ ledger' = ledger \cup Travellers(r)
  /\ PlacesReconcile(Accepted')
  /\ UNCHANGED <<abandoned, legacy, request>>

------------------------------------------------------------------------------
(* The rest of the system, as far as it touches the people on the list.     *)

\* The execution of another draw selects one of them: the archive is unique by
\* person, the exclusion is set whatever it was.
WinElsewhere(x) ==
  /\ archive[x] = "NONE"
  /\ archive' = [archive EXCEPT ![x] = "DRAW"]
  /\ excluded' = excluded \cup {x}
  /\ UNCHANGED <<abandoned, reserve, application, legacy, ledger, request>>

\* An import of earlier winners names one of them: compare-and-set only.
ImportLegacyWin(x) ==
  /\ x \notin excluded
  /\ legacy' = legacy \cup {x}
  /\ excluded' = excluded \cup {x}
  /\ UNCHANGED <<abandoned, reserve, application, archive, ledger, request>>

Next ==
  \/ \E w \in Winners : RecordAbandonment(w)
  \/ \E c \in Clients, w \in Winners, r \in Positions : BeginCall(c, w, r)
  \/ \E c \in Clients : ConfirmNext(c) \/ ClaimReserve(c) \/ RefuseCall(c)
  \/ \E r \in Positions : DeclineReserve(r) \/ PromoteReserve(r)
  \/ \E x \in People : WinElsewhere(x) \/ ImportLegacyWin(x)

Spec == Init /\ [][Next]_vars

------------------------------------------------------------------------------
\* Every row has the shape its table's constraints give it.
TypeOK ==
  /\ abandoned \subseteq Winners
  /\ reserve \in [Positions -> Reserve]
  /\ application \in [Positions -> {"RESERVE", "SELECTED"}]
  /\ archive \in [People -> {"NONE", "DRAW", "RESERVE_REPLACEMENT"}]
  /\ legacy \subseteq People
  /\ excluded \subseteq People
  /\ ledger \subseteq People
  /\ request \in [Clients -> {Idle} \cup Call]

\* Whoever accepted had every one of its travellers become a winner in all the
\* records that say so, and nobody else on the list did: also while other draws
\* and imports claim the same people.
PromotionIsWhole ==
  \A r \in Positions :
    /\ application[r] = "SELECTED" <=> reserve[r].status = "ACCEPTED"
    /\ \A x \in Travellers(r) :
         /\ archive[x] = "RESERVE_REPLACEMENT" <=> reserve[r].status = "ACCEPTED"
         /\ x \in ledger <=> reserve[r].status = "ACCEPTED"
         /\ archive[x] # "NONE" => x \in excluded

\* A reserve who was promoted is in no register of earlier winners, whether the
\* import came before the answer or after it.
PromotedOnceInLife ==
  \A x \in People : archive[x] = "RESERVE_REPLACEMENT" => x \notin legacy

\* A called reserve's acceptance never fails the recount of places, however many
\* calls and answers are open.
RoomForEveryCall ==
  \A r \in Positions :
    reserve[r].status = "CALLED" => PlacesReconcile(Accepted \cup {r})

\* What an observer of the places sees.
PlaceOf(w) ==
  CASE w \notin abandoned -> "held"
    [] w \in abandoned /\ Replacing(w) = {} -> "vacant"
    [] w \in abandoned /\ Replacing(w) \cap Accepted # {} -> "filled"
    [] OTHER -> "offered"

\* Places go from the winner to one reserve at a time, in the lottery's order,
\* whichever calls run at the same time.
Book == INSTANCE PlaceBook WITH
  place <- [w \in Winners |-> PlaceOf(w)],
  asked <- {r \in Positions : reserve[r].status # "WAITING"}

KeepsPlaceBook == Book!Spec

------------------------------------------------------------------------------
(* What the documentation says of the system, and what a pair makes of it.  *)

\* No promotion awards more places than the commune allocated.  The lottery
\* fills the allocation exactly, so it is what the winners amount to.
NeverMorePilgrimsThanAllocated ==
  LET Pilgrims(winners, reserves) ==
        Cardinality(winners) + Cardinality(winners \cap PairedWinners)
          + Cardinality(reserves) + Cardinality(reserves \cap PairedReserves)
  IN  Pilgrims(Winners \ abandoned, Accepted) <= Pilgrims(Winners, {})

==============================================================================
