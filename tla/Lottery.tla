------------------------------- MODULE Lottery -------------------------------
(***************************************************************************)
(* The lottery engine: one continuous weighted sample without replacement  *)
(* from a frozen pool, which fills two quotas of pilgrim places, first the *)
(* winners' and then the reserves'.                                        *)
(*                                                                         *)
(* An entry is its position in the pool, which is read in the order of the *)
(* application ids.  A single application takes one place, a pair takes    *)
(* two.  The engine runs inside one transaction: a refusal writes nothing, *)
(* and an administrator may run it again.                                  *)
(***************************************************************************)
EXTENDS Integers, Sequences, FiniteSets, FiniteSetsExt, Functions

CONSTANTS
  EntryCount,     \* entries in the pool
  MaxWeight,      \* bound on the weight of an entry
  MaxSpots        \* bound on the allocation

ASSUME PoolAssumption ==
  /\ EntryCount \in Nat \ {0}
  /\ MaxWeight \in Nat \ {0}
  /\ MaxSpots \in Nat \ {0}

VARIABLES
  pool,           \* the frozen pool: weights, pairs, allocated spots
  state,          \* what became of the call
  remaining,      \* entries not selected yet
  quota,          \* 1 while winners are drawn, 2 while reserves are
  capacity,       \* pilgrim places left in this quota
  phases,         \* entries selected for each quota, in order
  events          \* the record of every selection

vars == <<pool, state, remaining, quota, capacity, phases, events>>

Entries == 1 .. EntryCount

PoolRows == [weight : [Entries -> 1 .. MaxWeight], pairs : SUBSET Entries, spots : 1 .. MaxSpots]

State == {"locked", "drawing", "drawn", "INSUFFICIENT_DRAW_ENTRIES", "QUOTA_NOT_EXACTLY_FILLABLE"}

SelectionEvent == [total : Nat, value : Nat, entry : Entries]

------------------------------------------------------------------------------
PilgrimCount(e) == IF e \in pool.pairs THEN 2 ELSE 1

\* pilgrimsOf, totalPilgrimCapacity
Pilgrims(entries) == Cardinality(entries) + Cardinality(entries \cap pool.pairs)

TotalWeight(entries) == MapThenSumSet(LAMBDA e : pool.weight[e], entries)

\* The entries that fit the places left.
Fitting(entries, places) == {e \in entries : PilgrimCount(e) <= places}

\* Faulty: the boundary belongs to both neighbours.
FirstReaching(candidates, value, e) ==
  /\ e \in candidates
  /\ value <= TotalWeight({f \in candidates : f <= e})
  /\ \A f \in candidates : f < e => value > TotalWeight({g \in candidates : g <= f})

\* e is the first candidate whose cumulative weight exceeds the value.
IsAtCumulativeWeight(candidates, value, e) ==
  /\ e \in candidates
  /\ value < TotalWeight({f \in candidates : f <= e})
  /\ \A f \in candidates : f < e => value >= TotalWeight({g \in candidates : g <= f})

Init ==
  /\ pool \in PoolRows
  /\ state = "locked"
  /\ remaining = Entries
  /\ quota = 1
  /\ capacity = 0
  /\ phases = <<<<>>, <<>>>>
  /\ events = <<>>

\* Faulty: one quota's worth of pilgrims is thought to be enough.
BeginForWinners ==
  /\ state \in {"locked", "QUOTA_NOT_EXACTLY_FILLABLE"}
  /\ Pilgrims(Entries) >= pool.spots
  /\ state' = "drawing"
  /\ remaining' = Entries
  /\ quota' = 1
  /\ capacity' = pool.spots
  /\ phases' = <<<<>>, <<>>>>
  /\ events' = <<>>
  /\ UNCHANGED pool

\* The pool can supply both quotas; every attempt draws a fresh sample.
Begin ==
  /\ state \in {"locked", "QUOTA_NOT_EXACTLY_FILLABLE"}
  /\ Pilgrims(Entries) >= 2 * pool.spots
  /\ state' = "drawing"
  /\ remaining' = Entries
  /\ quota' = 1
  /\ capacity' = pool.spots
  /\ phases' = <<<<>>, <<>>>>
  /\ events' = <<>>
  /\ UNCHANGED pool

RefuseInsufficient ==
  /\ state = "locked"
  /\ Pilgrims(Entries) < 2 * pool.spots
  /\ state' = "INSUFFICIENT_DRAW_ENTRIES"
  /\ UNCHANGED <<pool, remaining, quota, capacity, phases, events>>

\* Faulty: the event is recorded once the entry is gone.
SelectThenRecord ==
  /\ state = "drawing"
  /\ capacity > 0
  /\ LET candidates == Fitting(remaining, capacity) IN
       \E value \in 0 .. TotalWeight(candidates) - 1, e \in candidates :
         /\ IsAtCumulativeWeight(candidates, value, e)
         /\ remaining' = remaining \ {e}
         /\ capacity' = capacity - PilgrimCount(e)
         /\ phases' = [phases EXCEPT ![quota] = Append(@, e)]
         /\ events' = Append(events, [total |-> TotalWeight(candidates \ {e}),
                                      value |-> value, entry |-> e])
  /\ UNCHANGED <<pool, state, quota>>

\* Faulty: the entry stays a candidate.
SelectWithReplacement ==
  /\ state = "drawing"
  /\ capacity > 0
  /\ LET candidates == Fitting(remaining, capacity) IN
       \E value \in 0 .. TotalWeight(candidates) - 1, e \in candidates :
         /\ IsAtCumulativeWeight(candidates, value, e)
         /\ capacity' = capacity - PilgrimCount(e)
         /\ phases' = [phases EXCEPT ![quota] = Append(@, e)]
         /\ events' = Append(events, [total |-> TotalWeight(candidates),
                                      value |-> value, entry |-> e])
  /\ UNCHANGED <<pool, state, remaining, quota>>

\* One round: a random value below the candidates' total weight picks one.
Select ==
  /\ state = "drawing"
  /\ capacity > 0
  /\ LET candidates == Fitting(remaining, capacity) IN
       \E value \in 0 .. TotalWeight(candidates) - 1, e \in candidates :
         /\ IsAtCumulativeWeight(candidates, value, e)
         /\ remaining' = remaining \ {e}
         /\ capacity' = capacity - PilgrimCount(e)
         /\ phases' = [phases EXCEPT ![quota] = Append(@, e)]
         /\ events' = Append(events, [total |-> TotalWeight(candidates),
                                      value |-> value, entry |-> e])
  /\ UNCHANGED <<pool, state, quota>>

NextQuota ==
  /\ state = "drawing"
  /\ capacity = 0
  /\ quota = 1
  /\ quota' = 2
  /\ capacity' = pool.spots
  /\ UNCHANGED <<pool, state, remaining, phases, events>>

Finish ==
  /\ state = "drawing"
  /\ capacity = 0
  /\ quota = 2
  /\ state' = "drawn"
  /\ UNCHANGED <<pool, remaining, quota, capacity, phases, events>>

\* Faulty: notices only that the pool has run out.
RefuseWhenExhausted ==
  /\ state = "drawing"
  /\ capacity > 0
  /\ remaining = {}
  /\ state' = "QUOTA_NOT_EXACTLY_FILLABLE"
  /\ UNCHANGED <<pool, remaining, quota, capacity, phases, events>>

\* UnfillableQuotaError
RefuseUnfillable ==
  /\ state = "drawing"
  /\ capacity > 0
  /\ Fitting(remaining, capacity) = {}
  /\ state' = "QUOTA_NOT_EXACTLY_FILLABLE"
  /\ UNCHANGED <<pool, remaining, quota, capacity, phases, events>>

Draw == Select \/ NextQuota \/ Finish \/ RefuseUnfillable

Next == Begin \/ RefuseInsufficient \/ Draw

\* A draw that has begun runs to its end; nobody has to begin another.
Fairness == WF_vars(Draw)

Spec == Init /\ [][Next]_vars /\ Fairness

------------------------------------------------------------------------------
Winners == Range(phases[1])
Reserves == Range(phases[2])

\* The draw stays within its quotas.
DrawTypeOK ==
  /\ pool \in PoolRows
  /\ state \in State
  /\ remaining \subseteq Entries
  /\ quota \in {1, 2}
  /\ capacity \in 0 .. MaxSpots
  /\ phases \in [{1, 2} -> Seq(Entries)]

\* So it does, and every event has the shape of its record.
TypeOK == DrawTypeOK /\ events \in Seq(SelectionEvent)

\* A completed draw awards exactly the allocated places and reserves exactly as
\* many again, splits no pair, and takes no entry twice.  This is what the
\* commune draw's life (DrawCycle) takes a lottery to be.
ExactlyFilled ==
  state = "drawn" =>
    /\ Pilgrims(Winners) = pool.spots
    /\ Pilgrims(Reserves) = pool.spots
    /\ Winners \cap Reserves = {}
    /\ Len(phases[1]) = Cardinality(Winners)
    /\ Len(phases[2]) = Cardinality(Reserves)

\* A quota is given up in one case only: a single place is left, and every
\* entry not selected is a pair.
RefusedOnLastPlaceOnly ==
  state = "QUOTA_NOT_EXACTLY_FILLABLE" =>
    /\ capacity = 1
    /\ remaining # {}
    /\ remaining \subseteq pool.pairs

\* With as many single applications as there are places in both quotas, no order of
\* selection strands a place.
SinglesSuffice ==
  Cardinality(Entries \ pool.pairs) >= 2 * pool.spots => state # "QUOTA_NOT_EXACTLY_FILLABLE"

\* What docs/pilgrim-capacity.md says of a refusal: the commune draw is left in a
\* recoverable state, so some other sample of the pool fills both quotas.
RetryMayFill ==
  state = "QUOTA_NOT_EXACTLY_FILLABLE" =>
    \E S \in SUBSET Entries : \E T \in SUBSET (Entries \ S) :
      Pilgrims(S) = pool.spots /\ Pilgrims(T) = pool.spots

\* In every round each candidate owns exactly as many of the values that can be
\* drawn as its weight says, whatever was removed before and however little
\* room is left.
FairShares ==
  LET candidates == Fitting(remaining, capacity) IN
  state = "drawing" =>
    \A e \in candidates :
      Cardinality({value \in 0 .. TotalWeight(candidates) - 1 :
                     IsAtCumulativeWeight(candidates, value, e)}) = pool.weight[e]

\* What an auditor knows of round k: the entries drawn before it, and the places
\* left of the quota it belongs to.
DrawnBefore(k) == {events[j].entry : j \in 1 .. k - 1}

PlacesBefore(k) ==
  LET first == IF k <= Len(phases[1]) THEN 1 ELSE Len(phases[1]) + 1
  IN  pool.spots - Pilgrims({events[j].entry : j \in first .. k - 1})

\* The recorded events replay to the recorded selection from the pool alone:
\* every total is that of the entries which fitted, every value lies below it
\* and picks the entry that was taken, winners first, in the order recorded.
Replayable ==
  /\ [k \in DOMAIN events |-> events[k].entry] = phases[1] \o phases[2]
  /\ \A k \in DOMAIN events :
       LET candidates == Fitting(Entries \ DrawnBefore(k), PlacesBefore(k)) IN
       /\ events[k].total = TotalWeight(candidates)
       /\ events[k].value \in 0 .. events[k].total - 1
       /\ IsAtCumulativeWeight(candidates, events[k].value, events[k].entry)

\* A draw that has begun ends, drawn or refused.
Terminates == state = "drawing" ~> state \in {"drawn", "QUOTA_NOT_EXACTLY_FILLABLE"}

==============================================================================
