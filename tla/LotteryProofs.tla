---------------------------- MODULE LotteryProofs -----------------------------
(***************************************************************************)
(* Proofs about Lottery, for every pool: any number of entries, any        *)
(* weights, any mixture of pairs and single applications, any allocation.  *)
(***************************************************************************)
EXTENDS Lottery, Snapshot, Induction, FiniteSetTheorems, SequenceTheorems, TLAPS

\* A lottery that was allowed to start.
Begun == state \in {"drawing", "drawn", "QUOTA_NOT_EXACTLY_FILLABLE"}

\* An entry that was selected was selected once, and left the pool.
SelectedOnce ==
  /\ Winners \cap Reserves = {}
  /\ Len(phases[1]) = Cardinality(Winners)
  /\ Len(phases[2]) = Cardinality(Reserves)
  /\ remaining = Entries \ (Winners \cup Reserves)

\* Selected pilgrims and places left make up the quota at work; reserves are
\* drawn when the winners' quota is full.
PlacesAddUp ==
  Begun =>
    /\ Pilgrims(Entries) >= 2 * pool.spots
    /\ quota = 1 => phases[2] = <<>> /\ capacity + Pilgrims(Winners) = pool.spots
    /\ quota = 2 => Pilgrims(Winners) = pool.spots /\ capacity + Pilgrims(Reserves) = pool.spots

\* How a lottery ends: with both quotas full, or with places nobody fits.
EndsForAReason ==
  /\ state = "drawn" => quota = 2 /\ capacity = 0
  /\ state = "QUOTA_NOT_EXACTLY_FILLABLE" => capacity > 0 /\ Fitting(remaining, capacity) = {}

IInv == DrawTypeOK /\ SelectedOnce /\ PlacesAddUp /\ EndsForAReason

------------------------------------------------------------------------------
\* A pool has finitely many entries, and so does every part of it.
LEMMA PartsAreFinite == \A S \in SUBSET Entries : IsFiniteSet(S)
  <1>1. IsFiniteSet(Entries)
    BY PoolAssumption, FS_Interval DEF Entries
  <1> QED
    BY <1>1, FS_Subset

\* The pilgrims of a part of the pool are a natural number.
LEMMA PilgrimsType == \A S \in SUBSET Entries : Pilgrims(S) \in Nat
  <1> SUFFICES ASSUME NEW S \in SUBSET Entries PROVE Pilgrims(S) \in Nat
    OBVIOUS
  <1>1. IsFiniteSet(S) /\ IsFiniteSet(S \cap pool.pairs)
    BY PartsAreFinite, FS_Intersection
  <1> QED
    BY <1>1, FS_CardinalityType DEF Pilgrims

\* One more entry brings its own pilgrims.
LEMMA PilgrimsAdd ==
  ASSUME NEW S \in SUBSET Entries, NEW e \in Entries \ S
  PROVE  Pilgrims(S \cup {e}) = Pilgrims(S) + PilgrimCount(e)
  <1>1. IsFiniteSet(S) /\ IsFiniteSet(S \cap pool.pairs)
    BY PartsAreFinite, FS_Intersection
  <1>2. Cardinality(S) \in Nat /\ Cardinality(S \cap pool.pairs) \in Nat
    BY <1>1, FS_CardinalityType
  <1>3. Cardinality(S \cup {e}) = Cardinality(S) + 1
    BY <1>1, FS_AddElement
  <1>4. CASE e \in pool.pairs
    <2>1. (S \cup {e}) \cap pool.pairs = (S \cap pool.pairs) \cup {e}
      BY <1>4
    <2>2. Cardinality((S \cap pool.pairs) \cup {e}) = Cardinality(S \cap pool.pairs) + 1
      BY <1>1, FS_AddElement
    <2> QED
      BY <1>2, <1>3, <1>4, <2>1, <2>2 DEF Pilgrims, PilgrimCount
  <1>5. CASE e \notin pool.pairs
    <2>1. (S \cup {e}) \cap pool.pairs = S \cap pool.pairs
      BY <1>5
    <2> QED
      BY <1>2, <1>3, <1>5, <2>1 DEF Pilgrims, PilgrimCount
  <1> QED
    BY <1>4, <1>5

\* Disjoint sets are counted apart.
LEMMA CountedApart ==
  ASSUME NEW S, IsFiniteSet(S), NEW T, IsFiniteSet(T), S \cap T = {}
  PROVE  Cardinality(S \cup T) = Cardinality(S) + Cardinality(T)
  <1>1. Cardinality(S \cup T) = Cardinality(S) + Cardinality(T) - Cardinality(S \cap T)
    BY FS_Union, Zenon
  <1>2. Cardinality(S \cap T) = 0
    BY FS_EmptySet
  <1>3. Cardinality(S) \in Nat /\ Cardinality(T) \in Nat
    BY FS_CardinalityType
  <1> QED
    BY <1>1, <1>2, <1>3

\* Disjoint parts have their pilgrims apart.
LEMMA PilgrimsUnion ==
  ASSUME NEW S \in SUBSET Entries, NEW T \in SUBSET Entries, S \cap T = {}
  PROVE  Pilgrims(S \cup T) = Pilgrims(S) + Pilgrims(T)
  <1> DEFINE SP == S \cap pool.pairs
             TP == T \cap pool.pairs
  <1>1. IsFiniteSet(S) /\ IsFiniteSet(T) /\ IsFiniteSet(SP) /\ IsFiniteSet(TP)
    BY PartsAreFinite, FS_Intersection
  <1>2. /\ Cardinality(S) \in Nat /\ Cardinality(T) \in Nat
        /\ Cardinality(SP) \in Nat /\ Cardinality(TP) \in Nat
    BY <1>1, FS_CardinalityType
  <1>3. Cardinality(S \cup T) = Cardinality(S) + Cardinality(T)
    BY <1>1, CountedApart
  <1>4. Cardinality(SP \cup TP) = Cardinality(SP) + Cardinality(TP)
    <2>1. SP \cap TP = {}
      OBVIOUS
    <2> QED
      BY <1>1, <2>1, CountedApart
  <1>5. Pilgrims(S) = Cardinality(S) + Cardinality(SP) /\ Pilgrims(T) = Cardinality(T) + Cardinality(TP)
    BY DEF Pilgrims
  <1>6. Pilgrims(S \cup T) = Cardinality(S \cup T) + Cardinality(SP \cup TP)
    <2>1. (S \cup T) \cap pool.pairs = SP \cup TP
      OBVIOUS
    <2> QED
      BY <2>1 DEF Pilgrims
  <1> HIDE DEF SP, TP
  <1> QED
    BY <1>2, <1>3, <1>4, <1>5, <1>6

\* An entry appended to a list makes it one entry longer.
LEMMA AppendIsUnion ==
  ASSUME NEW s \in Seq(Entries), NEW e \in Entries
  PROVE  /\ Append(s, e) \in Seq(Entries)
         /\ Range(Append(s, e)) = Range(s) \cup {e}
         /\ Len(Append(s, e)) = Len(s) + 1
  <1>1. /\ Append(s, e) \in Seq(Entries)
        /\ Len(Append(s, e)) = Len(s) + 1
        /\ Len(s) \in Nat
        /\ DOMAIN s = 1 .. Len(s)
        /\ DOMAIN Append(s, e) = 1 .. Len(s) + 1
    OBVIOUS
  <1>2. Append(s, e)[Len(s) + 1] = e /\ \A k \in 1 .. Len(s) : Append(s, e)[k] = s[k]
    OBVIOUS
  <1>3. 1 .. Len(s) + 1 = 1 .. Len(s) \cup {Len(s) + 1}
    BY <1>1
  <1>4. {Append(s, e)[k] : k \in 1 .. Len(s) + 1} = {s[k] : k \in 1 .. Len(s)} \cup {e}
    BY <1>2, <1>3
  <1> QED
    BY <1>1, <1>4 DEF Range

------------------------------------------------------------------------------
\* A round takes one entry that fits, and nothing but it.
LEMMA SelectTakesOne ==
  ASSUME Select
  PROVE  \E e \in remaining :
           /\ PilgrimCount(e) <= capacity
           /\ remaining' = remaining \ {e}
           /\ capacity' = capacity - PilgrimCount(e)
           /\ phases' = [phases EXCEPT ![quota] = Append(@, e)]
  BY DEF Select, IsAtCumulativeWeight, Fitting

\* The rest of the draw is left alone by a round.
LEMMA SelectKeeps ==
  ASSUME Select
  PROVE  state = "drawing" /\ capacity > 0 /\ UNCHANGED <<pool, state, quota>>
  BY DEF Select

\* An entry is one pilgrim or two.
LEMMA OneOrTwo == \A e \in Entries : PilgrimCount(e) \in {1, 2}
  BY DEF PilgrimCount

\* The lists after a round: the list of the quota at work got the entry, the
\* other one is what it was.
LEMMA SelectAppends ==
  ASSUME DrawTypeOK, NEW e \in Entries,
         phases' = [phases EXCEPT ![quota] = Append(@, e)]
  PROVE  /\ phases' \in [{1, 2} -> Seq(Entries)]
         /\ quota = 1 => /\ Winners' = Winners \cup {e}
                         /\ Len(phases'[1]) = Len(phases[1]) + 1
                         /\ phases'[2] = phases[2]
         /\ quota = 2 => /\ Reserves' = Reserves \cup {e}
                         /\ Len(phases'[2]) = Len(phases[2]) + 1
                         /\ phases'[1] = phases[1]
  <1>1. phases[1] \in Seq(Entries) /\ phases[2] \in Seq(Entries)
    BY DEF DrawTypeOK
  <1>2. CASE quota = 1
    <2>1. phases'[1] = Append(phases[1], e) /\ phases'[2] = phases[2]
      BY <1>2 DEF DrawTypeOK
    <2>2. Winners' = Winners \cup {e} /\ Len(phases'[1]) = Len(phases[1]) + 1
      BY <1>1, <2>1, AppendIsUnion DEF Winners
    <2> QED
      BY <1>1, <1>2, <2>1, <2>2, AppendIsUnion DEF DrawTypeOK
  <1>3. CASE quota = 2
    <2>1. phases'[2] = Append(phases[2], e) /\ phases'[1] = phases[1]
      BY <1>3 DEF DrawTypeOK
    <2>2. Reserves' = Reserves \cup {e} /\ Len(phases'[2]) = Len(phases[2]) + 1
      BY <1>1, <2>1, AppendIsUnion DEF Reserves
    <2> QED
      BY <1>1, <1>3, <2>1, <2>2, AppendIsUnion DEF DrawTypeOK
  <1> QED
    BY <1>2, <1>3 DEF DrawTypeOK

\* The selected are entries of the pool.
LEMMA SelectedAreEntries == DrawTypeOK => Winners \subseteq Entries /\ Reserves \subseteq Entries
  BY DEF DrawTypeOK, Winners, Reserves, Range

\* Two empty lists are lists of entries.
LEMMA NothingSelected ==
  /\ <<<<>>, <<>>>> \in [{1, 2} -> Seq(Entries)]
  /\ <<<<>>, <<>>>>[1] = <<>> /\ <<<<>>, <<>>>>[2] = <<>>
  <1> DEFINE none == <<<<>>, <<>>>>
  <1>1. none[1] = <<>> /\ none[2] = <<>> /\ DOMAIN none = 1 .. 2
    OBVIOUS
  <1>2. 1 .. 2 = {1, 2} /\ <<>> \in Seq(Entries)
    OBVIOUS
  <1>3. none = [i \in DOMAIN none |-> none[i]]
    OBVIOUS
  <1> HIDE DEF none
  <1>4. none \in [{1, 2} -> Seq(Entries)]
    BY <1>1, <1>2, <1>3
  <1> QED
    BY <1>1, <1>4 DEF none

\* Every step stays within the quotas.
LEMMA StepDrawTypeOK == DrawTypeOK /\ [Next]_vars => DrawTypeOK'
  <1> SUFFICES ASSUME DrawTypeOK, [Next]_vars PROVE DrawTypeOK'
    OBVIOUS
  <1>t. pool.spots \in 0 .. MaxSpots
    BY PoolAssumption DEF DrawTypeOK, PoolRows
  <1>1. CASE Begin
    BY <1>1, <1>t, NothingSelected DEF DrawTypeOK, Begin, State
  <1>2. CASE RefuseInsufficient
    BY <1>2 DEF DrawTypeOK, RefuseInsufficient, State
  <1>3. CASE Select
    <2>1. PICK e \in remaining :
            /\ PilgrimCount(e) <= capacity
            /\ remaining' = remaining \ {e}
            /\ capacity' = capacity - PilgrimCount(e)
            /\ phases' = [phases EXCEPT ![quota] = Append(@, e)]
      BY <1>3, SelectTakesOne
    <2>2. e \in Entries
      BY <2>1 DEF DrawTypeOK
    <2>3. phases' \in [{1, 2} -> Seq(Entries)]
      BY <2>1, <2>2, SelectAppends
    <2>4. capacity' \in 0 .. MaxSpots
      BY <2>1, <2>2, OneOrTwo, PoolAssumption DEF DrawTypeOK
    <2> QED
      BY <1>3, <2>1, <2>3, <2>4, SelectKeeps DEF DrawTypeOK
  <1>4. CASE NextQuota
    BY <1>4, <1>t DEF DrawTypeOK, NextQuota
  <1>5. CASE Finish
    BY <1>5 DEF DrawTypeOK, Finish, State
  <1>6. CASE RefuseUnfillable
    BY <1>6 DEF DrawTypeOK, RefuseUnfillable, State
  <1>7. CASE UNCHANGED vars
    BY <1>7 DEF DrawTypeOK, vars
  <1> QED
    BY <1>1, <1>2, <1>3, <1>4, <1>5, <1>6, <1>7 DEF Next, Draw

\* Every step selects an entry at most once.
LEMMA StepSelectedOnce == DrawTypeOK /\ SelectedOnce /\ [Next]_vars => SelectedOnce'
  <1> SUFFICES ASSUME DrawTypeOK, SelectedOnce, [Next]_vars PROVE SelectedOnce'
    OBVIOUS
  <1>1. CASE Begin
    <2>1. phases'[1] = <<>> /\ phases'[2] = <<>> /\ remaining' = Entries
      BY <1>1, NothingSelected DEF Begin
    <2>2. Winners' = {} /\ Reserves' = {}
      BY <2>1 DEF Winners, Reserves, Range
    <2> QED
      BY <2>1, <2>2, FS_EmptySet DEF SelectedOnce
  <1>2. CASE Select
    <2>1. PICK e \in remaining :
            /\ remaining' = remaining \ {e}
            /\ phases' = [phases EXCEPT ![quota] = Append(@, e)]
      BY <1>2, SelectTakesOne
    <2>2. e \in Entries /\ e \notin Winners /\ e \notin Reserves
      BY <2>1 DEF SelectedOnce
    <2>3. IsFiniteSet(Winners) /\ IsFiniteSet(Reserves)
      BY SelectedAreEntries, PartsAreFinite
    <2>4. CASE quota = 1
      <3>1. /\ Winners' = Winners \cup {e}
            /\ Len(phases'[1]) = Len(phases[1]) + 1
            /\ phases'[2] = phases[2]
        BY <2>1, <2>2, <2>4, SelectAppends
      <3>2. Reserves' = Reserves
        BY <3>1 DEF Reserves
      <3>3. Cardinality(Winners \cup {e}) = Cardinality(Winners) + 1
        BY <2>2, <2>3, FS_AddElement
      <3> QED
        BY <2>1, <2>2, <3>1, <3>2, <3>3 DEF SelectedOnce
    <2>5. CASE quota = 2
      <3>1. /\ Reserves' = Reserves \cup {e}
            /\ Len(phases'[2]) = Len(phases[2]) + 1
            /\ phases'[1] = phases[1]
        BY <2>1, <2>2, <2>5, SelectAppends
      <3>2. Winners' = Winners
        BY <3>1 DEF Winners
      <3>3. Cardinality(Reserves \cup {e}) = Cardinality(Reserves) + 1
        BY <2>2, <2>3, FS_AddElement
      <3> QED
        BY <2>1, <2>2, <3>1, <3>2, <3>3 DEF SelectedOnce
    <2> QED
      BY <2>4, <2>5 DEF DrawTypeOK
  <1>3. CASE UNCHANGED <<phases, remaining>>
    BY <1>3 DEF SelectedOnce, Winners, Reserves
  <1> QED
    BY <1>1, <1>2, <1>3
    DEF Next, Draw, RefuseInsufficient, NextQuota, Finish, RefuseUnfillable, vars

\* Every step keeps the places adding up.
LEMMA StepPlacesAddUp ==
  DrawTypeOK /\ SelectedOnce /\ PlacesAddUp /\ [Next]_vars => PlacesAddUp'
  <1> SUFFICES ASSUME DrawTypeOK, SelectedOnce, PlacesAddUp, [Next]_vars PROVE PlacesAddUp'
    OBVIOUS
  <1>t. pool.spots \in Nat /\ quota \in {1, 2} /\ capacity \in Nat
    BY DEF DrawTypeOK, PoolRows
  <1>p. /\ Pilgrims({}) = 0
        /\ Pilgrims(Winners) \in Nat
        /\ Pilgrims(Reserves) \in Nat
    <2>1. Pilgrims({}) = 0
      BY FS_EmptySet DEF Pilgrims
    <2> QED
      BY <2>1, PilgrimsType, SelectedAreEntries
  <1>1. CASE Begin
    <2>1. phases'[1] = <<>> /\ phases'[2] = <<>> /\ quota' = 1 /\ capacity' = pool.spots
      BY <1>1, NothingSelected DEF Begin
    <2>2. Winners' = {}
      BY <2>1 DEF Winners, Range
    <2>3. pool' = pool /\ Pilgrims(Entries) >= 2 * pool.spots
      BY <1>1 DEF Begin
    <2>4. Pilgrims(Winners)' = 0 /\ Pilgrims(Entries)' = Pilgrims(Entries)
      BY <1>p, <2>2, <2>3 DEF Pilgrims
    <2> QED
      BY <1>t, <2>1, <2>3, <2>4 DEF PlacesAddUp
  <1>2. CASE Select
    <2>1. PICK e \in remaining :
            /\ PilgrimCount(e) <= capacity
            /\ capacity' = capacity - PilgrimCount(e)
            /\ phases' = [phases EXCEPT ![quota] = Append(@, e)]
      BY <1>2, SelectTakesOne
    <2>2. e \in Entries /\ e \notin Winners /\ e \notin Reserves
      BY <2>1 DEF SelectedOnce
    <2>3. Begun /\ pool' = pool /\ quota' = quota
      BY <1>2, SelectKeeps DEF Begun
    <2>4. PilgrimCount(e) \in Nat
      BY <2>2, OneOrTwo
    <2>5. Pilgrims(Entries)' = Pilgrims(Entries)
      BY <2>3 DEF Pilgrims
    <2>6. CASE quota = 1
      <3>1. Winners' = Winners \cup {e} /\ phases'[2] = phases[2]
        BY <2>1, <2>2, <2>6, SelectAppends
      <3>2. Pilgrims(Winners)' = Pilgrims(Winners) + PilgrimCount(e)
        <4>1. Pilgrims(Winners)' = Pilgrims(Winners \cup {e})
          BY <2>3, <3>1 DEF Pilgrims
        <4> QED
          BY <2>2, <4>1, PilgrimsAdd, SelectedAreEntries
      <3> QED
        BY <1>t, <1>p, <2>1, <2>3, <2>4, <2>5, <2>6, <3>1, <3>2 DEF PlacesAddUp
    <2>7. CASE quota = 2
      <3>1. Reserves' = Reserves \cup {e} /\ phases'[1] = phases[1]
        BY <2>1, <2>2, <2>7, SelectAppends
      <3>2. Pilgrims(Reserves)' = Pilgrims(Reserves) + PilgrimCount(e)
        <4>1. Pilgrims(Reserves)' = Pilgrims(Reserves \cup {e})
          BY <2>3, <3>1 DEF Pilgrims
        <4> QED
          BY <2>2, <4>1, PilgrimsAdd, SelectedAreEntries
      <3>3. Pilgrims(Winners)' = Pilgrims(Winners)
        BY <2>3, <3>1 DEF Pilgrims, Winners
      <3> QED
        BY <1>t, <1>p, <2>1, <2>3, <2>4, <2>5, <2>7, <3>2, <3>3 DEF PlacesAddUp
    <2> QED
      BY <1>t, <2>6, <2>7
  <1>3. CASE NextQuota
    <2>1. /\ Begun /\ pool' = pool /\ phases' = phases
          /\ quota = 1 /\ capacity = 0 /\ quota' = 2 /\ capacity' = pool.spots
      BY <1>3 DEF NextQuota, Begun
    <2>2. /\ Pilgrims(Winners)' = Pilgrims(Winners)
          /\ Pilgrims(Entries)' = Pilgrims(Entries)
      BY <2>1 DEF Pilgrims, Winners
    <2>3. phases[2] = <<>>
      BY <2>1 DEF PlacesAddUp
    <2>4. Reserves' = {}
      BY <2>1, <2>3 DEF Reserves, Range
    <2>5. Pilgrims(Reserves)' = 0
      BY <1>p, <2>1, <2>4 DEF Pilgrims
    <2> QED
      BY <1>t, <1>p, <2>1, <2>2, <2>5 DEF PlacesAddUp
  <1>4. CASE /\ UNCHANGED <<pool, quota, capacity, phases>>
             /\ Begun' => Begun
    BY <1>4 DEF PlacesAddUp, Pilgrims, Winners, Reserves
  <1>5. CASE RefuseInsufficient \/ Finish \/ RefuseUnfillable \/ UNCHANGED vars
    BY <1>4, <1>5 DEF RefuseInsufficient, Finish, RefuseUnfillable, vars, Begun
  <1> QED
    BY <1>1, <1>2, <1>3, <1>5 DEF Next, Draw

\* A lottery ends for one of its two reasons only.
LEMMA StepEndsForAReason == EndsForAReason /\ [Next]_vars => EndsForAReason'
  <1> SUFFICES ASSUME EndsForAReason, [Next]_vars PROVE EndsForAReason'
    OBVIOUS
  <1>1. CASE Begin \/ RefuseInsufficient \/ Select \/ NextQuota
    BY <1>1 DEF EndsForAReason, Begin, RefuseInsufficient, Select, NextQuota
  <1>2. CASE Finish
    BY <1>2 DEF EndsForAReason, Finish
  <1>3. CASE RefuseUnfillable
    BY <1>3 DEF EndsForAReason, RefuseUnfillable, Fitting, PilgrimCount
  <1>4. CASE UNCHANGED vars
    BY <1>4 DEF EndsForAReason, vars, Fitting, PilgrimCount
  <1> QED
    BY <1>1, <1>2, <1>3, <1>4 DEF Next, Draw

\* A frozen pool nobody has drawn from satisfies the inductive invariant.
LEMMA InitIInv == Init => IInv
  <1> SUFFICES ASSUME Init PROVE IInv
    OBVIOUS
  <1>1. phases[1] = <<>> /\ phases[2] = <<>> /\ phases \in [{1, 2} -> Seq(Entries)]
    BY NothingSelected DEF Init
  <1>2. DrawTypeOK
    BY <1>1, PoolAssumption DEF Init, DrawTypeOK, State
  <1>3. SelectedOnce
    <2>1. Winners = {} /\ Reserves = {}
      BY <1>1 DEF Winners, Reserves, Range
    <2> QED
      BY <1>1, <2>1, FS_EmptySet DEF Init, SelectedOnce
  <1>4. PlacesAddUp /\ EndsForAReason
    BY DEF Init, PlacesAddUp, EndsForAReason, Begun
  <1> QED
    BY <1>2, <1>3, <1>4 DEF IInv

\* The inductive invariant holds in every reachable state.
THEOREM Invariance == Spec => []IInv
  <1>1. IInv /\ [Next]_vars => IInv'
    BY StepDrawTypeOK, StepSelectedOnce, StepPlacesAddUp, StepEndsForAReason DEF IInv
  <1> QED
    BY <1>1, InitIInv, PTL DEF Spec

\* A completed draw awards exactly the allocated places and reserves as many
\* again, to entries selected once, whatever the weights and the random values.
THEOREM QuotasExactlyFilled == Spec => []ExactlyFilled
  <1>1. IInv => ExactlyFilled
    <2> SUFFICES ASSUME IInv, state = "drawn" PROVE ExactlyFilled
      BY DEF ExactlyFilled
    <2>1. /\ Begun /\ quota = 2 /\ capacity = 0
          /\ pool.spots \in Nat
          /\ Pilgrims(Reserves) \in Nat
      BY PilgrimsType, SelectedAreEntries
      DEF IInv, EndsForAReason, Begun, DrawTypeOK, PoolRows
    <2> QED
      BY <2>1 DEF IInv, SelectedOnce, PlacesAddUp, ExactlyFilled
  <1> QED
    BY <1>1, Invariance, PTL

\* The only pools refused once drawing has begun are those left with a single
\* place and with pairs only.
THEOREM RefusalsJustified == Spec => []RefusedOnLastPlaceOnly
  <1>1. IInv => RefusedOnLastPlaceOnly
    <2> SUFFICES ASSUME IInv, state = "QUOTA_NOT_EXACTLY_FILLABLE"
                 PROVE  capacity = 1 /\ remaining # {} /\ remaining \subseteq pool.pairs
      BY DEF RefusedOnLastPlaceOnly
    <2>1. /\ Begun
          /\ capacity \in Nat /\ capacity > 0 /\ Fitting(remaining, capacity) = {}
          /\ pool.spots \in Nat /\ quota \in {1, 2} /\ remaining \subseteq Entries
      BY DEF IInv, DrawTypeOK, EndsForAReason, Begun, PoolRows
    <2>2. \A e \in remaining : PilgrimCount(e) > capacity
      BY <2>1, OneOrTwo DEF Fitting
    <2>3. remaining # {}
      <3> SUFFICES ASSUME remaining = {} PROVE FALSE
        OBVIOUS
      <3>1. Entries = Winners \cup Reserves
        BY SelectedAreEntries DEF IInv, SelectedOnce
      <3>2. Pilgrims(Entries) = Pilgrims(Winners) + Pilgrims(Reserves)
        BY <3>1, PilgrimsUnion, SelectedAreEntries DEF IInv, SelectedOnce
      <3>3. Pilgrims(Winners) \in Nat /\ Pilgrims(Reserves) \in Nat
        BY PilgrimsType, SelectedAreEntries DEF IInv
      <3>4. Pilgrims(Entries) >= 2 * pool.spots
        BY <2>1 DEF IInv, PlacesAddUp
      <3>5. CASE quota = 1
        <4>1. phases[2] = <<>> /\ capacity + Pilgrims(Winners) = pool.spots
          BY <2>1, <3>5 DEF IInv, PlacesAddUp
        <4>2. Reserves = {}
          BY <4>1 DEF Reserves, Range
        <4>3. Pilgrims(Reserves) = 0
          BY <4>2, FS_EmptySet DEF Pilgrims
        <4> QED
          BY <2>1, <3>2, <3>3, <3>4, <4>1, <4>3
      <3>6. CASE quota = 2
        <4>1. Pilgrims(Winners) = pool.spots /\ capacity + Pilgrims(Reserves) = pool.spots
          BY <2>1, <3>6 DEF IInv, PlacesAddUp
        <4> QED
          BY <2>1, <3>2, <3>3, <3>4, <4>1
      <3> QED
        BY <2>1, <3>5, <3>6
    <2>4. capacity = 1
      BY <2>1, <2>2, <2>3, OneOrTwo
    <2>5. remaining \subseteq pool.pairs
      BY <2>1, <2>2 DEF PilgrimCount
    <2> QED
      BY <2>3, <2>4, <2>5
  <1> QED
    BY <1>1, Invariance, PTL

\* A part of the pool covers at least one place for each of its entries.
LEMMA OnePlaceEach == \A S \in SUBSET Entries : Cardinality(S) \in Nat /\ Cardinality(S) <= Pilgrims(S)
  <1> SUFFICES ASSUME NEW S \in SUBSET Entries
               PROVE  Cardinality(S) \in Nat /\ Cardinality(S) <= Pilgrims(S)
    OBVIOUS
  <1>1. Cardinality(S) \in Nat /\ Cardinality(S \cap pool.pairs) \in Nat
    BY PartsAreFinite, FS_Intersection, FS_CardinalityType
  <1> QED
    BY <1>1 DEF Pilgrims

\* A pool with as many single applications as places to give, winners' and
\* reserves', is never refused once drawing has begun.
THEOREM SinglesAreEnough == Spec => []SinglesSuffice
  <1>1. IInv /\ RefusedOnLastPlaceOnly => SinglesSuffice
    <2> SUFFICES ASSUME IInv, RefusedOnLastPlaceOnly, state = "QUOTA_NOT_EXACTLY_FILLABLE"
                 PROVE  ~ (Cardinality(Entries \ pool.pairs) >= 2 * pool.spots)
      BY DEF SinglesSuffice
    <2> DEFINE Singles == Entries \ pool.pairs
               Drawn == Winners \cup Reserves
    <2>1. /\ Begun /\ capacity = 1 /\ remaining \subseteq pool.pairs
          /\ pool.spots \in Nat /\ quota \in {1, 2}
          /\ Winners \subseteq Entries /\ Reserves \subseteq Entries
      BY SelectedAreEntries DEF IInv, RefusedOnLastPlaceOnly, DrawTypeOK, Begun, PoolRows
    <2>2. Singles \subseteq Drawn
      BY <2>1 DEF IInv, SelectedOnce
    <2>3. Cardinality(Singles) \in Nat /\ Cardinality(Drawn) \in Nat /\ Cardinality(Drawn) <= Pilgrims(Drawn)
      BY <2>1, OnePlaceEach
    <2>4. Cardinality(Singles) <= Cardinality(Drawn)
      BY <2>1, <2>2, PartsAreFinite, FS_Subset
    <2>5. /\ Pilgrims(Drawn) = Pilgrims(Winners) + Pilgrims(Reserves)
          /\ Pilgrims(Winners) \in Nat /\ Pilgrims(Reserves) \in Nat
      BY <2>1, PilgrimsUnion, PilgrimsType DEF IInv, SelectedOnce
    <2>6. Pilgrims(Winners) + Pilgrims(Reserves) < 2 * pool.spots
      <3>1. CASE quota = 1
        <4>1. phases[2] = <<>> /\ capacity + Pilgrims(Winners) = pool.spots
          BY <2>1, <3>1 DEF IInv, PlacesAddUp
        <4>2. Reserves = {}
          BY <4>1 DEF Reserves, Range
        <4>3. Pilgrims(Reserves) = 0
          BY <4>2, FS_EmptySet DEF Pilgrims
        <4> QED
          BY <2>1, <2>5, <4>1, <4>3
      <3>2. CASE quota = 2
        BY <2>1, <2>5, <3>2 DEF IInv, PlacesAddUp
      <3> QED
        BY <2>1, <3>1, <3>2
    <2> HIDE DEF Singles, Drawn
    <2>7. ~ (Cardinality(Singles) >= 2 * pool.spots)
      <3>1. Pilgrims(Drawn) < 2 * pool.spots
        BY <2>5, <2>6
      <3> HIDE DEF Pilgrims
      <3>2. Pilgrims(Drawn) \in Nat
        BY <2>5
      <3> QED
        BY <2>1, <2>3, <2>4, <3>1, <3>2
    <2> QED
      BY <2>7 DEF Singles
  <1> QED
    BY <1>1, Invariance, RefusalsJustified, PTL

------------------------------------------------------------------------------
(* Weights.                                                                 *)

\* The total weight is the sum the lemmas of Induction are about.
LEMMA TotalIsSum == \A S : TotalWeight(S) = SumOf(pool.weight, S)
  BY DEF TotalWeight, SumOf, MapThenSumSet, MapThenFoldSet

\* A weight counts for what it is, and more entries never weigh less.
LEMMA TotalsAddUp ==
  ASSUME pool \in PoolRows, NEW S \in SUBSET Entries
  PROVE  /\ TotalWeight(S) \in Nat
         /\ \A e \in Entries \ S : TotalWeight(S \cup {e}) = TotalWeight(S) + pool.weight[e]
         /\ \A T \in SUBSET S : TotalWeight(T) <= TotalWeight(S)
  <1>1. \A e \in Entries : pool.weight[e] \in Nat
    BY DEF PoolRows
  <1>2. IsFiniteSet(S)
    BY PartsAreFinite
  <1>3. S \in SUBSET S /\ \A e \in S : pool.weight[e] \in Nat
    BY <1>1
  <1>4. TotalWeight(S) \in Nat
    BY <1>2, <1>3, SumOfSubset, TotalIsSum
  <1>5. ASSUME NEW T \in SUBSET S PROVE TotalWeight(T) <= TotalWeight(S)
    BY <1>2, <1>3, SumOfSubset, TotalIsSum
  <1>6. ASSUME NEW e \in Entries \ S PROVE TotalWeight(S \cup {e}) = TotalWeight(S) + pool.weight[e]
    <2>1. \A x \in S \cup {e} : pool.weight[x] \in Nat
      BY <1>1
    <2> QED
      BY <1>2, <2>1, SumOfOneMore, TotalIsSum
  <1> QED
    BY <1>4, <1>5, <1>6

\* A set of entries that is not empty has a last one.
LEMMA LastOfSome ==
  ASSUME NEW S \in SUBSET Entries, S # {}
  PROVE  \E e \in S : \A f \in S : f <= e
  <1> DEFINE T == {n \in Nat : EntryCount - n \in S}
  <1>1. PICK e \in S : TRUE
    OBVIOUS
  <1>2. EntryCount - e \in T
    BY <1>1, PoolAssumption DEF Entries
  <1>3. PICK n \in T : \A m \in T : n <= m
    BY <1>2, LeastNumber
  <1>4. ASSUME NEW f \in S PROVE f <= EntryCount - n
    <2>1. EntryCount - f \in Nat /\ EntryCount - (EntryCount - f) = f
      BY PoolAssumption DEF Entries
    <2>2. n <= EntryCount - f
      BY <1>3, <2>1
    <2> QED
      BY <1>3, <2>2, PoolAssumption DEF Entries
  <1> QED
    BY <1>3, <1>4

\* The values that pick a candidate are those from the weight of the candidates before
\* it on, as many as it weighs.
LEMMA SharesOf ==
  ASSUME pool \in PoolRows, NEW C \in SUBSET Entries, NEW e \in C
  PROVE  Cardinality({value \in 0 .. TotalWeight(C) - 1 : IsAtCumulativeWeight(C, value, e)})
           = pool.weight[e]
  <1> DEFINE before == {f \in C : f < e}
             upto(f) == {g \in C : g <= f}
             from == TotalWeight(before)
             w == pool.weight[e]
  <1>0. e \in Int /\ \A f \in C : f \in Int
    BY PoolAssumption DEF Entries
  <1>1. w \in Nat /\ w >= 1
    BY DEF PoolRows
  <1>2. from \in Nat /\ TotalWeight(C) \in Nat
    BY TotalsAddUp
  <1>3. TotalWeight(upto(e)) = from + w
    <2>1. \A f \in C : f <= e <=> f < e \/ f = e
      BY <1>0
    <2>2. upto(e) = before \cup {e}
      BY <2>1
    <2>3. e \in Entries \ before
      BY <1>0
    <2> QED
      BY <2>2, <2>3, TotalsAddUp
  <1>4. from + w <= TotalWeight(C)
    BY <1>3, TotalsAddUp
  <1>5. \A f \in C : f < e => TotalWeight(upto(f)) <= from
    <2>1. ASSUME NEW f \in C, f < e, NEW g \in upto(f) PROVE g \in before
      BY <1>0, <2>1
    <2>2. \A f \in C : f < e => upto(f) \in SUBSET before
      BY <2>1
    <2> QED
      BY <2>2, TotalsAddUp
  <1>6. before = {} => from = 0
    BY TotalIsSum, SumOfNone
  <1>7. before # {} => \E f \in C : f < e /\ TotalWeight(upto(f)) = from
    <2>1. SUFFICES ASSUME before # {} PROVE \E f \in C : f < e /\ TotalWeight(upto(f)) = from
      OBVIOUS
    <2>2. PICK f \in before : \A g \in before : g <= f
      BY <2>1, LastOfSome
    <2>3. \A g \in C : g <= f <=> g < e
      BY <1>0, <2>2
    <2>4. upto(f) = before
      BY <2>3
    <2> QED
      BY <2>2, <2>4
  <1>8. \A value \in 0 .. TotalWeight(C) - 1 :
          IsAtCumulativeWeight(C, value, e) <=> value \in from .. from + w - 1
    <2> SUFFICES ASSUME NEW value \in 0 .. TotalWeight(C) - 1
                 PROVE  IsAtCumulativeWeight(C, value, e) <=> value \in from .. from + w - 1
      OBVIOUS
    <2>1. IsAtCumulativeWeight(C, value, e) <=>
            value < from + w /\ \A f \in C : f < e => value >= TotalWeight(upto(f))
      BY <1>3 DEF IsAtCumulativeWeight
    <2>2. (\A f \in C : f < e => value >= TotalWeight(upto(f))) <=> value >= from
      <3>1. \A f \in C : TotalWeight(upto(f)) \in Nat
        BY TotalsAddUp
      <3> HIDE DEF before, upto, from
      <3> QED
        BY <1>2, <1>5, <1>6, <1>7, <3>1
    <2> HIDE DEF before, upto, from, w
    <2> QED
      BY <1>1, <1>2, <2>1, <2>2
  <1> HIDE DEF before, upto, from, w
  <1>9. {value \in 0 .. TotalWeight(C) - 1 : IsAtCumulativeWeight(C, value, e)} = from .. from + w - 1
    BY <1>1, <1>2, <1>4, <1>8
  <1>10. Cardinality(from .. from + w - 1) = w
    BY <1>1, <1>2, FS_Interval
  <1> QED
    BY <1>9, <1>10 DEF w

\* Every candidate of every round owns as many of the values that can be drawn as it
\* weighs: the chances of the lottery are what the weights say, for every pool.
THEOREM ChancesAreFair == Spec => []FairShares
  <1>1. IInv => FairShares
    <2> SUFFICES ASSUME IInv, state = "drawing", NEW e \in Fitting(remaining, capacity)
                 PROVE  Cardinality({value \in 0 .. TotalWeight(Fitting(remaining, capacity)) - 1 :
                          IsAtCumulativeWeight(Fitting(remaining, capacity), value, e)}) = pool.weight[e]
      BY DEF FairShares
    <2>1. Fitting(remaining, capacity) \in SUBSET Entries
      BY DEF Fitting, IInv, DrawTypeOK
    <2> QED
      BY <2>1, SharesOf DEF IInv, DrawTypeOK
  <1> QED
    BY <1>1, Invariance, PTL

------------------------------------------------------------------------------
(* The record of a draw.  The operators below read a pool and a record that *)
(* are given to them, so that they say the same of two states.              *)

\* The entries the record names from round i on, before round k.
Taken(ev, i, k) == {ev[j].entry : j \in i .. k - 1}

PilgrimsIn(rows, S) == Cardinality(S) + Cardinality(S \cap rows.pairs)

FittingIn(rows, S, places) == {e \in S : (IF e \in rows.pairs THEN 2 ELSE 1) <= places}

PicksIn(rows, C, value, e) ==
  /\ e \in C
  /\ value < SumOf(rows.weight, {f \in C : f <= e})
  /\ \A f \in C : f < e => value >= SumOf(rows.weight, {g \in C : g <= f})

PlacesIn(rows, ev, winners, k) ==
  rows.spots - PilgrimsIn(rows, Taken(ev, IF k <= winners THEN 1 ELSE winners + 1, k))

\* Round k of the record follows from the pool and from the rounds before it.
RoundFollows(rows, ev, winners, k) ==
  LET candidates == FittingIn(rows, Entries \ Taken(ev, 1, k), PlacesIn(rows, ev, winners, k)) IN
  /\ ev[k].total = SumOf(rows.weight, candidates)
  /\ ev[k].value \in 0 .. ev[k].total - 1
  /\ PicksIn(rows, candidates, ev[k].value, ev[k].entry)

\* The record names the entries of both lists, the winners' list first.
NamesLists(ev, first, second) ==
  /\ Len(ev) = Len(first) + Len(second)
  /\ \A k \in 1 .. Len(first) : ev[k].entry = first[k]
  /\ \A k \in 1 .. Len(second) : ev[Len(first) + k].entry = second[k]

RecordNamesLists == events \in Seq(SelectionEvent) /\ NamesLists(events, phases[1], phases[2])

RoundsFollow == \A k \in 1 .. Len(events) : RoundFollows(pool, events, Len(phases[1]), k)

\* While the winners are drawn, nobody is on the reserve list.
ReservesCome == quota = 1 => phases[2] = <<>>

\* A round appends to the record as it appends to the list.
LEMMA SelectRecords ==
  ASSUME DrawTypeOK, Select
  PROVE  \E value \in Nat, e \in Entries :
           LET candidates == Fitting(remaining, capacity) IN
           /\ value < TotalWeight(candidates)
           /\ IsAtCumulativeWeight(candidates, value, e)
           /\ phases' = [phases EXCEPT ![quota] = Append(@, e)]
           /\ events' = Append(events, [total |-> TotalWeight(candidates), value |-> value, entry |-> e])
  <1> DEFINE candidates == Fitting(remaining, capacity)
  <1>1. candidates \in SUBSET Entries /\ pool \in PoolRows
    BY DEF DrawTypeOK, Fitting
  <1>2. TotalWeight(candidates) \in Nat
    BY <1>1, TotalsAddUp
  <1> HIDE DEF candidates
  <1>3. PICK value \in 0 .. TotalWeight(candidates) - 1, e \in candidates :
          /\ IsAtCumulativeWeight(candidates, value, e)
          /\ phases' = [phases EXCEPT ![quota] = Append(@, e)]
          /\ events' = Append(events, [total |-> TotalWeight(candidates), value |-> value, entry |-> e])
    BY DEF Select, candidates
  <1>4. value \in Nat /\ value < TotalWeight(candidates) /\ e \in Entries
    BY <1>1, <1>2, <1>3
  <1> QED
    BY <1>3, <1>4 DEF candidates

\* The lists after a round, one by one.
LEMMA SelectExtends ==
  ASSUME DrawTypeOK, NEW e \in Entries, phases' = [phases EXCEPT ![quota] = Append(@, e)]
  PROVE  /\ quota = 1 => phases'[1] = Append(phases[1], e) /\ phases'[2] = phases[2]
         /\ quota = 2 => phases'[2] = Append(phases[2], e) /\ phases'[1] = phases[1]
  BY DEF DrawTypeOK

\* A record goes on naming both lists when it grows with the list at work.
LEMMA NamesGrow ==
  ASSUME NEW ev \in Seq(SelectionEvent), NEW event \in SelectionEvent,
         NEW first \in Seq(Entries), NEW second \in Seq(Entries), NamesLists(ev, first, second)
  PROVE  /\ second = <<>> => NamesLists(Append(ev, event), Append(first, event.entry), <<>>)
         /\ NamesLists(Append(ev, event), first, Append(second, event.entry))
  <1>1. PICK m \in Nat, n \in Nat : m = Len(first) /\ n = Len(second)
    OBVIOUS
  <1>2. Len(ev) = m + n
    BY <1>1 DEF NamesLists
  <1>3. event.entry \in Entries
    BY DEF SelectionEvent
  <1> DEFINE more == Append(ev, event)
             x == event.entry
  <1>4. Len(more) = m + n + 1 /\ more[m + n + 1] = event /\ \A k \in 1 .. m + n : more[k] = ev[k]
    BY <1>2
  <1>5. /\ Len(Append(first, x)) = m + 1 /\ Append(first, x)[m + 1] = x
        /\ \A k \in 1 .. m : Append(first, x)[k] = first[k]
    BY <1>1, <1>3
  <1>6. /\ Len(Append(second, x)) = n + 1 /\ Append(second, x)[n + 1] = x
        /\ \A k \in 1 .. n : Append(second, x)[k] = second[k]
    BY <1>1, <1>3
  <1>7. /\ \A k \in 1 .. m : ev[k].entry = first[k]
        /\ \A k \in 1 .. n : ev[m + k].entry = second[k]
    BY <1>1 DEF NamesLists
  <1>8. more[m + n + 1].entry = x
    BY <1>4
  <1> HIDE DEF more, x
  <1>9. second = <<>> => NamesLists(more, Append(first, x), <<>>)
    <2> SUFFICES ASSUME second = <<>> PROVE NamesLists(more, Append(first, x), <<>>)
      OBVIOUS
    <2>1. n = 0 /\ Len(<<>>) = 0
      BY <1>1
    <2>2. \A k \in 1 .. m + 1 : more[k].entry = Append(first, x)[k]
      BY <1>4, <1>5, <1>7, <1>8, <2>1
    <2> QED
      BY <1>4, <1>5, <2>1, <2>2 DEF NamesLists
  <1>10. NamesLists(more, first, Append(second, x))
    <2>1. \A k \in 1 .. m : more[k].entry = first[k]
      BY <1>4, <1>7
    <2>2. ASSUME NEW k \in 1 .. n + 1 PROVE more[m + k].entry = Append(second, x)[k]
      <3>1. CASE k = n + 1
        <4>1. m + k = m + n + 1
          BY <3>1
        <4> QED
          BY <1>6, <1>8, <3>1, <4>1
      <3>2. CASE k \in 1 .. n
        <4>1. m + k \in 1 .. m + n
          BY <3>2
        <4> QED
          BY <1>4, <1>6, <1>7, <3>2, <4>1
      <3>3. k = n + 1 \/ k \in 1 .. n
        OBVIOUS
      <3> QED
        BY <3>1, <3>2, <3>3, Zenon
    <2> QED
      BY <1>1, <1>4, <1>6, <2>1, <2>2 DEF NamesLists
  <1> QED
    BY <1>9, <1>10 DEF more, x

\* Every step keeps the record and the lists together.
LEMMA StepRecordNamesLists ==
  DrawTypeOK /\ ReservesCome /\ RecordNamesLists /\ [Next]_vars => RecordNamesLists' /\ ReservesCome'
  <1> SUFFICES ASSUME DrawTypeOK, ReservesCome, RecordNamesLists, [Next]_vars
               PROVE  RecordNamesLists' /\ ReservesCome'
    OBVIOUS
  <1>1. CASE Begin
    <2>1. phases'[1] = <<>> /\ phases'[2] = <<>> /\ events' = <<>>
      BY <1>1, NothingSelected DEF Begin
    <2>2. NamesLists(<<>>, <<>>, <<>>)
      BY DEF NamesLists
    <2> QED
      BY <2>1, <2>2 DEF RecordNamesLists, ReservesCome
  <1>2. CASE Select
    <2>1. PICK value \in Nat, e \in Entries :
            /\ value < TotalWeight(Fitting(remaining, capacity))
            /\ phases' = [phases EXCEPT ![quota] = Append(@, e)]
            /\ events' = Append(events, [total |-> TotalWeight(Fitting(remaining, capacity)),
                                         value |-> value, entry |-> e])
      BY <1>2, SelectRecords, Zenon
    <2>2. PICK total \in Nat : total = TotalWeight(Fitting(remaining, capacity))
      BY TotalsAddUp DEF DrawTypeOK, Fitting
    <2>3. PICK event \in SelectionEvent : event.entry = e /\ events' = Append(events, event)
      <3>1. [total |-> total, value |-> value, entry |-> e] \in SelectionEvent
        BY DEF SelectionEvent
      <3> QED
        BY <2>1, <2>2, <3>1
    <2>4. phases[1] \in Seq(Entries) /\ phases[2] \in Seq(Entries) /\ quota \in {1, 2} /\ quota' = quota
      BY <1>2, SelectKeeps DEF DrawTypeOK
    <2>5. events' \in Seq(SelectionEvent)
      BY <2>3 DEF RecordNamesLists
    <2>6. CASE quota = 1
      <3>1. phases'[1] = Append(phases[1], e) /\ phases'[2] = <<>> /\ phases[2] = <<>>
        BY <2>1, <2>6, SelectExtends DEF ReservesCome
      <3>2. NamesLists(events', phases'[1], phases'[2])
        BY <2>3, <2>4, <3>1, NamesGrow DEF RecordNamesLists
      <3> QED
        BY <2>5, <3>1, <3>2 DEF RecordNamesLists, ReservesCome
    <2>7. CASE quota = 2
      <3>1. phases'[2] = Append(phases[2], e) /\ phases'[1] = phases[1]
        BY <2>1, <2>7, SelectExtends
      <3>2. NamesLists(events', phases'[1], phases'[2])
        BY <2>3, <2>4, <3>1, NamesGrow DEF RecordNamesLists
      <3> QED
        BY <2>4, <2>5, <2>7, <3>2 DEF RecordNamesLists, ReservesCome
    <2> QED
      BY <2>4, <2>6, <2>7
  <1>3. CASE UNCHANGED <<phases, events>> /\ (quota' = quota \/ quota' = 2)
    BY <1>3 DEF RecordNamesLists, ReservesCome
  <1> QED
    BY <1>1, <1>2, <1>3
    DEF Next, Draw, RefuseInsufficient, NextQuota, Finish, RefuseUnfillable, vars

\* What a record names is what it named before a round was appended to it.
LEMMA TakenStays ==
  ASSUME NEW ev, NEW more, NEW i, NEW k, \A j \in i .. k - 1 : more[j] = ev[j]
  PROVE  Taken(more, i, k) = Taken(ev, i, k)
  BY DEF Taken

\* A round that followed still follows, when its record is longer and when either its
\* list was complete or it stays in the list.
LEMMA RoundStays ==
  ASSUME NEW ev, NEW more, NEW n \in Nat, \A j \in 1 .. n : more[j] = ev[j],
         NEW rows, NEW w \in Nat, NEW v \in Nat,
         NEW k \in 1 .. n, v = w \/ (k <= w /\ k <= v),
         RoundFollows(rows, ev, w, k)
  PROVE  RoundFollows(rows, more, v, k)
  <1>1. \A i \in Nat \ {0} : Taken(more, i, k) = Taken(ev, i, k)
    <2> SUFFICES ASSUME NEW i \in Nat \ {0} PROVE Taken(more, i, k) = Taken(ev, i, k)
      OBVIOUS
    <2>1. \A j \in i .. k - 1 : more[j] = ev[j]
      OBVIOUS
    <2> QED
      BY <2>1, TakenStays
  <1>2. more[k] = ev[k] /\ Taken(more, 1, k) = Taken(ev, 1, k)
    BY <1>1
  <1>3. PlacesIn(rows, more, v, k) = PlacesIn(rows, ev, w, k)
    <2>1. CASE v = w
      <3>1. PICK i \in Nat \ {0} : i = IF k <= w THEN 1 ELSE w + 1
        OBVIOUS
      <3>2. Taken(more, i, k) = Taken(ev, i, k)
        BY <1>1
      <3> QED
        BY <2>1, <3>1, <3>2 DEF PlacesIn
    <2>2. CASE k <= w /\ k <= v
      BY <1>2, <2>2 DEF PlacesIn
    <2> QED
      BY <2>1, <2>2
  <1> QED
    BY <1>2, <1>3 DEF RoundFollows

\* What a record names is what the lists it names hold.
LEMMA TakenIsSelected ==
  ASSUME NEW ev, NEW first \in Seq(Entries), NEW second \in Seq(Entries), NamesLists(ev, first, second)
  PROVE  /\ Taken(ev, 1, Len(ev) + 1) = Range(first) \cup Range(second)
         /\ Taken(ev, Len(first) + 1, Len(ev) + 1) = Range(second)
         /\ second = <<>> => Len(ev) = Len(first) /\ Range(second) = {}
  <1>1. PICK m \in Nat, n \in Nat : m = Len(first) /\ n = Len(second)
    OBVIOUS
  <1>2. /\ Len(ev) = m + n
        /\ \A k \in 1 .. m : ev[k].entry = first[k]
        /\ \A k \in 1 .. n : ev[m + k].entry = second[k]
    BY <1>1 DEF NamesLists
  <1>3. Range(first) = {first[k] : k \in 1 .. m} /\ Range(second) = {second[k] : k \in 1 .. n}
    BY <1>1 DEF Range
  <1>4. m + n + 1 - 1 = m + n /\ m + 1 - 1 = m
    OBVIOUS
  <1>5. Taken(ev, m + 1, m + n + 1) = Range(second)
    <2>1. ASSUME NEW x \in Range(second) PROVE x \in {ev[j].entry : j \in m + 1 .. m + n}
      <3>1. PICK k \in 1 .. n : x = second[k]
        BY <1>3
      <3>2. m + k \in m + 1 .. m + n
        OBVIOUS
      <3> QED
        BY <1>2, <3>1, <3>2
    <2>2. ASSUME NEW j \in m + 1 .. m + n PROVE ev[j].entry \in Range(second)
      <3>1. j - m \in 1 .. n /\ m + (j - m) = j
        OBVIOUS
      <3> QED
        BY <1>2, <1>3, <3>1
    <2> QED
      BY <1>4, <2>1, <2>2 DEF Taken
  <1>6. Taken(ev, 1, m + n + 1) = Range(first) \cup Range(second)
    <2>1. 1 .. m + n = (1 .. m) \cup (m + 1 .. m + n)
      OBVIOUS
    <2>2. {ev[j].entry : j \in 1 .. m} = Range(first)
      BY <1>2, <1>3
    <2>3. {ev[j].entry : j \in m + 1 .. m + n} = Range(second)
      BY <1>4, <1>5 DEF Taken
    <2>4. Taken(ev, 1, m + n + 1) = {ev[j].entry : j \in 1 .. m} \cup {ev[j].entry : j \in m + 1 .. m + n}
      BY <1>4, <2>1 DEF Taken
    <2> QED
      BY <2>2, <2>3, <2>4
  <1>7. second = <<>> => n = 0 /\ m + n = m /\ Range(second) = {}
    BY <1>1, <1>3
  <1> QED
    BY <1>1, <1>2, <1>5, <1>6, <1>7

\* What a record holds after one more event.
LEMMA AppendReads ==
  ASSUME NEW ev \in Seq(SelectionEvent), NEW event \in SelectionEvent
  PROVE  /\ Len(Append(ev, event)) = Len(ev) + 1
         /\ \A k \in 1 .. Len(ev) : Append(ev, event)[k] = ev[k]
         /\ Append(ev, event)[Len(ev) + 1] = event
  OBVIOUS

\* A sequence of entries is the function of its elements.
LEMMA SequenceOfItsElements ==
  ASSUME NEW s \in Seq(Entries)
  PROVE  s = [k \in 1 .. Len(s) |-> s[k]]
  OBVIOUS

\* Every step keeps the record replayable.
LEMMA StepRoundsFollow ==
  IInv /\ ReservesCome /\ RecordNamesLists /\ RoundsFollow /\ [Next]_vars => RoundsFollow'
  <1> SUFFICES ASSUME IInv, ReservesCome, RecordNamesLists, RoundsFollow, [Next]_vars PROVE RoundsFollow'
    OBVIOUS
  <1>1. CASE Begin
    <2>1. Len(events') = 0
      BY <1>1 DEF Begin
    <2> QED
      BY <2>1 DEF RoundsFollow
  <1>2. CASE Select
    <2> DEFINE candidates == Fitting(remaining, capacity)
    <2>1. PICK value \in Nat, e \in Entries :
            /\ value < TotalWeight(candidates)
            /\ IsAtCumulativeWeight(candidates, value, e)
            /\ phases' = [phases EXCEPT ![quota] = Append(@, e)]
            /\ events' = Append(events, [total |-> TotalWeight(candidates), value |-> value, entry |-> e])
      BY <1>2, SelectRecords, Zenon DEF IInv
    <2>2. PICK first \in Seq(Entries), second \in Seq(Entries) :
            first = phases[1] /\ second = phases[2] /\ NamesLists(events, first, second)
      BY DEF IInv, DrawTypeOK, RecordNamesLists
    <2>3. PICK m \in Nat, n \in Nat, l \in Nat : m = Len(first) /\ n = Len(second) /\ l = Len(events) /\ l = m + n
      <3>1. Len(first) \in Nat /\ Len(second) \in Nat /\ Len(events) = Len(first) + Len(second)
        BY <2>2 DEF NamesLists
      <3> QED
        BY <3>1
    <2>4. PICK total \in Nat : total = TotalWeight(candidates)
      BY TotalsAddUp DEF IInv, DrawTypeOK, Fitting
    <2>5. /\ Len(events') = l + 1
          /\ \A k \in 1 .. l : events'[k] = events[k]
          /\ events'[l + 1].total = total /\ events'[l + 1].value = value /\ events'[l + 1].entry = e
      <3>1. [total |-> total, value |-> value, entry |-> e] \in SelectionEvent
        BY DEF SelectionEvent
      <3>2. PICK event \in SelectionEvent :
              event.total = total /\ event.value = value /\ event.entry = e /\ events' = Append(events, event)
        BY <2>1, <2>4, <3>1
      <3>3. PICK ev \in Seq(SelectionEvent) : ev = events
        BY DEF RecordNamesLists
      <3>4. PICK more : more = Append(ev, event)
        OBVIOUS
      <3>5. Len(more) = l + 1 /\ (\A k \in 1 .. l : more[k] = ev[k]) /\ more[l + 1] = event
        <4>1. l = Len(ev)
          BY <2>3, <3>3
        <4> QED
          BY <3>4, <4>1, AppendReads, Zenon
      <3>6. more = events'
        BY <3>2, <3>3, <3>4
      <3> QED
        BY <3>2, <3>3, <3>5, <3>6
    <2>12. \A i \in Nat \ {0}, k \in 1 .. l + 1 : Taken(events', i, k) = Taken(events, i, k)
      <3>1. PICK ev, more : ev = events /\ more = events' /\ \A j \in 1 .. l : more[j] = ev[j]
        BY <2>5
      <3>2. ASSUME NEW i \in Nat \ {0}, NEW k \in 1 .. l + 1
            PROVE  Taken(more, i, k) = Taken(ev, i, k)
        <4>1. \A j \in i .. k - 1 : more[j] = ev[j]
          BY <3>1
        <4> QED
          BY <4>1, TakenStays
      <3> QED
        BY <3>1, <3>2
    <2>6. quota \in {1, 2} /\ pool' = pool /\ Begun
      BY <1>2, SelectKeeps DEF IInv, DrawTypeOK, Begun
    <2>7. PICK v \in Nat : v = Len(phases'[1]) /\ (quota = 1 => v = m + 1 /\ n = 0) /\ (quota = 2 => v = m)
      <3>1. CASE quota = 1
        <4>1. phases'[1] = Append(first, e) /\ second = <<>>
          BY <2>1, <2>2, <3>1, SelectExtends DEF IInv, ReservesCome
        <4>2. Len(Append(first, e)) = m + 1 /\ n = 0
          BY <2>3, <4>1
        <4> QED
          BY <3>1, <4>1, <4>2
      <3>2. CASE quota = 2
        <4>1. phases'[1] = first
          BY <2>1, <2>2, <3>2, SelectExtends DEF IInv
        <4> QED
          BY <2>3, <3>2, <4>1
      <3> QED
        BY <2>6, <3>1, <3>2
    <2>8. ASSUME NEW k \in 1 .. l PROVE RoundFollows(pool, events', v, k)
      <3>1. RoundFollows(pool, events, m, k)
        BY <2>2, <2>3 DEF RoundsFollow
      <3>2. v = m \/ (k <= m /\ k <= v)
        BY <2>3, <2>6, <2>7
      <3> HIDE DEF candidates
      <3> QED
        BY <2>5, <3>1, <3>2, RoundStays
    <2>9. RoundFollows(pool, events', v, l + 1)
      <3>1. Taken(events', 1, l + 1) = Winners \cup Reserves
        <4>1. Taken(events, 1, l + 1) = Winners \cup Reserves
          BY <2>2, <2>3, TakenIsSelected DEF Winners, Reserves
        <4>2. Taken(events', 1, l + 1) = Taken(events, 1, l + 1)
          <5>1. 1 \in Nat \ {0} /\ l + 1 \in 1 .. l + 1
            OBVIOUS
          <5> QED
            BY <2>12, <5>1
        <4> QED
          BY <4>1, <4>2
      <3>2. PlacesIn(pool, events', v, l + 1) = capacity
        <4>0. pool.spots \in Nat /\ capacity \in Nat /\ Pilgrims(Winners) \in Nat /\ Pilgrims(Reserves) \in Nat
          BY PilgrimsType, SelectedAreEntries DEF IInv, DrawTypeOK, PoolRows
        <4>1. \A S : PilgrimsIn(pool, S) = Pilgrims(S)
          BY DEF PilgrimsIn, Pilgrims
        <4>2. CASE quota = 1
          <5>1. l + 1 <= v
            BY <2>3, <2>7, <4>2
          <5>5. second = <<>>
            BY <2>2, <4>2 DEF ReservesCome
          <5>2. Taken(events', 1, l + 1) = Winners
            <6>1. Reserves = {}
              BY <2>2, <5>5, TakenIsSelected DEF Reserves
            <6> QED
              BY <3>1, <6>1
          <5>3. capacity + Pilgrims(Winners) = pool.spots
            BY <2>6, <4>2 DEF IInv, PlacesAddUp
          <5>4. PlacesIn(pool, events', v, l + 1) = pool.spots - Pilgrims(Winners)
            BY <4>1, <5>1, <5>2 DEF PlacesIn
          <5> QED
            BY <4>0, <5>3, <5>4
        <4>3. CASE quota = 2
          <5>1. ~ (l + 1 <= v) /\ v = m /\ m + 1 \in Nat \ {0} /\ l + 1 \in 1 .. l + 1
            BY <2>3, <2>7, <4>3
          <5>2. Taken(events', m + 1, l + 1) = Reserves
            <6>1. Taken(events, m + 1, l + 1) = Reserves
              BY <2>2, <2>3, TakenIsSelected DEF Reserves
            <6>2. Taken(events', m + 1, l + 1) = Taken(events, m + 1, l + 1)
              BY <2>12, <5>1
            <6> QED
              BY <6>1, <6>2
          <5>3. capacity + Pilgrims(Reserves) = pool.spots
            BY <2>6, <4>3 DEF IInv, PlacesAddUp
          <5>4. PlacesIn(pool, events', v, l + 1) = pool.spots - Pilgrims(Reserves)
            BY <4>1, <5>1, <5>2 DEF PlacesIn
          <5> QED
            BY <4>0, <5>3, <5>4
        <4> QED
          BY <2>6, <4>2, <4>3
      <3>3. FittingIn(pool, Entries \ (Winners \cup Reserves), capacity) = candidates
        BY DEF FittingIn, Fitting, PilgrimCount, IInv, SelectedOnce
      <3>4. SumOf(pool.weight, candidates) = total
        BY <2>4, TotalIsSum
      <3>5. PicksIn(pool, candidates, value, e)
        BY <2>1, TotalIsSum DEF PicksIn, IsAtCumulativeWeight
      <3>6. value \in 0 .. total - 1
        BY <2>1, <2>4
      <3> HIDE DEF candidates
      <3> QED
        BY <2>5, <3>1, <3>2, <3>3, <3>4, <3>5, <3>6 DEF RoundFollows
    <2> HIDE DEF candidates
    <2>10. \A k \in 1 .. l + 1 : k \in 1 .. l \/ k = l + 1
      OBVIOUS
    <2>11. \A k \in 1 .. l + 1 : RoundFollows(pool, events', v, k)
      BY <2>8, <2>9, <2>10, Zenon
    <2> QED
      BY <2>5, <2>6, <2>7, <2>11, Zenon DEF RoundsFollow
  <1>3. CASE UNCHANGED <<pool, phases, events>>
    BY <1>3 DEF RoundsFollow
  <1> QED
    BY <1>1, <1>2, <1>3
    DEF Next, Draw, RefuseInsufficient, NextQuota, Finish, RefuseUnfillable, vars

\* The record of every draw replays from the frozen pool alone: an auditor who reads the
\* recorded values finds the recorded winners and reserves, in the recorded order, whatever
\* the pool and however often the draw was attempted.
THEOREM RecordReplays == Spec => []Replayable
  <1> DEFINE Whole == IInv /\ ReservesCome /\ RecordNamesLists /\ RoundsFollow
  <1>1. Init => Whole
    <2> SUFFICES ASSUME Init PROVE Whole
      OBVIOUS
    <2>1. phases[1] = <<>> /\ phases[2] = <<>> /\ events = <<>> /\ Len(<<>>) = 0
      BY NothingSelected DEF Init
    <2>2. NamesLists(<<>>, <<>>, <<>>)
      BY DEF NamesLists
    <2> QED
      BY <2>1, <2>2, InitIInv DEF RecordNamesLists, ReservesCome, RoundsFollow
  <1>2. Whole /\ [Next]_vars => Whole'
    BY StepDrawTypeOK, StepSelectedOnce, StepPlacesAddUp, StepEndsForAReason,
       StepRecordNamesLists, StepRoundsFollow DEF IInv
  <1>3. Whole => Replayable
    <2> SUFFICES ASSUME Whole PROVE Replayable
      OBVIOUS
    <2>1. PICK first \in Seq(Entries), second \in Seq(Entries) :
            first = phases[1] /\ second = phases[2] /\ NamesLists(events, first, second)
      BY DEF IInv, DrawTypeOK, RecordNamesLists
    <2>2. DOMAIN events = 1 .. Len(events)
      BY DEF RecordNamesLists
    <2>3. [k \in DOMAIN events |-> events[k].entry] = first \o second
      <3>1. PICK m \in Nat, n \in Nat : m = Len(first) /\ n = Len(second) /\ Len(events) = m + n
        <4>1. Len(first) \in Nat /\ Len(second) \in Nat /\ Len(events) = Len(first) + Len(second)
          BY <2>1 DEF NamesLists
        <4> QED
          BY <4>1
      <3>2. /\ first \o second \in Seq(Entries) /\ Len(first \o second) = m + n
            /\ \A k \in 1 .. m : (first \o second)[k] = first[k]
            /\ \A k \in 1 .. m + n : k > m => (first \o second)[k] = second[k - m]
        BY <3>1
      <3>3. /\ \A k \in 1 .. m : events[k].entry = first[k]
            /\ \A k \in 1 .. n : events[m + k].entry = second[k]
        BY <2>1, <3>1 DEF NamesLists
      <3>4. \A k \in 1 .. m + n : events[k].entry = (first \o second)[k]
        <4> SUFFICES ASSUME NEW k \in 1 .. m + n PROVE events[k].entry = (first \o second)[k]
          OBVIOUS
        <4>1. CASE k <= m
          BY <3>2, <3>3, <4>1
        <4>2. CASE k > m
          <5>1. k - m \in 1 .. n /\ m + (k - m) = k
            BY <4>2
          <5> QED
            BY <3>2, <3>3, <4>2, <5>1
        <4>3. k <= m \/ k > m
          OBVIOUS
        <4> QED
          BY <4>1, <4>2, <4>3, Zenon
      <3>5. \E s \in Seq(Entries) : s = first \o second
        BY <3>2
      <3>6. first \o second = [k \in 1 .. m + n |-> (first \o second)[k]]
        BY <3>2, <3>5, SequenceOfItsElements
      <3> QED
        BY <2>2, <3>1, <3>4, <3>6
    <2>4. ASSUME NEW k \in DOMAIN events
          PROVE  LET candidates == Fitting(Entries \ DrawnBefore(k), PlacesBefore(k)) IN
                 /\ events[k].total = TotalWeight(candidates)
                 /\ events[k].value \in 0 .. events[k].total - 1
                 /\ IsAtCumulativeWeight(candidates, events[k].value, events[k].entry)
      <3>1. RoundFollows(pool, events, Len(phases[1]), k)
        BY <2>2 DEF RoundsFollow
      <3>2. DrawnBefore(k) = Taken(events, 1, k)
        BY DEF DrawnBefore, Taken
      <3>3. PlacesBefore(k) = PlacesIn(pool, events, Len(phases[1]), k)
        BY DEF PlacesBefore, PlacesIn, Taken, PilgrimsIn, Pilgrims
      <3>4. \A S, p : Fitting(S, p) = FittingIn(pool, S, p)
        BY DEF Fitting, FittingIn, PilgrimCount
      <3>5. \A C, v, e : IsAtCumulativeWeight(C, v, e) <=> PicksIn(pool, C, v, e)
        BY TotalIsSum DEF IsAtCumulativeWeight, PicksIn
      <3> QED
        BY <3>1, <3>2, <3>3, <3>4, <3>5, TotalIsSum DEF RoundFollows
    <2> QED
      BY <2>1, <2>3, <2>4 DEF Replayable
  <1> HIDE DEF Whole
  <1> QED
    BY <1>1, <1>2, <1>3, PTL DEF Spec

------------------------------------------------------------------------------
(* The fingerprint (Snapshot): the order of the entries.                    *)

\* The entries of a pool at any time: keyed by application.
PoolList(s, n) ==
  /\ n \in Nat /\ s \in [1 .. n -> Listed(s)] /\ Keyed(s)
  /\ \A i \in 1 .. n : IsEntry(s[i])

Place(s, i) == Cardinality(Earlier(s, s[i])) + 1

\* Of two entries, the one of the smaller application id comes first.
LEMMA EarlierComesFirst ==
  ASSUME NEW s, NEW n, PoolList(s, n), NEW i \in 1 .. n, NEW j \in 1 .. n,
         s[i].application < s[j].application
  PROVE  Place(s, i) < Place(s, j)
  <1> DEFINE E == Earlier(s, s[i])
             F == Earlier(s, s[j])
  <1>1. \A k \in 1 .. n : s[k].application \in Nat
    BY DEF PoolList, IsEntry
  <1>2. DOMAIN s = 1 .. n
    BY DEF PoolList
  <1>3. E \in SUBSET F /\ i \in F /\ i \notin E /\ F \in SUBSET (1 .. n)
    BY <1>1, <1>2 DEF Earlier
  <1>4. IsFiniteSet(1 .. n)
    BY FS_Interval DEF PoolList
  <1> HIDE DEF E, F
  <1>5. IsFiniteSet(F) /\ IsFiniteSet(E)
    BY <1>3, <1>4, FS_Subset
  <1>6. Cardinality(E) <= Cardinality(F) /\ Cardinality(E) # Cardinality(F)
    BY <1>3, <1>5, FS_Subset
  <1>7. Cardinality(E) \in Nat /\ Cardinality(F) \in Nat
    BY <1>5, FS_CardinalityType
  <1> QED
    BY <1>6, <1>7 DEF Place, E, F

\* The places are those of the list, each of one entry, and every one is taken.
LEMMA PlacesAreTaken ==
  ASSUME NEW s, NEW n, PoolList(s, n)
  PROVE  /\ \A i \in 1 .. n : Place(s, i) \in 1 .. n
         /\ \A i, j \in 1 .. n : Place(s, i) = Place(s, j) => i = j
         /\ \A k \in 1 .. n : \E i \in 1 .. n : Place(s, i) = k
  <1>1. n \in Nat /\ DOMAIN s = 1 .. n /\ IsFiniteSet(1 .. n) /\ Cardinality(1 .. n) = n
    <2>1. n \in Nat /\ DOMAIN s = 1 .. n
      BY DEF PoolList
    <2> QED
      BY <2>1, FS_Interval
  <1>2. \A i \in 1 .. n : s[i].application \in Nat
    BY DEF PoolList, IsEntry
  <1>3. ASSUME NEW i \in 1 .. n PROVE Place(s, i) \in 1 .. n
    <2>1. Earlier(s, s[i]) \in SUBSET ((1 .. n) \ {i})
      BY <1>1, <1>2 DEF Earlier
    <2>2. IsFiniteSet((1 .. n) \ {i}) /\ Cardinality((1 .. n) \ {i}) = n - 1
      BY <1>1, FS_RemoveElement
    <2>3. IsFiniteSet(Earlier(s, s[i])) /\ Cardinality(Earlier(s, s[i])) <= n - 1
      BY <2>1, <2>2, FS_Subset
    <2>4. Cardinality(Earlier(s, s[i])) \in Nat
      BY <2>3, FS_CardinalityType
    <2> QED
      BY <1>1, <2>3, <2>4 DEF Place
  <1>4. ASSUME NEW i \in 1 .. n, NEW j \in 1 .. n, Place(s, i) = Place(s, j) PROVE i = j
    <2>1. ~ (s[i].application < s[j].application) /\ ~ (s[j].application < s[i].application)
      BY <1>3, <1>4, EarlierComesFirst
    <2>2. s[i].application = s[j].application
      BY <1>2, <2>1
    <2> QED
      BY <1>1, <2>2 DEF PoolList, Keyed
  <1>5. \A k \in 1 .. n : \E i \in 1 .. n : Place(s, i) = k
    <2> DEFINE f == [i \in 1 .. n |-> Place(s, i)]
    <2>1. f \in [1 .. n -> 1 .. n] /\ \A i, j \in 1 .. n : f[i] = f[j] => i = j
      BY <1>3, <1>4
    <2> HIDE DEF f
    <2>2. f \in Injection(1 .. n, 1 .. n)
      BY <2>1 DEF Injection, IsInjective
    <2>3. f \in Surjection(1 .. n, 1 .. n)
      BY <1>1, <2>2, FS_Injection
    <2>4. \A k \in 1 .. n : \E i \in 1 .. n : f[i] = k
      BY <2>3, Zenon DEF Surjection
    <2> QED
      BY <2>4 DEF f
  <1> QED
    BY <1>3, <1>4, <1>5

\* Sorted by application, each entry is at its place.
LEMMA SortedAtPlace ==
  ASSUME NEW s, NEW n, PoolList(s, n)
  PROVE  /\ DOMAIN ByApplication(s) = 1 .. n
         /\ \A i \in 1 .. n : ByApplication(s)[Place(s, i)] = s[i]
  <1>1. DOMAIN s = 1 .. n
    BY DEF PoolList
  <1>2. ASSUME NEW i \in 1 .. n PROVE ByApplication(s)[Place(s, i)] = s[i]
    <2>1. Place(s, i) \in 1 .. n
      BY PlacesAreTaken
    <2>2. ByApplication(s)[Place(s, i)] =
            CHOOSE e \in Listed(s) : Cardinality(Earlier(s, e)) = Place(s, i) - 1
      BY <1>1, <2>1 DEF ByApplication
    <2>3. \A j \in 1 .. n : Cardinality(Earlier(s, s[j])) \in Int
      <3>1. \A j \in 1 .. n : Earlier(s, s[j]) \in SUBSET (1 .. n)
        BY <1>1 DEF Earlier
      <3>2. IsFiniteSet(1 .. n)
        BY FS_Interval DEF PoolList
      <3>3. \A j \in 1 .. n : IsFiniteSet(Earlier(s, s[j]))
        BY <3>1, <3>2, FS_Subset
      <3>4. \A j \in 1 .. n : Cardinality(Earlier(s, s[j])) \in Nat
        BY <3>3, FS_CardinalityType
      <3> QED
        BY <3>4
    <2>4. \A j \in 1 .. n : Cardinality(Earlier(s, s[j])) = Place(s, i) - 1 <=> j = i
      <3>1. \A j \in 1 .. n : Cardinality(Earlier(s, s[j])) = Place(s, i) - 1 <=>
                                Place(s, j) = Place(s, i)
        BY <2>3 DEF Place
      <3> QED
        BY <3>1, PlacesAreTaken
    <2>5. \A e \in Listed(s) : Cardinality(Earlier(s, e)) = Place(s, i) - 1 <=> e = s[i]
      <3>1. \A e \in Listed(s) : \E j \in 1 .. n : e = s[j]
        BY <1>1 DEF Listed
      <3>2. Cardinality(Earlier(s, s[i])) = Place(s, i) - 1
        BY <2>4
      <3> QED
        BY <2>4, <3>1, <3>2
    <2>6. s[i] \in Listed(s)
      BY <1>1 DEF Listed
    <2> QED
      BY <2>2, <2>5, <2>6
  <1>3. DOMAIN ByApplication(s) = 1 .. n
    BY <1>1 DEF ByApplication
  <1> QED
    BY <1>2, <1>3

\* A list and its sorted text list the same entries.
LEMMA SortedListsTheSame ==
  ASSUME NEW s, NEW n, PoolList(s, n)
  PROVE  Listed(s) = {ByApplication(s)[k] : k \in 1 .. n}
  <1>1. \A i \in 1 .. n : Place(s, i) \in 1 .. n /\ ByApplication(s)[Place(s, i)] = s[i]
    BY PlacesAreTaken, SortedAtPlace
  <1>2. \A k \in 1 .. n : \E i \in 1 .. n : Place(s, i) = k
    BY PlacesAreTaken
  <1>3. DOMAIN s = 1 .. n
    BY DEF PoolList
  <1>4. \A i \in 1 .. n : s[i] \in {ByApplication(s)[k] : k \in 1 .. n}
    BY <1>1
  <1>5. \A k \in 1 .. n : ByApplication(s)[k] \in Listed(s)
    BY <1>1, <1>2, <1>3 DEF Listed
  <1> QED
    BY <1>3, <1>4, <1>5 DEF Listed

\* Two lists of the same entries sort to the same text.
LEMMA SameListSortsTheSame ==
  ASSUME NEW s, NEW t, NEW n, PoolList(s, n), PoolList(t, n), Listed(s) = Listed(t)
  PROVE  ByApplication(s) = ByApplication(t)
  <1>1. n \in Nat /\ DOMAIN s = 1 .. n /\ DOMAIN t = 1 .. n
    BY DEF PoolList
  <1>2. ASSUME NEW a, NEW b, PoolList(a, n), PoolList(b, n), Listed(a) = Listed(b), NEW i \in 1 .. n,
               NEW j \in 1 .. n, a[i] = b[j]
        PROVE  Place(a, i) <= Place(b, j)
    <2>1. DOMAIN a = 1 .. n /\ DOMAIN b = 1 .. n
      BY <1>2 DEF PoolList
    <2> DEFINE E == Earlier(a, a[i])
               F == Earlier(b, b[j])
               at == [k \in 1 .. n |-> CHOOSE l \in 1 .. n : b[l] = a[k]]
               f == [k \in E |-> at[k]]
    <2>2. \A k \in 1 .. n : at[k] \in 1 .. n /\ b[at[k]] = a[k]
      <3>1. \A k \in 1 .. n : \E l \in 1 .. n : b[l] = a[k]
        BY <1>2, <2>1 DEF Listed
      <3> QED
        BY <3>1
    <2> HIDE DEF at
    <2>3. E \in SUBSET (1 .. n) /\ F \in SUBSET (1 .. n)
      BY <2>1 DEF Earlier
    <2>4. \A k \in E : at[k] \in F
      BY <1>2, <2>1, <2>2 DEF Earlier
    <2>5. \A k, l \in E : at[k] = at[l] => k = l
      <3>1. \A k, l \in E : at[k] = at[l] => a[k].application = a[l].application
        BY <2>2, <2>3
      <3> QED
        BY <1>2, <2>1, <2>3, <3>1 DEF PoolList, Keyed
    <2>6. IsFiniteSet(E) /\ IsFiniteSet(F)
      <3>1. IsFiniteSet(1 .. n)
        BY <1>1, FS_Interval
      <3> QED
        BY <2>3, <3>1, FS_Subset
    <2>7. Cardinality(E) \in Nat /\ Cardinality(F) \in Nat
      BY <2>6, FS_CardinalityType
    <2> HIDE DEF E, F
    <2>8. f \in Injection(E, F)
      BY <2>4, <2>5 DEF Injection, IsInjective
    <2> HIDE DEF f
    <2>9. Cardinality(E) <= Cardinality(F)
      BY <2>6, <2>8, FS_Injection
    <2> QED
      BY <2>7, <2>9 DEF E, F, Place
  <1>3. ASSUME NEW i \in 1 .. n, NEW j \in 1 .. n, s[i] = t[j]
        PROVE  Place(s, i) = Place(t, j)
    <2>1. Place(s, i) \in 1 .. n /\ Place(t, j) \in 1 .. n
      BY PlacesAreTaken
    <2>2. Place(s, i) <= Place(t, j)
      BY <1>2, <1>3
    <2>3. Place(t, j) <= Place(s, i)
      BY <1>2, <1>3
    <2> QED
      BY <1>1, <2>1, <2>2, <2>3
  <1>4. DOMAIN ByApplication(s) = 1 .. n /\ DOMAIN ByApplication(t) = 1 .. n
    BY SortedAtPlace
  <1>5. ASSUME NEW k \in 1 .. n PROVE ByApplication(s)[k] = ByApplication(t)[k]
    <2>1. PICK i \in 1 .. n : Place(s, i) = k
      BY PlacesAreTaken
    <2>2. PICK j \in 1 .. n : s[i] = t[j]
      BY <1>1 DEF Listed
    <2>3. Place(t, j) = k
      BY <1>3, <2>1, <2>2
    <2> QED
      BY <2>1, <2>2, <2>3, SortedAtPlace
  <1>6. /\ ByApplication(s) = [k \in 1 .. n |-> ByApplication(s)[k]]
        /\ ByApplication(t) = [k \in 1 .. n |-> ByApplication(t)[k]]
    BY <1>1 DEF ByApplication
  <1> QED
    BY <1>5, <1>6

------------------------------------------------------------------------------
(* The totals of a pool.                                                    *)

\* Two sums that are the same stay so when each takes in one more of the same weight.
LEMMA SumsGrowTogether ==
  ASSUME NEW S, IsFiniteSet(S), NEW v, NEW i, i \notin S, \A x \in S \cup {i} : v[x] \in Nat,
         NEW X, IsFiniteSet(X), NEW w, NEW e, e \notin X, \A x \in X \cup {e} : w[x] \in Nat,
         SumOf(v, S) = SumOf(w, X), v[i] = w[e]
  PROVE  SumOf(v, S \cup {i}) = SumOf(w, X \cup {e})
  <1>1. SumOf(v, S \cup {i}) = SumOf(v, S) + v[i]
    BY SumOfOneMore
  <1>2. SumOf(w, X \cup {e}) = SumOf(w, X) + w[e]
    BY SumOfOneMore
  <1> QED
    BY <1>1, <1>2

\* The entries at the places of a set, and what they add up to.
EntriesAt(s, T) == {s[i] : i \in T}

SumsUp(s, v, w, T) == IsFiniteSet(EntriesAt(s, T)) /\ SumOf(v, T) = SumOf(w, EntriesAt(s, T))

\* One place more, of an entry that is at no other.
LEMMA OnePlaceMore ==
  ASSUME NEW s, NEW U, IsFiniteSet(U), NEW i, i \notin U, \A j \in U : s[j] # s[i],
         NEW v, NEW w, \A j \in U \cup {i} : v[j] = w[s[j]] /\ w[s[j]] \in Nat, SumsUp(s, v, w, U)
  PROVE  SumsUp(s, v, w, U \cup {i})
  <1>1. EntriesAt(s, U \cup {i}) = EntriesAt(s, U) \cup {s[i]} /\ s[i] \notin EntriesAt(s, U)
    BY DEF EntriesAt
  <1>2. \A x \in EntriesAt(s, U) \cup {s[i]} : w[x] \in Nat
    BY DEF EntriesAt
  <1>3. IsFiniteSet(EntriesAt(s, U)) /\ SumOf(v, U) = SumOf(w, EntriesAt(s, U))
    BY DEF SumsUp
  <1>4. IsFiniteSet(EntriesAt(s, U) \cup {s[i]})
    BY <1>3, FS_AddElement
  <1>5. ASSUME NEW X, X = EntriesAt(s, U), NEW e, e = s[i]
        PROVE  SumOf(v, U \cup {i}) = SumOf(w, X \cup {e})
    <2>1. IsFiniteSet(X) /\ e \notin X /\ (\A x \in X \cup {e} : w[x] \in Nat)
      BY <1>1, <1>2, <1>3, <1>5
    <2>2. (\A x \in U \cup {i} : v[x] \in Nat) /\ v[i] = w[e] /\ SumOf(v, U) = SumOf(w, X)
      BY <1>3, <1>5
    <2> QED
      BY <2>1, <2>2, SumsGrowTogether
  <1>6. SumOf(v, U \cup {i}) = SumOf(w, EntriesAt(s, U) \cup {s[i]})
    BY <1>5
  <1> QED
    BY <1>1, <1>4, <1>6 DEF SumsUp

\* What a list adds up to does not depend on its order: it is the sum over what is listed.
LEMMA TotalOfListed ==
  ASSUME NEW s, NEW n, PoolList(s, n), NEW w, \A e \in Listed(s) : w[e] \in Nat
  PROVE  Total([i \in 1 .. n |-> w[s[i]]]) = SumOf(w, Listed(s))
  <1> DEFINE v == [i \in 1 .. n |-> w[s[i]]]
             P == {m \in Nat : \A T \in SUBSET (1 .. n) : Cardinality(T) = m => SumsUp(s, v, w, T)}
  <1>1. /\ n \in Nat /\ DOMAIN s = 1 .. n /\ IsFiniteSet(1 .. n)
        /\ \A i \in 1 .. n : w[s[i]] \in Nat
        /\ \A i, j \in 1 .. n : s[i] = s[j] => i = j
    <2>1. n \in Nat /\ DOMAIN s = 1 .. n
      BY DEF PoolList
    <2>2. \A i, j \in 1 .. n : s[i] = s[j] => i = j
      BY <2>1 DEF PoolList, Keyed
    <2>3. \A i \in 1 .. n : w[s[i]] \in Nat
      BY <2>1 DEF Listed
    <2> QED
      BY <2>1, <2>2, <2>3, FS_Interval
  <1>2. \A T \in SUBSET (1 .. n) : IsFiniteSet(T) /\ Cardinality(T) \in Nat
    BY <1>1, FS_Subset, FS_CardinalityType
  <1>3. \A i \in 1 .. n : v[i] = w[s[i]]
    OBVIOUS
  <1> HIDE DEF v
  <1>4. 0 \in P
    <2>1. SumsUp(s, v, w, {})
      <3>1. EntriesAt(s, {}) = {}
        BY DEF EntriesAt
      <3> QED
        BY <3>1, SumOfNone, FS_EmptySet DEF SumsUp
    <2>2. \A T \in SUBSET (1 .. n) : Cardinality(T) = 0 => T = {}
      BY <1>2, FS_EmptySet
    <2> QED
      BY <2>1, <2>2
  <1>5. ASSUME NEW m \in P PROVE m + 1 \in P
    <2>1. m \in Nat /\ \A T \in SUBSET (1 .. n) : Cardinality(T) = m => SumsUp(s, v, w, T)
      OBVIOUS
    <2>2. ASSUME NEW T \in SUBSET (1 .. n), Cardinality(T) = m + 1 PROVE SumsUp(s, v, w, T)
      <3>1. PICK i : i \in T
        BY <2>1, <2>2, FS_EmptySet
      <3>2. PICK U : U = T \ {i}
        OBVIOUS
      <3>3. /\ U \in SUBSET (1 .. n) /\ Cardinality(U) = m /\ i \notin U /\ T = U \cup {i}
            /\ i \in 1 .. n
        BY <1>2, <2>1, <2>2, <3>1, <3>2, OneFewer
      <3> HIDE DEF P
      <3>4. SumsUp(s, v, w, U) /\ IsFiniteSet(U)
        BY <1>2, <2>1, <3>3
      <3>5. \A j \in U : s[j] # s[i]
        BY <1>1, <3>3
      <3>6. \A j \in U \cup {i} : v[j] = w[s[j]] /\ w[s[j]] \in Nat
        BY <1>1, <1>3, <3>3
      <3>7. SumsUp(s, v, w, U \cup {i})
        BY <3>3, <3>4, <3>5, <3>6, OnePlaceMore
      <3> QED
        BY <3>3, <3>7
    <2> QED
      BY <2>1, <2>2
  <1>6. P = Nat
    <2>1. P \in SUBSET Nat
      OBVIOUS
    <2> HIDE DEF P
    <2> QED
      BY <1>4, <1>5, <2>1, InductionOnNat
  <1>7. SumsUp(s, v, w, 1 .. n)
    <2>1. Cardinality(1 .. n) \in P
      BY <1>2, <1>6
    <2> QED
      BY <2>1
  <1>8. Total(v) = SumOf(v, 1 .. n)
    <2>1. DOMAIN v = 1 .. n
      BY DEF v
    <2> QED
      BY <2>1 DEF Total, SumOf
  <1>9. EntriesAt(s, 1 .. n) = Listed(s)
    BY <1>1 DEF Listed, EntriesAt
  <1>10. Total(v) = SumOf(w, Listed(s))
    BY <1>7, <1>8, <1>9 DEF SumsUp
  <1> QED
    BY <1>10 DEF v

------------------------------------------------------------------------------
(* The fingerprint: what it tells of a pool.                                 *)

\* The length of a list is the number of its places.
LEMMA LengthOfList ==
  ASSUME NEW s, NEW n, PoolList(s, n)
  PROVE  Len(s) = n /\ DOMAIN s = 1 .. n
  <1>1. n \in Nat /\ s \in [1 .. n -> Listed(s)]
    BY DEF PoolList
  <1>2. PICK X : X = Listed(s)
    OBVIOUS
  <1>3. s \in Seq(X)
    <2>1. s \in [1 .. n -> X]
      BY <1>1, <1>2
    <2> QED
      BY <1>1, <2>1
  <1> QED
    BY <1>1, <1>3

\* The same entries, in any order, give the same totals and the same text.
LEMMA SameEntriesSameText ==
  ASSUME NEW s, NEW t, NEW n, PoolList(s, n), PoolList(t, n), Listed(s) = Listed(t), NEW draw, NEW spots
  PROVE  /\ Total(Weights(s)) = Total(Weights(t))
         /\ Total(PilgrimCounts(s)) = Total(PilgrimCounts(t))
         /\ CanonicalizePool(draw, spots, s) = CanonicalizePool(draw, spots, t)
  <1> DEFINE weight == [e \in Listed(s) |-> e.weight]
             pilgrims == [e \in Listed(s) |-> PilgrimCountOf(e)]
  <1>1. DOMAIN s = 1 .. n /\ DOMAIN t = 1 .. n /\ Len(s) = Len(t)
    BY LengthOfList
  <1>2. \A i \in 1 .. n : s[i] \in Listed(s) /\ t[i] \in Listed(s)
    BY <1>1 DEF Listed
  <1>3. \A e \in Listed(s) : weight[e] \in Nat /\ pilgrims[e] \in Nat
    <2>1. \A e \in Listed(s) : e.weight \in Nat
      BY <1>1 DEF Listed, PoolList, IsEntry
    <2> QED
      BY <2>1 DEF PilgrimCountOf
  <1>4. Weights(s) = [i \in 1 .. n |-> weight[s[i]]] /\ Weights(t) = [i \in 1 .. n |-> weight[t[i]]]
    BY <1>1, <1>2 DEF Weights
  <1>5. /\ PilgrimCounts(s) = [i \in 1 .. n |-> pilgrims[s[i]]]
        /\ PilgrimCounts(t) = [i \in 1 .. n |-> pilgrims[t[i]]]
    BY <1>1, <1>2 DEF PilgrimCounts
  <1> HIDE DEF weight, pilgrims
  <1>6. Total(Weights(s)) = SumOf(weight, Listed(s)) /\ Total(Weights(t)) = SumOf(weight, Listed(t))
    BY <1>3, <1>4, TotalOfListed
  <1>7. /\ Total(PilgrimCounts(s)) = SumOf(pilgrims, Listed(s))
        /\ Total(PilgrimCounts(t)) = SumOf(pilgrims, Listed(t))
    BY <1>3, <1>5, TotalOfListed
  <1>8. ByApplication(s) = ByApplication(t)
    BY SameListSortsTheSame
  <1>9. CanonicalizePool(draw, spots, s) = CanonicalizePool(draw, spots, t)
    BY <1>1, <1>8 DEF CanonicalizePool, Header
  <1> QED
    BY <1>6, <1>7, <1>9

\* The same text is that of the same entries, for as many spots.
LEMMA SameTextSameEntries ==
  ASSUME NEW s, NEW n, PoolList(s, n), NEW t, NEW m, PoolList(t, m), NEW draw, NEW spots, NEW places,
         CanonicalizePool(draw, spots, s) = CanonicalizePool(draw, places, t)
  PROVE  spots = places /\ Len(s) = Len(t) /\ Listed(s) = Listed(t)
  <1>1. Header(draw, spots, s) = Header(draw, places, t)
    BY DEF CanonicalizePool
  <1>2. spots = places /\ Len(s) = Len(t)
    BY <1>1 DEF Header
  <1>3. n = m /\ DOMAIN s = 1 .. n /\ DOMAIN t = 1 .. n
    BY <1>2, LengthOfList
  <1> DEFINE Text(l) == [k \in 1 .. n |-> LET e == ByApplication(l)[k]
                           IN <<e.application, e.entryType, e.primary, e.secondary, e.weight>>]
  <1>4. Text(s) = Text(t)
    BY <1>3 DEF CanonicalizePool
  <1>5. ASSUME NEW k \in 1 .. n PROVE ByApplication(s)[k] = ByApplication(t)[k]
    <2>1. Text(s)[k] = Text(t)[k]
      BY <1>4
    <2>2. PICK a, b : a = ByApplication(s)[k] /\ b = ByApplication(t)[k]
      OBVIOUS
    <2>3. <<a.application, a.entryType, a.primary, a.secondary, a.weight>> =
            <<b.application, b.entryType, b.primary, b.secondary, b.weight>>
      BY <2>1, <2>2
    <2>4. \A f \in EntryFields : a[f] = b[f]
      BY <2>3 DEF EntryFields
    <2>5. a \in Listed(s) /\ b \in Listed(t)
      BY <1>3, <2>2, SortedListsTheSame
    <2>6. a = [f \in EntryFields |-> a[f]] /\ b = [f \in EntryFields |-> b[f]]
      BY <1>3, <2>5 DEF Listed, PoolList, IsEntry
    <2>7. [f \in EntryFields |-> a[f]] = [f \in EntryFields |-> b[f]]
      BY <2>4
    <2>8. a = b
      BY <2>6, <2>7
    <2> QED
      BY <2>2, <2>8
  <1>6. /\ Listed(s) = {ByApplication(s)[k] : k \in 1 .. n}
        /\ Listed(t) = {ByApplication(t)[k] : k \in 1 .. n}
    BY <1>3, SortedListsTheSame
  <1>7. Listed(s) = Listed(t)
    BY <1>5, <1>6
  <1> QED
    BY <1>2, <1>7

\* What is a list: its places, an entry at each, no application twice.
LEMMA ListFromItsPlaces ==
  ASSUME NEW n \in Nat, NEW s, s = [i \in 1 .. n |-> s[i]], Keyed(s), \A i \in 1 .. n : IsEntry(s[i])
  PROVE  PoolList(s, n) /\ PoolList(s, Len(s))
  <1>1. \A i \in 1 .. n : s[i] \in Listed(s)
    <2>1. DOMAIN s = 1 .. n
      OBVIOUS
    <2> QED
      BY <2>1 DEF Listed
  <1>2. s \in [1 .. n -> Listed(s)]
    BY <1>1
  <1>3. PoolList(s, n)
    BY <1>2 DEF PoolList
  <1> QED
    BY <1>3, LengthOfList

\* What is kept of a frozen pool, and what can have become of it: a list keyed by application,
\* and the row of the freeze but for its spots.
SnapshotInv == frozen # <<>> =>
  /\ PoolList(frozen, Len(frozen))
  /\ PoolList(loaded, Len(loaded))
  /\ row = [PoolRow(CommuneDraw, 1, frozen) EXCEPT !.spots = row.spots]

\* A frozen pool is a list.
LEMMA FreezeGivesALists ==
  ASSUME NEW p \in Pools PROVE PoolList(p, Len(p))
  <1>1. PICK n \in 1 .. MaxEntries : p \in [1 .. n -> PoolEntries]
    BY DEF Pools
  <1>2. n \in Nat
    BY SnapshotAssumption
  <1>3. Keyed(p) /\ p = [i \in 1 .. n |-> p[i]] /\ \A i \in 1 .. n : IsEntry(p[i])
    BY <1>1, SnapshotAssumption DEF Pools
  <1> QED
    BY <1>2, <1>3, ListFromItsPlaces

\* An entry stays one when its weight is another.
LEMMA EntryOfAnotherWeight ==
  ASSUME NEW e, IsEntry(e), NEW w \in Nat
  PROVE  IsEntry([e EXCEPT !.weight = w])
  <1>1. e = [f \in EntryFields |-> e[f]] /\ e.application \in Nat
    BY DEF IsEntry
  <1>2. DOMAIN e = EntryFields
    BY <1>1
  <1> DEFINE d == [e EXCEPT !.weight = w]
  <1>3. d = [f \in EntryFields |-> IF f = "weight" THEN w ELSE e[f]]
    BY <1>2
  <1>4. d.weight = w /\ d.application = e.application /\ d = [f \in EntryFields |-> d[f]]
    BY <1>2, <1>3 DEF EntryFields
  <1> QED
    BY <1>1, <1>4 DEF IsEntry

\* Whatever is done to the rows at the database, they stay a list, the row what it was but for its spots.
LEMMA SnapshotStep ==
  SnapshotInv /\ [SnapshotNext]_snapshotVars => SnapshotInv'
  <1> SUFFICES ASSUME SnapshotInv, [SnapshotNext]_snapshotVars PROVE SnapshotInv'
    OBVIOUS
  <1>1. ASSUME NEW entries, Rewrite(entries), frozen # <<>>, NEW n \in Nat,
               entries = [i \in 1 .. n |-> entries[i]], \A i \in 1 .. n : IsEntry(entries[i])
        PROVE  SnapshotInv'
    <2>1. loaded' = entries /\ Keyed(entries) /\ frozen' = frozen /\ row' = row
      BY <1>1 DEF Rewrite
    <2>2. PoolList(entries, Len(entries))
      BY <1>1, <2>1, ListFromItsPlaces
    <2> QED
      BY <1>1, <2>1, <2>2 DEF SnapshotInv
  <1>2. ASSUME NEW p \in Pools, Freeze(p) PROVE SnapshotInv'
    <2>1. frozen' = p /\ loaded' = p /\ row' = PoolRow(CommuneDraw, 1, p)
      BY <1>2 DEF Freeze
    <2>2. PoolList(p, Len(p))
      BY FreezeGivesALists
    <2>3. row' = [PoolRow(CommuneDraw, 1, p) EXCEPT !.spots = row'.spots]
      BY <2>1 DEF PoolRow
    <2> QED
      BY <2>1, <2>2, <2>3 DEF SnapshotInv
  <1>3. ASSUME frozen # <<>>
        PROVE  /\ Len(loaded) \in Nat /\ DOMAIN loaded = 1 .. Len(loaded)
               /\ loaded = [k \in 1 .. Len(loaded) |-> loaded[k]]
               /\ \A k \in 1 .. Len(loaded) : IsEntry(loaded[k])
    <2>1. PoolList(loaded, Len(loaded))
      BY <1>3 DEF SnapshotInv
    <2> QED
      BY <2>1 DEF PoolList
  <1>4. ASSUME frozen # <<>>, NEW i \in DOMAIN loaded, NEW e \in PoolEntries, ChangeEntry(i, e)
        PROVE  SnapshotInv'
    <2> DEFINE entries == [loaded EXCEPT ![i] = e]
    <2>1. IsEntry(e)
      BY SnapshotAssumption
    <2>2. entries = [k \in 1 .. Len(loaded) |-> entries[k]]
      BY <1>3, <1>4
    <2>3. \A k \in 1 .. Len(loaded) : IsEntry(entries[k])
      BY <1>3, <1>4, <2>1
    <2>4. Rewrite(entries)
      BY <1>4 DEF ChangeEntry
    <2> HIDE DEF entries
    <2> QED
      BY <1>1, <1>3, <1>4, <2>2, <2>3, <2>4
  <1>5. ASSUME frozen # <<>>, NEW i \in DOMAIN loaded, NEW j \in DOMAIN loaded, ExchangeWeights(i, j)
        PROVE  SnapshotInv'
    <2> DEFINE d == [loaded[i] EXCEPT !.weight = loaded[j].weight]
               part == [loaded EXCEPT ![i] = d]
               e == [part[j] EXCEPT !.weight = loaded[i].weight]
               entries == [part EXCEPT ![j] = e]
    <2>1. loaded[i].weight \in Nat /\ loaded[j].weight \in Nat /\ IsEntry(loaded[i]) /\ IsEntry(loaded[j])
      BY <1>3, <1>5 DEF IsEntry
    <2>2. IsEntry(d)
      BY <2>1, EntryOfAnotherWeight
    <2>3. part[j] = IF j = i THEN d ELSE loaded[j]
      BY <1>3, <1>5
    <2>4. IsEntry(e)
      <3>1. IsEntry(part[j])
        BY <2>1, <2>2, <2>3
      <3> HIDE DEF part
      <3> QED
        BY <2>1, <3>1, EntryOfAnotherWeight
    <2>5. Rewrite(entries)
      BY <1>5 DEF ExchangeWeights
    <2> HIDE DEF d, e
    <2>6. entries = [k \in 1 .. Len(loaded) |-> entries[k]]
      BY <1>3, <1>5
    <2>7. \A k \in 1 .. Len(loaded) : IsEntry(entries[k])
      BY <1>3, <1>5, <2>2, <2>4
    <2> HIDE DEF entries
    <2> QED
      BY <1>1, <1>3, <1>5, <2>5, <2>6, <2>7
  <1>6. ASSUME frozen # <<>>, NEW i \in DOMAIN loaded, NEW j \in DOMAIN loaded, ReadInAnotherOrder(i, j)
        PROVE  SnapshotInv'
    <2> DEFINE entries == [loaded EXCEPT ![i] = loaded[j], ![j] = loaded[i]]
    <2>1. entries = [k \in 1 .. Len(loaded) |-> entries[k]]
      BY <1>3, <1>6
    <2>2. \A k \in 1 .. Len(loaded) : IsEntry(entries[k])
      BY <1>3, <1>6
    <2>3. Rewrite(entries)
      BY <1>6 DEF ReadInAnotherOrder
    <2> HIDE DEF entries
    <2> QED
      BY <1>1, <1>3, <1>6, <2>1, <2>2, <2>3
  <1>7. ASSUME frozen # <<>>, LoseEntry PROVE SnapshotInv'
    <2> DEFINE n == Len(loaded) - 1
    <2>1. Rewrite(Tail(loaded)) /\ loaded # <<>>
      BY <1>7 DEF LoseEntry
    <2>2. PICK X : X = Listed(loaded)
      OBVIOUS
    <2>3. loaded \in Seq(X)
      <3>1. Len(loaded) \in Nat /\ loaded \in [1 .. Len(loaded) -> X]
        BY <1>7, <2>2 DEF SnapshotInv, PoolList
      <3> QED
        BY <3>1
    <2>4. Len(loaded) \in Nat /\ Len(loaded) # 0
      BY <2>1, <2>3, EmptySeq
    <2>5. /\ Tail(loaded) \in Seq(X) /\ Len(Tail(loaded)) = n
          /\ \A k \in 1 .. n : Tail(loaded)[k] = loaded[k + 1]
      BY <2>1, <2>3, HeadTailProperties
    <2>6. n \in Nat /\ Tail(loaded) = [k \in 1 .. n |-> Tail(loaded)[k]]
      BY <2>4, <2>5, LenProperties
    <2> HIDE DEF n
    <2>7. \A k \in 1 .. n : IsEntry(Tail(loaded)[k])
      BY <1>3, <1>7, <2>4, <2>5 DEF n
    <2> QED
      BY <1>1, <1>7, <2>1, <2>6, <2>7
  <1>8. ASSUME frozen # <<>>, NEW n \in {1, 2}, ChangeSpots(n) PROVE SnapshotInv'
    <2>1. row' = [row EXCEPT !.spots = n] /\ frozen' = frozen /\ loaded' = loaded
      BY <1>8 DEF ChangeSpots
    <2>2. row = [PoolRow(CommuneDraw, 1, frozen) EXCEPT !.spots = row.spots]
      BY <1>8 DEF SnapshotInv
    <2>3. row' = [PoolRow(CommuneDraw, 1, frozen) EXCEPT !.spots = row'.spots]
      BY <2>1, <2>2 DEF PoolRow
    <2> QED
      BY <1>8, <2>1, <2>3 DEF SnapshotInv
  <1>9. ASSUME UNCHANGED snapshotVars PROVE SnapshotInv'
    BY <1>9 DEF SnapshotInv, snapshotVars
  <1> QED
    BY <1>2, <1>4, <1>5, <1>6, <1>7, <1>8, <1>9 DEF SnapshotNext

\* A draw runs on the pool that was frozen or not at all: two weights exchanged, an entry lost
\* or changed, other spots, none is missed by the check of lottery.service.ts, and no order
\* in which the rows are read makes it refuse a sound pool; for every pool and every weight.
THEOREM TheFrozenPoolIsDrawn == SnapshotSpec => []TamperingIsNoticed
  <1>1. SnapshotInit => SnapshotInv
    BY DEF SnapshotInit, SnapshotInv
  <1>2. SnapshotInv => TamperingIsNoticed
    <2> SUFFICES ASSUME SnapshotInv, frozen # <<>>
                 PROVE  /\ SnapshotIntact(CommuneDraw, row, loaded) => SameEntries /\ row.spots = 1
                        /\ SameEntries /\ row.spots = 1 => SnapshotIntact(CommuneDraw, row, loaded)
      BY DEF TamperingIsNoticed
    <2>1. PoolList(frozen, Len(frozen)) /\ PoolList(loaded, Len(loaded))
      BY DEF SnapshotInv
    <2>2. /\ row.entryCount = Len(frozen) /\ row.version = SNAPSHOT_VERSION
          /\ row.pilgrimCount = Total(PilgrimCounts(frozen))
          /\ row.totalWeight = Total(Weights(frozen))
          /\ row.snapshotHash = CanonicalizePool(CommuneDraw, 1, frozen)
      <3>1. row = [PoolRow(CommuneDraw, 1, frozen) EXCEPT !.spots = row.spots]
        BY DEF SnapshotInv
      <3> QED
        BY <3>1 DEF PoolRow
    <2>3. ASSUME SnapshotIntact(CommuneDraw, row, loaded) PROVE SameEntries /\ row.spots = 1
      <3>1. CanonicalizePool(CommuneDraw, row.spots, loaded) = CanonicalizePool(CommuneDraw, 1, frozen)
        BY <2>2, <2>3 DEF SnapshotIntact
      <3>2. row.spots = 1 /\ Len(loaded) = Len(frozen) /\ Listed(loaded) = Listed(frozen)
        BY <2>1, <3>1, SameTextSameEntries
      <3> QED
        BY <3>2 DEF SameEntries
    <2>4. ASSUME SameEntries, row.spots = 1 PROVE SnapshotIntact(CommuneDraw, row, loaded)
      <3>1. Len(loaded) = Len(frozen) /\ Listed(loaded) = Listed(frozen)
        BY <2>4 DEF SameEntries
      <3>2. /\ Total(Weights(loaded)) = Total(Weights(frozen))
            /\ Total(PilgrimCounts(loaded)) = Total(PilgrimCounts(frozen))
            /\ CanonicalizePool(CommuneDraw, 1, loaded) = CanonicalizePool(CommuneDraw, 1, frozen)
        BY <2>1, <3>1, SameEntriesSameText
      <3> QED
        BY <2>2, <2>4, <3>1, <3>2 DEF SnapshotIntact
    <2> QED
      BY <2>3, <2>4
  <1> QED
    BY <1>1, <1>2, SnapshotStep, PTL DEF SnapshotSpec

==============================================================================
