---------------------------- MODULE PoolFreezeProofs ----------------------------
(***************************************************************************)
(* Proofs about PoolFreeze, first of its weights: for any history, people   *)
(* and number of freezes at a time: a weight is the count of the unbroken  *)
(* years before the draw, and a pool is frozen whole and for good.         *)
(***************************************************************************)
EXTENDS PoolFreeze, Induction, SequenceTheorems, TLAPS

------------------------------------------------------------------------------
(* Weights.                                                                 *)

\* A year that a streak may count.
CountsIn(past, year) == StopReasonFor(Recorded(past, year)) = None

\* The years up to this one after which every year counts.
Unbroken(past, year) ==
  {y \in EARLIEST_DRAW_YEAR .. year : \A z \in y .. year : CountsIn(past, z)}

\* What counts is a year on record, verified, of somebody who took part and did not win.
LEMMA WhatCounts == \A past, year :
  CountsIn(past, year) <=>
    /\ Recorded(past, year) # None
    /\ Recorded(past, year).verified
    /\ Recorded(past, year).participated
    /\ ~ Recorded(past, year).won
  BY ReasonAssumption DEF CountsIn, StopReasonFor

\* One more year that counts adds itself to the unbroken years, one that does not ends them.
LEMMA UnbrokenYears ==
  ASSUME NEW past, NEW year \in Int
  PROVE  /\ IsFiniteSet(Unbroken(past, year)) /\ Cardinality(Unbroken(past, year)) \in Nat
         /\ year < EARLIEST_DRAW_YEAR \/ ~ CountsIn(past, year) =>
              Cardinality(Unbroken(past, year)) = 0
         /\ year >= EARLIEST_DRAW_YEAR /\ CountsIn(past, year) =>
              Cardinality(Unbroken(past, year)) = 1 + Cardinality(Unbroken(past, year - 1))
         /\ year >= EARLIEST_DRAW_YEAR - 1 =>
              Cardinality(Unbroken(past, year)) <= year - EARLIEST_DRAW_YEAR + 1
  <1>1. \A n \in Int : /\ IsFiniteSet(Unbroken(past, n))
                       /\ Cardinality(Unbroken(past, n)) \in Nat
                       /\ Cardinality(Unbroken(past, n)) <=
                            IF EARLIEST_DRAW_YEAR > n THEN 0 ELSE n - EARLIEST_DRAW_YEAR + 1
    <2> TAKE n \in Int
    <2>1. PICK S, I : S = Unbroken(past, n) /\ I = EARLIEST_DRAW_YEAR .. n
      OBVIOUS
    <2>2. IsFiniteSet(I) /\ Cardinality(I) = IF EARLIEST_DRAW_YEAR > n THEN 0 ELSE n - EARLIEST_DRAW_YEAR + 1
      BY <2>1, FS_Interval DEF EARLIEST_DRAW_YEAR
    <2>3. S \subseteq I
      BY <2>1 DEF Unbroken
    <2>4. IsFiniteSet(S) /\ Cardinality(S) <= Cardinality(I) /\ Cardinality(S) \in Nat
      BY <2>2, <2>3, FS_Subset, FS_CardinalityType
    <2> QED
      BY <2>1, <2>2, <2>4
  <1>2. ASSUME year < EARLIEST_DRAW_YEAR \/ ~ CountsIn(past, year)
        PROVE  Cardinality(Unbroken(past, year)) = 0
    <2>1. Unbroken(past, year) = {}
      BY <1>2 DEF Unbroken, EARLIEST_DRAW_YEAR
    <2> QED
      BY <2>1, FS_EmptySet
  <1>3. ASSUME year >= EARLIEST_DRAW_YEAR, CountsIn(past, year)
        PROVE  Cardinality(Unbroken(past, year)) = 1 + Cardinality(Unbroken(past, year - 1))
    <2>1. \A y : y \in Unbroken(past, year) <=> y \in Unbroken(past, year - 1) \cup {year}
      <3> TAKE y
      <3>1. CASE y = year
        BY <1>3, <3>1 DEF Unbroken, EARLIEST_DRAW_YEAR
      <3>2. CASE y # year /\ y \in EARLIEST_DRAW_YEAR .. year
        <4>1. \A z : z \in y .. year <=> z \in y .. year - 1 \/ z = year
          BY <3>2 DEF EARLIEST_DRAW_YEAR
        <4>2. y \in EARLIEST_DRAW_YEAR .. year - 1
          BY <3>2 DEF EARLIEST_DRAW_YEAR
        <4> QED
          BY <1>3, <3>2, <4>1, <4>2 DEF Unbroken
      <3>3. CASE y # year /\ y \notin EARLIEST_DRAW_YEAR .. year
        BY <3>3 DEF Unbroken, EARLIEST_DRAW_YEAR
      <3> QED
        BY <3>1, <3>2, <3>3
    <2>2. PICK S, T : S = Unbroken(past, year) /\ T = Unbroken(past, year - 1)
      OBVIOUS
    <2>3. S = T \cup {year} /\ year \notin T /\ IsFiniteSet(T) /\ Cardinality(T) \in Nat
      BY <1>1, <2>1, <2>2 DEF Unbroken
    <2>4. Cardinality(S) = Cardinality(T) + 1
      BY <2>3, FS_AddElement
    <2> QED
      BY <2>2, <2>3, <2>4
  <1> QED
    BY <1>1, <1>2, <1>3 DEF EARLIEST_DRAW_YEAR

\* The recursion of calculateStreak, on the years from the one before the first.
Walk(g, target, past) ==
  g = [year \in EARLIEST_DRAW_YEAR - 1 .. target - 1 |->
        IF year < EARLIEST_DRAW_YEAR \/ StopReasonFor(Recorded(past, year)) # None
        THEN 0 ELSE 1 + g[year - 1]]

\* calculateStreak: the years before the draw up to the first, walked backwards, that does not
\* count.  Nothing bridges a gap, an unproven claim or a win.
THEOREM StreakCounts ==
  ASSUME NEW past, NEW target \in Int, target >= EARLIEST_DRAW_YEAR
  PROVE  CalculateStreak(target, past) = Cardinality(Unbroken(past, target - 1))
  <1> DEFINE F == EARLIEST_DRAW_YEAR
             counted == [year \in F - 1 .. target - 1 |-> Cardinality(Unbroken(past, year))]
             count == CHOOSE g : Walk(g, target, past)
  <1>1. F \in Int
    BY DEF EARLIEST_DRAW_YEAR
  <1>2. Walk(counted, target, past)
    <2>1. \A year \in F - 1 .. target - 1 :
            counted[year] = IF year < F \/ StopReasonFor(Recorded(past, year)) # None
                            THEN 0 ELSE 1 + counted[year - 1]
      <3> TAKE year \in F - 1 .. target - 1
      <3>1. CASE year < F \/ StopReasonFor(Recorded(past, year)) # None
        BY <1>1, <3>1, UnbrokenYears DEF CountsIn
      <3>2. CASE ~ (year < F) /\ StopReasonFor(Recorded(past, year)) = None
        <4>1. year - 1 \in F - 1 .. target - 1 /\ year \in Int /\ year >= F
          BY <1>1, <3>2
        <4>2. Cardinality(Unbroken(past, year)) = 1 + Cardinality(Unbroken(past, year - 1))
          BY <3>2, <4>1, UnbrokenYears DEF CountsIn
        <4> QED
          BY <3>2, <4>1, <4>2
      <3> QED
        BY <3>1, <3>2
    <2> HIDE DEF counted
    <2>2. counted = [year \in F - 1 .. target - 1 |-> counted[year]]
      BY DEF counted
    <2> QED
      BY <2>1, <2>2 DEF Walk
  <1>3. Walk(count, target, past)
    BY <1>2
  <1>4. CalculateStreak(target, past) = count[target - 1]
    BY DEF CalculateStreak, Walk
  <1>5. \A year \in F - 1 .. target - 1 : count[year] = Cardinality(Unbroken(past, year))
    <2> DEFINE P == {n \in Nat : F - 1 + n \in F - 1 .. target - 1 =>
                       count[F - 1 + n] = Cardinality(Unbroken(past, F - 1 + n))}
    <2> HIDE DEF count
    <2>1. \A year \in F - 1 .. target - 1 :
            count[year] = IF year < F \/ ~ CountsIn(past, year) THEN 0 ELSE 1 + count[year - 1]
      BY <1>3 DEF Walk, CountsIn
    <2>2. 0 \in P
      <3>1. F - 1 \in F - 1 .. target - 1 /\ F - 1 < F /\ F - 1 \in Int /\ F - 1 + 0 = F - 1
        BY <1>1
      <3> QED
        BY <2>1, <3>1, UnbrokenYears
    <2>3. ASSUME NEW n \in P PROVE n + 1 \in P
      <3>1. PICK year : year = F - 1 + (n + 1)
        OBVIOUS
      <3>2. year \in Int /\ year >= F /\ year - 1 = F - 1 + n
        BY <1>1, <3>1
      <3>3. ASSUME year \in F - 1 .. target - 1
            PROVE  count[year] = Cardinality(Unbroken(past, year))
        <4>1. year - 1 \in F - 1 .. target - 1
          BY <1>1, <3>2, <3>3
        <4>2. count[year - 1] = Cardinality(Unbroken(past, year - 1))
          BY <3>2, <4>1
        <4>3. CASE CountsIn(past, year)
          <5>1. Cardinality(Unbroken(past, year)) = 1 + Cardinality(Unbroken(past, year - 1))
            BY <3>2, <4>3, UnbrokenYears
          <5>2. count[year] = 1 + count[year - 1]
            BY <1>1, <2>1, <3>2, <3>3, <4>3
          <5> QED
            BY <4>2, <5>1, <5>2
        <4>4. CASE ~ CountsIn(past, year)
          BY <2>1, <3>2, <3>3, <4>4, UnbrokenYears
        <4> QED
          BY <4>3, <4>4
      <3> QED
        BY <3>1, <3>3
    <2>4. P = Nat
      <3> HIDE DEF P
      <3>1. P \in SUBSET Nat
        BY DEF P
      <3> QED
        BY <2>2, <2>3, <3>1, InductionOnNat
    <2> QED
      <3> TAKE year \in F - 1 .. target - 1
      <3>1. year - (F - 1) \in Nat /\ F - 1 + (year - (F - 1)) = year
        BY <1>1
      <3>2. year - (F - 1) \in P
        BY <2>4, <3>1
      <3> QED
        BY <3>1, <3>2
  <1>6. target - 1 \in F - 1 .. target - 1
    BY <1>1
  <1> HIDE DEF count
  <1> QED
    BY <1>4, <1>5, <1>6

\* What a person weighs is a positive number, and no more than the years of the lottery.
LEMMA ParticipantWeighs ==
  ASSUME NEW past, NEW target \in Int, target >= EARLIEST_DRAW_YEAR
  PROVE  ParticipantWeight(target, past) \in 1 .. target - EARLIEST_DRAW_YEAR + 1
  <1>1. PICK n : n = CalculateStreak(target, past)
    OBVIOUS
  <1>2. n \in Nat /\ n <= target - EARLIEST_DRAW_YEAR
    BY <1>1, StreakCounts, UnbrokenYears DEF EARLIEST_DRAW_YEAR
  <1> QED
    BY <1>1, <1>2 DEF ParticipantWeight, IndividualWeight, BASE_APPLICATION_WEIGHT, EARLIEST_DRAW_YEAR

\* A pair weighs what one of its people does, and neither more.
LEMMA HeavierOfThem ==
  ASSUME NEW n \in Int, NEW weights \in SUBSET (1 .. n), weights # {}
  PROVE  CombineWeights(weights) \in weights /\ \A v \in weights : v <= CombineWeights(weights)
  <1> DEFINE T == {n - w : w \in weights}
  <1>1. T \in SUBSET Nat /\ T # {}
    OBVIOUS
  <1>2. PICK x \in T : \A y \in T : x <= y
    BY <1>1, LeastNumber
  <1>3. PICK w \in weights : x = n - w
    BY <1>2
  <1>4. \A v \in weights : v <= w
    BY <1>2, <1>3
  <1> QED
    BY <1>4 DEF CombineWeights

\* What an application weighs is a weight.
LEMMA ApplicationWeighs == \A a \in Applications : CurrentWeight(a) \in Weights
  <1> TAKE a \in Applications
  <1> DEFINE ws == {ParticipantWeight(Year, history[p]) : p \in Occupants[a]}
  <1>1. ws \in SUBSET Weights /\ ws # {}
    BY FreezeAssumption, ParticipantWeighs DEF Weights
  <1>2. Year - EARLIEST_DRAW_YEAR + 1 \in Int
    BY FreezeAssumption DEF EARLIEST_DRAW_YEAR
  <1> HIDE DEF ws
  <1>3. CombineWeights(ws) \in ws
    BY <1>1, <1>2, HeavierOfThem DEF Weights
  <1> QED
    BY <1>1, <1>3 DEF CurrentWeight, ws

------------------------------------------------------------------------------
(* The freeze.                                                              *)

Working == {"load", "find", "collect", "evaluate", "weigh", "conclude", "calculate", "store", "commit"}

\* Blockers, what was found, what is left and who wrote what need no type here.
Fields == DOMAIN Validating(1, {})

\* The entry of an application at the weight that was read of it.
Read(a, req) == [application |-> a, weight |-> req.read[a]]

Entered(a, req) == req.read[a] # None /\ Read(a, req) \in req.entries

Pending(a, req) == \E i \in DOMAIN req.left : req.left[i] = a

\* A request holds weights as they are stored, but for the one it is about to store; and whatever
\* a dry run without blockers has left behind is entered.
Sound(req, stored) ==
  /\ DOMAIN req = Fields /\ req.at \in Working
  /\ req.read \in [Applications -> {None} \cup Weights]
  /\ req.at \notin {"calculate", "store"} =>
       /\ \A a \in Applications : req.read[a] # None => stored[a] = req.read[a]
       /\ \A e \in req.entries : \E a \in Applications : req.read[a] # None /\ e = Read(a, req)
  /\ req.at \in {"load", "find", "collect"} => req.entries = {}
  /\ req.at \in {"evaluate", "weigh"} =>
       /\ req.left \in Seq(Applications) /\ req.left # <<>>
       /\ \A a \in Applications : Pending(a, req) \/ (req.blockers = {} => Entered(a, req))
  /\ req.at = "weigh" => req.read[Head(req.left)] # None
  /\ req.at = "commit" \/ (req.at = "conclude" /\ req.blockers = {}) =>
       \A a \in Applications : Entered(a, req)

AtRest(req) == req = Idle \/ (DOMAIN req = {"at", "answer"} /\ req.at = "answered")

TypeInv ==
  /\ weight \in [Applications -> {None} \cup Weights]
  /\ hasWon \subseteq People
  /\ drawYear \in {"REGISTRATION_OPEN", "REGISTRATION_CLOSED"}
  /\ communeDraw \in {"DRAFT", "READY", "LOCKED", "CANCELLED"}
  /\ patch \in [Officials -> {None, "DRAFT", "READY", "CANCELLED"}]
  /\ crashes \in 0 .. MaxCrashes /\ reopenings \in 0 .. MaxReopenings
  /\ DOMAIN request = Freezers

RequestsSound == \A r \in Freezers : AtRest(request[r]) \/ Sound(request[r], weight)

\* A pool that is there has the weight of everybody, so that none is left to be stored; the
\* status tells of it in one direction only.
PoolStands ==
  /\ communeDraw = "LOCKED" => pool # None
  /\ pool # None =>
       /\ pool = {[application |-> a, weight |-> weight[a]] : a \in Applications}
       /\ \A a \in Applications : weight[a] # None

IInv == TypeInv /\ RequestsSound /\ PoolStands

\* Weights are only added.
Adds(stored, stored2) == \A a \in Applications : stored[a] # None => stored2[a] = stored[a]

\* What holds of a request goes on to hold as others store weights.
LEMMA SoundLater ==
  ASSUME NEW req, NEW stored, NEW stored2, Sound(req, stored), Adds(stored, stored2)
  PROVE  Sound(req, stored2)
  <1>1. req.at \notin {"calculate", "store"} =>
          \A a \in Applications : req.read[a] # None => stored2[a] = req.read[a]
    BY DEF Sound, Adds
  <1> QED
    BY <1>1 DEF Sound

\* A dry run begins with nothing read.
LEMMA FreshIsSound == \A pass, wrote, stored : Sound(Validating(pass, wrote), stored)
  <1> TAKE pass, wrote, stored
  <1>1. PICK req : req = Validating(pass, wrote)
    OBVIOUS
  <1>2. /\ DOMAIN req = Fields /\ req.at = "load" /\ req.entries = {}
        /\ req.read = [a \in Applications |-> None]
    BY <1>1 DEF Validating, Fields
  <1> QED
    BY <1>1, <1>2 DEF Sound, Working

\* A step of one request that stores nothing.
LEMMA OneRequest ==
  ASSUME IInv, NEW r \in Freezers, NEW req, request' = [request EXCEPT ![r] = req],
         AtRest(req) \/ Sound(req, weight), UNCHANGED <<ledger, weight, draw, bounds>>
  PROVE  IInv'
  <1>1. TypeInv'
    BY DEF IInv, TypeInv, ledger, draw, bounds
  <1>2. RequestsSound'
    <2> SUFFICES ASSUME NEW q \in Freezers
                 PROVE  AtRest(request'[q]) \/ Sound(request'[q], weight')
      BY DEF RequestsSound
    <2>1. request'[q] = IF q = r THEN req ELSE request[q]
      BY DEF IInv, TypeInv
    <2> QED
      BY <2>1 DEF IInv, RequestsSound
  <1>3. PoolStands'
    BY DEF IInv, PoolStands, draw
  <1> QED
    BY <1>1, <1>2, <1>3 DEF IInv

\* A request that is somewhere in its work is sound.
LEMMA AtWork ==
  ASSUME IInv, NEW r \in Freezers, request[r].at \in Working
  PROVE  Sound(request[r], weight)
  BY DEF IInv, RequestsSound, AtRest, Idle, Working

\* What is left once the first is gone.
LEMMA TheRest ==
  ASSUME NEW s \in Seq(Applications), s # <<>>
  PROVE  /\ Head(s) \in Applications /\ Len(s) \in Nat \ {0}
         /\ IF Len(s) = 1 THEN Tail(s) = <<>> ELSE Tail(s) \in Seq(Applications) /\ Tail(s) # <<>>
         /\ \A i \in DOMAIN s : i # 1 => i - 1 \in DOMAIN Tail(s) /\ Tail(s)[i - 1] = s[i]
  <1>1. /\ Head(s) \in Applications /\ Tail(s) \in Seq(Applications) /\ Len(Tail(s)) = Len(s) - 1
        /\ \A i \in 1 .. Len(Tail(s)) : Tail(s)[i] = s[i + 1]
    BY HeadTailProperties
  <1>2. Len(s) \in Nat \ {0} /\ Len(<<>>) = 0 /\ (Tail(s) # <<>> => Len(Tail(s)) \in Nat \ {0})
    BY <1>1, EmptySeq
  <1>3. DOMAIN s = 1 .. Len(s) /\ DOMAIN Tail(s) = 1 .. Len(Tail(s))
    BY <1>1
  <1>4. ASSUME NEW i \in DOMAIN s, i # 1
        PROVE  i - 1 \in DOMAIN Tail(s) /\ Tail(s)[i - 1] = s[i]
    <2>1. i - 1 \in 1 .. Len(Tail(s)) /\ i - 1 + 1 = i
      BY <1>1, <1>2, <1>3, <1>4
    <2> QED
      BY <1>1, <1>3, <2>1
  <1>5. Len(s) = 1 <=> Tail(s) = <<>>
    <2>1. PICK m, n : m = Len(s) /\ n = Len(Tail(s))
      OBVIOUS
    <2>2. m \in Nat \ {0} /\ n = m - 1 /\ (Tail(s) # <<>> => n \in Nat \ {0}) /\ (Tail(s) = <<>> => n = 0)
      BY <1>1, <1>2, <2>1
    <2> QED
      BY <2>1, <2>2
  <1> QED
    BY <1>1, <1>2, <1>4, <1>5

\* Going on to the next application keeps a dry run sound: this one has a blocker or an entry.
LEMMA ReconciledIsSound ==
  ASSUME NEW req, NEW stored, Sound(req, stored), req.at \in {"evaluate", "weigh"},
         NEW blockers, NEW entries,
         \/ blockers # {} /\ entries = {}
         \/ req.read[Head(req.left)] # None /\ entries = {Read(Head(req.left), req)}
  PROVE  Sound(Reconciled(req, blockers, entries), stored)
  <1>1. PICK new, a : new = Reconciled(req, blockers, entries) /\ a = Head(req.left)
    OBVIOUS
  <1>2. /\ req.left \in Seq(Applications) /\ req.left # <<>> /\ a \in Applications
        /\ \A b \in Applications : Pending(b, req) \/ (req.blockers = {} => Entered(b, req))
    BY <1>1 DEF Sound
  <1>3. /\ DOMAIN new = Fields /\ new.read = req.read
        /\ new.at = IF Len(req.left) = 1 THEN "conclude" ELSE "evaluate"
        /\ new.left = Tail(req.left)
        /\ new.blockers = req.blockers \cup blockers /\ new.entries = req.entries \cup entries
    BY <1>1 DEF Reconciled, Sound, Fields, Validating
  <1>4. \A b \in Applications : Read(b, new) = Read(b, req)
    BY <1>3 DEF Read
  <1>5. \A e \in new.entries : \E b \in Applications : new.read[b] # None /\ e = Read(b, new)
    BY <1>1, <1>2, <1>3, <1>4 DEF Sound
  <1>6. \A b \in Applications : Entered(b, req) => Entered(b, new)
    BY <1>3, <1>4 DEF Entered
  <1>7. new.blockers = {} => Entered(a, new)
    <2>1. CASE blockers # {}
      BY <1>3, <2>1
    <2>2. CASE req.read[a] # None /\ entries = {Read(a, req)}
      <3>1. Read(a, new) = Read(a, req) /\ Read(a, req) \in new.entries /\ new.read[a] # None
        BY <1>2, <1>3, <1>4, <2>2
      <3> QED
        BY <3>1 DEF Entered
    <2> QED
      BY <1>1, <2>1, <2>2
  <1>8. \A b \in Applications : Pending(b, req) => b = a \/ Pending(b, new)
    <2> SUFFICES ASSUME NEW b \in Applications, Pending(b, req), b # a
                 PROVE  Pending(b, new)
      OBVIOUS
    <2>1. PICK i \in DOMAIN req.left : req.left[i] = b
      BY DEF Pending
    <2>2. i # 1
      BY <1>1, <1>2, <2>1
    <2>3. i - 1 \in DOMAIN new.left /\ new.left[i - 1] = req.left[i]
      BY <1>2, <1>3, <2>1, <2>2, TheRest
    <2> QED
      BY <2>1, <2>3 DEF Pending
  <1>9. \A b \in Applications : Pending(b, new) \/ (new.blockers = {} => Entered(b, new))
    BY <1>2, <1>3, <1>6, <1>7, <1>8
  <1>11. CASE Len(req.left) = 1
    <2>1. new.left = <<>>
      BY <1>2, <1>3, <1>11, TheRest
    <2>2. \A b \in Applications : ~ Pending(b, new)
      BY <2>1 DEF Pending
    <2> QED
      BY <1>1, <1>3, <1>5, <1>9, <1>11, <2>2 DEF Sound, Working
  <1>12. CASE Len(req.left) # 1
    <2>1. new.left \in Seq(Applications) /\ new.left # <<>>
      BY <1>2, <1>3, <1>12, TheRest
    <2> QED
      BY <1>1, <1>3, <1>5, <1>9, <1>12, <2>1 DEF Sound, Working
  <1> QED
    BY <1>11, <1>12

\* The first reads of a dry run.
LEMMA ReadingKeeps ==
  ASSUME IInv, NEW r \in Freezers,
         Freeze(r) \/ LoadDraw(r) \/ FindPool(r) \/ CollectCandidates(r) \/ Crash(r)
  PROVE  IInv'
  <1>1. PICK req : req = request[r]
    OBVIOUS
  <1>2. CASE Freeze(r)
    BY <1>2, FreshIsSound, OneRequest DEF Freeze, Become
  <1>3. CASE Crash(r)
    <2>1. TypeInv'
      <3>1. PICK n : n = crashes /\ n \in Nat /\ n < MaxCrashes /\ crashes' = n + 1
        BY <1>3, FreezeAssumption DEF Crash, IInv, TypeInv
      <3>2. crashes' \in 0 .. MaxCrashes
        BY <3>1, FreezeAssumption
      <3> QED
        BY <1>3, <3>2 DEF Crash, Become, IInv, TypeInv, ledger, draw
    <2>2. RequestsSound'
      <3> SUFFICES ASSUME NEW q \in Freezers
                   PROVE  AtRest(request'[q]) \/ Sound(request'[q], weight')
        BY DEF RequestsSound
      <3>1. (request'[q] = IF q = r THEN Idle ELSE request[q]) /\ weight' = weight
        BY <1>3 DEF Crash, Become, IInv, TypeInv
      <3> QED
        BY <3>1 DEF IInv, RequestsSound, AtRest
    <2>3. PoolStands'
      BY <1>3 DEF Crash, IInv, PoolStands, draw
    <2> QED
      BY <2>1, <2>2, <2>3 DEF IInv
  <1>4. CASE LoadDraw(r) \/ FindPool(r) \/ CollectCandidates(r)
    <2>1. Sound(req, weight) /\ req.at \in {"load", "find", "collect"}
      BY <1>1, <1>4, AtWork DEF LoadDraw, FindPool, CollectCandidates, Working
    <2>2. CASE LoadDraw(r) \/ FindPool(r)
      <3>1. PICK new : /\ request' = [request EXCEPT ![r] = new]
                       /\ DOMAIN new = Fields /\ new.at \in {"find", "collect"}
                       /\ new.read = req.read /\ new.entries = req.entries /\ new.left = req.left
        <4>1. DOMAIN req = Fields
          BY <2>1 DEF Sound
        <4>2. CASE LoadDraw(r)
          <5>1. PICK new, found : /\ new = [req EXCEPT !.at = "find", !.blockers = found]
                                  /\ request' = [request EXCEPT ![r] = new]
            BY <1>1, <4>2 DEF LoadDraw, Become
          <5>2. DOMAIN new = Fields /\ new.read = req.read /\ new.entries = req.entries /\ new.left = req.left
            BY <4>1, <5>1 DEF Fields, Validating
          <5>3. new.at \in {"find", "collect"}
            BY <4>1, <5>1 DEF Fields, Validating
          <5> QED
            BY <5>1, <5>2, <5>3
        <4>3. CASE FindPool(r)
          <5>1. PICK new, more : /\ new = [req EXCEPT !.at = "collect", !.found = pool, !.blockers = @ \cup more]
                                 /\ request' = [request EXCEPT ![r] = new]
            BY <1>1, <4>3 DEF FindPool, Become
          <5>2. DOMAIN new = Fields /\ new.read = req.read /\ new.entries = req.entries /\ new.left = req.left
            BY <4>1, <5>1 DEF Fields, Validating
          <5>3. new.at \in {"find", "collect"}
            BY <4>1, <5>1 DEF Fields, Validating
          <5> QED
            BY <5>1, <5>2, <5>3
        <4> QED
          BY <2>2, <4>2, <4>3
      <3>2. \A a \in Applications : Read(a, new) = Read(a, req)
        BY <3>1 DEF Read
      <3>3. Sound(new, weight)
        BY <2>1, <3>1, <3>2 DEF Sound, Working
      <3> QED
        BY <2>2, <3>1, <3>3, OneRequest DEF LoadDraw, FindPool
    <2>3. CASE CollectCandidates(r)
      <3>1. PICK new, more : /\ request' = [request EXCEPT ![r] = new]
                             /\ new = [req EXCEPT !.at = IF Candidates = <<>> THEN "conclude" ELSE "evaluate",
                                         !.read = weight, !.left = Candidates,
                                         !.blockers = @ \cup more]
                             /\ Candidates = <<>> => more # {}
        BY <1>1, <2>3 DEF CollectCandidates, Become
      <3>2. /\ DOMAIN new = Fields
            /\ new.at = IF Candidates = <<>> THEN "conclude" ELSE "evaluate"
            /\ new.read = weight /\ new.left = Candidates /\ new.entries = {}
            /\ new.blockers = req.blockers \cup more
        BY <2>1, <3>1 DEF Sound, Fields, Validating
      <3>3. \A a \in Applications : Pending(a, new)
        BY <3>2 DEF Pending, Applications
      <3>4. \A e \in new.entries : \E a \in Applications : new.read[a] # None /\ e = Read(a, new)
        BY <3>2
      <3>5. weight \in [Applications -> {None} \cup Weights] /\ Candidates \in Seq(Applications)
        BY FreezeAssumption DEF IInv, TypeInv
      <3>6. ASSUME Candidates = <<>>  PROVE Sound(new, weight)
        <4>1. new.at = "conclude"
          BY <3>2, <3>6
        <4>2. new.blockers # {}
          BY <3>1, <3>2, <3>6
        <4> QED
          BY <3>2, <3>4, <3>5, <4>1, <4>2 DEF Sound, Working
      <3>7. ASSUME Candidates # <<>>  PROVE Sound(new, weight)
        <4>1. new.at = "evaluate"
          BY <3>2, <3>7
        <4> QED
          BY <3>2, <3>3, <3>4, <3>5, <3>7, <4>1 DEF Sound, Working
      <3>8. Sound(new, weight)
        BY <3>6, <3>7
      <3> QED
        BY <2>3, <3>1, <3>8, OneRequest DEF CollectCandidates
    <2> QED
      BY <1>4, <2>2, <2>3
  <1> QED
    BY <1>2, <1>3, <1>4

\* An answer is the end of a request.
LEMMA AnswerIsRest == \A answer : AtRest(Answered(answer))
  BY DEF AtRest, Answered

\* The applications of a dry run, one after the other.
LEMMA EvaluatingKeeps ==
  ASSUME IInv, NEW r \in Freezers, EvaluateCandidate(r) \/ WeighCandidate(r)
  PROVE  IInv'
  <1>1. PICK req, a : req = request[r] /\ a = Head(req.left)
    OBVIOUS
  <1>2. Sound(req, weight) /\ req.at \in {"evaluate", "weigh"}
    BY <1>1, AtWork DEF EvaluateCandidate, WeighCandidate, Working
  <1>3. UNCHANGED <<ledger, weight, draw, bounds>>
    BY DEF EvaluateCandidate, WeighCandidate
  <1>4. CASE EvaluateCandidate(r)
    <2>1. PICK missing : missing = IF req.read[a] = None THEN {"MISSING_WEIGHT"} ELSE {}
      OBVIOUS
    <2>2. CASE ~ Eligible(a)
      <3>1. request' = [request EXCEPT ![r] =
              Reconciled(req, missing \cup {"PARTICIPANT_STATE_CONFLICT"}, {})]
        BY <1>1, <1>4, <2>1, <2>2 DEF EvaluateCandidate, Become
      <3> QED
        BY <1>2, <1>3, <3>1, ReconciledIsSound, OneRequest
    <2>3. CASE Eligible(a) /\ req.read[a] = None
      <3>1. request' = [request EXCEPT ![r] = Reconciled(req, missing, {})] /\ missing # {}
        BY <1>1, <1>4, <2>1, <2>3 DEF EvaluateCandidate, Become
      <3> QED
        BY <1>2, <1>3, <3>1, ReconciledIsSound, OneRequest
    <2>4. CASE Eligible(a) /\ req.read[a] # None
      <3>1. PICK new : new = [req EXCEPT !.at = "weigh"] /\ request' = [request EXCEPT ![r] = new]
        BY <1>1, <1>4, <2>4 DEF EvaluateCandidate, Become
      <3>2. /\ DOMAIN new = Fields /\ new.at = "weigh" /\ req.at = "evaluate" /\ new.read = req.read
            /\ new.entries = req.entries /\ new.left = req.left /\ new.blockers = req.blockers
        BY <1>1, <1>2, <1>4, <3>1 DEF EvaluateCandidate, Sound, Fields, Validating
      <3>3. \A b \in Applications : /\ Read(b, new) = Read(b, req)
                                    /\ Entered(b, new) <=> Entered(b, req)
                                    /\ Pending(b, new) <=> Pending(b, req)
        BY <3>2 DEF Read, Entered, Pending
      <3>4. Sound(new, weight)
        BY <1>1, <1>2, <2>4, <3>2, <3>3 DEF Sound, Working
      <3> QED
        BY <1>3, <3>1, <3>4, OneRequest
    <2> QED
      BY <2>2, <2>3, <2>4
  <1>5. CASE WeighCandidate(r)
    <2>1. req.read[a] # None
      BY <1>1, <1>2, <1>5 DEF WeighCandidate, Sound
    <2>2. \/ request' = [request EXCEPT ![r] = Answered("APPLICATION_INELIGIBLE")]
          \/ request' = [request EXCEPT ![r] = Reconciled(req, {"STALE_WEIGHT"}, {})]
          \/ request' = [request EXCEPT ![r] = Reconciled(req, {}, {Read(a, req)})]
      BY <1>1, <1>5 DEF WeighCandidate, Become, Read
    <2> QED
      BY <1>1, <1>2, <1>3, <2>1, <2>2, ReconciledIsSound, AnswerIsRest, OneRequest
  <1> QED
    BY <1>4, <1>5

\* What becomes of a dry run.
LEMMA ConcludingKeeps ==
  ASSUME IInv, NEW r \in Freezers, Conclude(r)
  PROVE  IInv'
  <1>1. PICK req : req = request[r]
    OBVIOUS
  <1>2. Sound(req, weight) /\ req.at = "conclude"
    BY <1>1, AtWork DEF Conclude, Working
  <1>3. UNCHANGED <<ledger, weight, draw, bounds>>
    BY DEF Conclude
  <1>4. PICK left : left = Missing
    OBVIOUS
  <1>5. PICK resolves : resolves = IsResolvableByFreezing(req.blockers)
    OBVIOUS
  <1>6. req.blockers = {} => ~ resolves
    BY <1>5 DEF IsResolvableByFreezing
  <1>7. \/ \E answer : request' = [request EXCEPT ![r] = Answered(answer)]
        \/ request' = [request EXCEPT ![r] = Validating(2, {})]
        \/ request' = [request EXCEPT ![r] = [req EXCEPT !.at = "calculate", !.left = left]]
        \/ req.blockers = {} /\ request' = [request EXCEPT ![r] = [req EXCEPT !.at = "commit"]]
    BY <1>1, <1>4, <1>5, <1>6 DEF Conclude, Become
  <1>8. ASSUME NEW answer, request' = [request EXCEPT ![r] = Answered(answer)]
        PROVE  IInv'
    BY <1>3, <1>8, AnswerIsRest, OneRequest
  <1>9. CASE request' = [request EXCEPT ![r] = Validating(2, {})]
    BY <1>3, <1>9, FreshIsSound, OneRequest
  <1>10. CASE request' = [request EXCEPT ![r] = [req EXCEPT !.at = "calculate", !.left = left]]
    <2>1. PICK new : new = [req EXCEPT !.at = "calculate", !.left = left]
      OBVIOUS
    <2>2. DOMAIN new = Fields /\ new.at = "calculate" /\ new.read = req.read
      BY <1>2, <2>1 DEF Sound, Fields, Validating
    <2>3. Sound(new, weight)
      BY <1>2, <2>2 DEF Sound, Working
    <2> QED
      BY <1>3, <1>10, <2>1, <2>3, OneRequest
  <1>11. CASE req.blockers = {} /\ request' = [request EXCEPT ![r] = [req EXCEPT !.at = "commit"]]
    <2>1. PICK new : new = [req EXCEPT !.at = "commit"]
      OBVIOUS
    <2>2. DOMAIN new = Fields /\ new.at = "commit" /\ new.read = req.read /\ new.entries = req.entries
      BY <1>2, <2>1 DEF Sound, Fields, Validating
    <2>3. \A a \in Applications : Read(a, new) = Read(a, req) /\ (Entered(a, new) <=> Entered(a, req))
      BY <2>2 DEF Read, Entered
    <2>4. Sound(new, weight)
      BY <1>2, <1>11, <2>2, <2>3 DEF Sound, Working
    <2> QED
      BY <1>3, <1>11, <2>1, <2>4, OneRequest
  <1> QED
    BY <1>7, <1>8, <1>9, <1>10, <1>11

\* Where a request goes once a missing weight is dealt with.
LEMMA NextIsSound ==
  ASSUME NEW req, NEW stored, NEW stored2, Sound(req, stored), NEW wrote
  PROVE  Sound(NextMissing(req, wrote), stored2)
  <1>1. PICK new, left : new = NextMissing(req, wrote) /\ left = Tail(req.left)
    OBVIOUS
  <1>2. CASE Len(req.left) = 1
    BY <1>2, FreshIsSound DEF NextMissing
  <1>3. CASE Len(req.left) # 1
    <2>1. new = [req EXCEPT !.at = "calculate", !.left = left, !.wrote = wrote]
      BY <1>1, <1>3 DEF NextMissing
    <2>2. DOMAIN new = Fields /\ new.at = "calculate" /\ new.read = req.read
      BY <2>1 DEF Sound, Fields, Validating
    <2> QED
      BY <1>1, <2>2 DEF Sound, Working
  <1> QED
    BY <1>2, <1>3

\* A missing weight is calculated.
LEMMA CalculatingKeeps ==
  ASSUME IInv, NEW r \in Freezers, CalculateMissing(r)
  PROVE  IInv'
  <1>1. PICK req, a, w : req = request[r] /\ a = Head(req.left) /\ w = CurrentWeight(a)
    OBVIOUS
  <1>2. Sound(req, weight)
    BY <1>1, AtWork DEF CalculateMissing, Working
  <1>3. UNCHANGED <<ledger, weight, draw, bounds>>
    BY DEF CalculateMissing
  <1>4. \/ request' = [request EXCEPT ![r] = NextMissing(req, req.wrote)]
        \/ request' = [request EXCEPT ![r] = [req EXCEPT !.at = "store", !.read[a] = w]]
    BY <1>1 DEF CalculateMissing, Become
  <1>5. CASE request' = [request EXCEPT ![r] = NextMissing(req, req.wrote)]
    BY <1>2, <1>3, <1>5, NextIsSound, OneRequest
  <1>6. CASE request' = [request EXCEPT ![r] = [req EXCEPT !.at = "store", !.read[a] = w]]
    <2>1. PICK new : new = [req EXCEPT !.at = "store", !.read[a] = w]
      OBVIOUS
    <2>2. DOMAIN new = Fields /\ new.at = "store" /\ new.read = [req.read EXCEPT ![a] = w]
      BY <1>2, <2>1 DEF Sound, Fields, Validating
    <2>3. a \in Applications => w \in Weights
      BY <1>1, ApplicationWeighs
    <2>4. new.read \in [Applications -> {None} \cup Weights]
      BY <1>2, <2>2, <2>3 DEF Sound
    <2>5. Sound(new, weight)
      BY <2>2, <2>4 DEF Sound, Working
    <2> QED
      BY <1>3, <1>6, <2>1, <2>5, OneRequest
  <1> QED
    BY <1>4, <1>5, <1>6

\* A missing weight is stored, for good.
LEMMA StoringKeeps ==
  ASSUME IInv, NEW r \in Freezers, StoreMissing(r)
  PROVE  IInv' /\ Adds(weight, weight')
  <1>1. PICK req, a, wrote : /\ req = request[r] /\ a = Head(req.left)
                             /\ wrote = IF weight[a] = None THEN req.wrote \cup {a} ELSE req.wrote
    OBVIOUS
  <1>2. Sound(req, weight)
    BY <1>1, AtWork DEF StoreMissing, Working
  <1>3. /\ weight' = IF weight[a] = None THEN [weight EXCEPT ![a] = req.read[a]] ELSE weight
        /\ request' = [request EXCEPT ![r] = NextMissing(req, wrote)]
        /\ UNCHANGED <<ledger, draw, bounds>>
    BY <1>1 DEF StoreMissing, Become
  <1>4. PICK stored, stored2 : stored = weight /\ stored2 = weight'
    OBVIOUS
  <1>5. stored \in [Applications -> {None} \cup Weights] /\ req.read \in [Applications -> {None} \cup Weights]
    BY <1>2, <1>4 DEF IInv, TypeInv, Sound
  <1>6. stored2 \in [Applications -> {None} \cup Weights] /\ Adds(stored, stored2)
    BY <1>3, <1>4, <1>5 DEF Adds
  <1>7. TypeInv'
    BY <1>3, <1>4, <1>6 DEF IInv, TypeInv, ledger, draw, bounds
  <1>8. RequestsSound'
    <2> SUFFICES ASSUME NEW q \in Freezers
                 PROVE  AtRest(request'[q]) \/ Sound(request'[q], weight')
      BY DEF RequestsSound
    <2>1. PICK old, new : old = request[q] /\ new = request'[q]
      OBVIOUS
    <2>2. new = IF q = r THEN NextMissing(req, wrote) ELSE old
      BY <1>3, <2>1 DEF IInv, TypeInv
    <2>3. AtRest(old) \/ Sound(old, stored)
      BY <1>4, <2>1 DEF IInv, RequestsSound
    <2>4. AtRest(new) \/ Sound(new, stored2)
      BY <1>2, <1>4, <1>6, <2>2, <2>3, NextIsSound, SoundLater
    <2> QED
      BY <1>4, <2>1, <2>4
  <1>9. PoolStands'
    <2>1. pool # None => weight' = weight
      BY <1>3, <1>4, <1>5 DEF IInv, PoolStands
    <2> QED
      BY <1>3, <2>1 DEF IInv, PoolStands, draw
  <1> QED
    BY <1>4, <1>6, <1>7, <1>8, <1>9 DEF IInv

\* The pool is what the dry run entered: every application, at the weight it carries.
LEMMA CommittingKeeps ==
  ASSUME IInv, NEW r \in Freezers, CommitFreeze(r)
  PROVE  IInv'
  <1>1. PICK req : req = request[r]
    OBVIOUS
  <1>2. Sound(req, weight) /\ req.at = "commit"
    BY <1>1, AtWork DEF CommitFreeze, Working
  <1>3. PICK answer : request' = [request EXCEPT ![r] = Answered(answer)]
    BY DEF CommitFreeze, Become
  <1>4. CASE UNCHANGED <<communeDraw, pool>>
    BY <1>3, <1>4, AnswerIsRest, OneRequest DEF CommitFreeze, draw
  <1>5. CASE communeDraw' = "LOCKED" /\ pool' = req.entries
    <2>1. UNCHANGED <<ledger, weight, drawYear, bounds>>
      BY DEF CommitFreeze
    <2>2. TypeInv'
      BY <1>3, <1>5, <2>1 DEF IInv, TypeInv, ledger, bounds
    <2>3. RequestsSound'
      <3> SUFFICES ASSUME NEW q \in Freezers
                   PROVE  AtRest(request'[q]) \/ Sound(request'[q], weight')
        BY DEF RequestsSound
      <3>1. request'[q] = IF q = r THEN Answered(answer) ELSE request[q]
        BY <1>3 DEF IInv, TypeInv
      <3> QED
        BY <2>1, <3>1, AnswerIsRest DEF IInv, RequestsSound
    <2>4. \A a \in Applications : /\ req.read[a] \in Weights /\ weight[a] = req.read[a]
                                  /\ weight[a] # None /\ Read(a, req) \in req.entries
      BY <1>2 DEF Sound, Entered
    <2>5. \A e \in req.entries : \E a \in Applications : e = Read(a, req)
      BY <1>2 DEF Sound
    <2>6. \A a \in Applications : Read(a, req) = [application |-> a, weight |-> weight[a]]
      BY <2>4 DEF Read
    <2>7. req.entries = {[application |-> a, weight |-> weight[a]] : a \in Applications}
      BY <2>4, <2>5, <2>6, Zenon
    <2>8. \A a \in Applications : [application |-> a, weight |-> weight[a]] \in Entry
      BY <2>4 DEF Entry
    <2>9. req.entries # None
      BY <2>7, <2>8, FreezeAssumption
    <2>10. PoolStands'
      BY <1>5, <2>1, <2>4, <2>7, <2>9 DEF PoolStands
    <2> QED
      BY <2>2, <2>3, <2>10 DEF IInv
  <1> QED
    BY <1>1, <1>4, <1>5 DEF CommitFreeze

\* What happens meanwhile to people and to the year touches no request, no weight and no pool.
LEMMA MeanwhileKeeps ==
  ASSUME IInv,
         \/ \E a \in Amendments : Amend(a)
         \/ \E p \in People : Win(p)
         \/ CloseRegistration
         \/ UNCHANGED vars
  PROVE  IInv' /\ weight' = weight
  <1>1. UNCHANGED <<request, weight, pool, communeDraw, patch, crashes, reopenings>>
    BY DEF Amend, Win, CloseRegistration, vars, ledger, draw, bounds
  <1>2. /\ hasWon' \subseteq People
        /\ drawYear' \in {"REGISTRATION_OPEN", "REGISTRATION_CLOSED"}
    BY FreezeAssumption DEF IInv, TypeInv, Amend, Win, CloseRegistration, vars, ledger, draw, bounds
  <1>3. TypeInv'
    BY <1>1, <1>2 DEF IInv, TypeInv
  <1>4. RequestsSound' /\ PoolStands'
    BY <1>1 DEF IInv, RequestsSound, PoolStands
  <1> QED
    BY <1>1, <1>3, <1>4 DEF IInv

\* Nor does a patch of the status, read or written: it locks nothing.
LEMMA PatchKeeps ==
  ASSUME IInv, NEW o \in Officials,
         (\E status \in Settings : ReadForPatch(o, status)) \/ WritePatch(o)
  PROVE  IInv' /\ weight' = weight
  <1>1. /\ UNCHANGED <<history, hasWon, weight, drawYear, pool, request, crashes>>
        /\ reopenings \in 0 .. MaxReopenings
        /\ patch \in [Officials -> {None, "DRAFT", "READY", "CANCELLED"}]
    BY DEF IInv, TypeInv, ReadForPatch, WritePatch, ledger, draw
  <1>2. CASE WritePatch(o)
    <2>1. communeDraw' \in {"DRAFT", "READY", "CANCELLED"} /\ reopenings' = reopenings
      BY <1>1, <1>2 DEF WritePatch
    <2>2. patch' \in [Officials -> {None, "DRAFT", "READY", "CANCELLED"}]
      BY <1>1, <1>2 DEF WritePatch
    <2>3. TypeInv'
      BY <1>1, <2>1, <2>2 DEF IInv, TypeInv
    <2>4. RequestsSound' /\ PoolStands'
      BY <1>1, <2>1 DEF IInv, RequestsSound, PoolStands
    <2> QED
      BY <1>1, <2>3, <2>4 DEF IInv
  <1>3. ASSUME NEW status \in Settings, ReadForPatch(o, status)
        PROVE  IInv' /\ weight' = weight
    <2>1. communeDraw' = communeDraw
      BY <1>3 DEF ReadForPatch, draw
    <2>2. status \in {"DRAFT", "READY", "CANCELLED"}
      BY <1>3, FreezeAssumption DEF ReadForPatch, IsAdministrativelySettable, CommuneDrawStatus
    <2>3. patch' \in [Officials -> {None, "DRAFT", "READY", "CANCELLED"}]
      BY <1>1, <1>3, <2>2 DEF ReadForPatch
    <2>4. reopenings' \in 0 .. MaxReopenings
      BY <1>1, <1>3, FreezeAssumption DEF ReadForPatch
    <2>5. TypeInv'
      BY <1>1, <2>1, <2>3, <2>4 DEF IInv, TypeInv
    <2>6. RequestsSound' /\ PoolStands'
      BY <1>1, <2>1 DEF IInv, RequestsSound, PoolStands
    <2> QED
      BY <1>1, <2>5, <2>6 DEF IInv
  <1> QED
    BY <1>2, <1>3

\* What a step keeps, and that it only adds weights.
LEMMA StepKeeps ==
  ASSUME IInv, [Next]_vars
  PROVE  IInv' /\ Adds(weight, weight')
  <1>1. ASSUME NEW r \in Freezers, Freeze(r) \/ Work(r) \/ Crash(r)
        PROVE  IInv' /\ Adds(weight, weight')
    <2>1. CASE StoreMissing(r)
      BY <2>1, StoringKeeps
    <2>2. CASE Freeze(r) \/ LoadDraw(r) \/ FindPool(r) \/ CollectCandidates(r) \/ Crash(r)
      BY <2>2, ReadingKeeps DEF Adds, Freeze, LoadDraw, FindPool, CollectCandidates, Crash
    <2>3. CASE EvaluateCandidate(r) \/ WeighCandidate(r)
      BY <2>3, EvaluatingKeeps DEF Adds, EvaluateCandidate, WeighCandidate
    <2>4. CASE Conclude(r)
      BY <2>4, ConcludingKeeps DEF Adds, Conclude
    <2>5. CASE CalculateMissing(r)
      BY <2>5, CalculatingKeeps DEF Adds, CalculateMissing
    <2>6. CASE CommitFreeze(r)
      BY <2>6, CommittingKeeps DEF Adds, CommitFreeze
    <2> QED
      BY <1>1, <2>1, <2>2, <2>3, <2>4, <2>5, <2>6 DEF Work
  <1>2. CASE \/ \E a \in Amendments : Amend(a)
             \/ \E p \in People : Win(p)
             \/ CloseRegistration
             \/ UNCHANGED vars
    BY <1>2, MeanwhileKeeps DEF Adds
  <1>3. ASSUME NEW o \in Officials,
               (\E status \in Settings : ReadForPatch(o, status)) \/ WritePatch(o)
        PROVE  IInv' /\ Adds(weight, weight')
    BY <1>3, PatchKeeps DEF Adds
  <1> QED
    BY <1>1, <1>2, <1>3 DEF Next

\* A pool that is there is the one, also where its draw is READY again.
LEMMA PoolIsKept ==
  ASSUME [Next]_vars, pool # None
  PROVE  pool' = pool
  <1>1. ASSUME NEW r \in Freezers, Freeze(r) \/ Work(r) \/ Crash(r)
        PROVE  pool' = pool
    BY <1>1 DEF Freeze, Work, Crash, LoadDraw, FindPool, CollectCandidates, EvaluateCandidate,
                WeighCandidate, Conclude, CalculateMissing, StoreMissing, CommitFreeze, draw
  <1>2. CASE \/ \E a \in Amendments : Amend(a)
             \/ \E p \in People : Win(p)
             \/ CloseRegistration
             \/ UNCHANGED vars
    BY <1>2 DEF Amend, Win, CloseRegistration, draw, vars
  <1>3. ASSUME NEW o \in Officials,
               (\E status \in Settings : ReadForPatch(o, status)) \/ WritePatch(o)
        PROVE  pool' = pool
    BY <1>3 DEF ReadForPatch, WritePatch, draw
  <1> QED
    BY <1>1, <1>2, <1>3 DEF Next

\* Before the first freeze there is no pool and no weight.
LEMMA FirstKeeps == Init => IInv
  <1> SUFFICES ASSUME Init PROVE IInv
    OBVIOUS
  <1>1. TypeInv
    BY FreezeAssumption DEF Init, TypeInv
  <1>2. RequestsSound
    BY DEF Init, RequestsSound, AtRest
  <1>3. PoolStands
    BY DEF Init, PoolStands
  <1> QED
    BY <1>1, <1>2, <1>3 DEF IInv

\* The invariant of the freeze, for any ledger, applications and number of freezes at a time.
THEOREM Invariance == Spec => []IInv
  <1>1. IInv /\ [Next]_vars => IInv'
    BY StepKeeps
  <1> QED
    BY <1>1, FirstKeeps, PTL DEF Spec

\* freezePool: a pool that is there has every candidate once, at the weight its application
\* carries, no draw is locked without one, and no weight or pool is ever written twice:
\* whoever else freezes, dies half-way, wins elsewhere, has the ledger corrected, or patches
\* the status on a reading that a freeze has made stale (updateCommuneDraw).
THEOREM PoolStaysWhole == Spec => FrozenForGood
  <1>1. IInv => TypeOK /\ PoolIsWhole
    BY DEF IInv, TypeInv, PoolStands, TypeOK, PoolIsWhole
  <1>2. IInv /\ [Next]_vars =>
          [/\ \A a \in Applications : weight[a] # None => weight'[a] = weight[a]
           /\ pool # None => pool' = pool]_vars
    BY StepKeeps, PoolIsKept DEF Adds
  <1> QED
    BY <1>1, <1>2, Invariance, PTL DEF Spec, FrozenForGood, WrittenOnce

\* However a ledger is amended while a pool is frozen, a streak counts the years before the
\* draw after which every year counts.
THEOREM StreaksAreUnbroken == Spec => []StreakIsUnbroken
  <1>1. StreakIsUnbroken
    <2> SUFFICES ASSUME NEW p \in People
                 PROVE  CalculateStreak(Year, history[p]) =
                          Cardinality({y \in EARLIEST_DRAW_YEAR .. Year - 1 :
                                         \A z \in y .. Year - 1 : Counts(history[p], z)})
      BY DEF StreakIsUnbroken
    <2>1. \A z : Counts(history[p], z) <=> CountsIn(history[p], z)
      BY WhatCounts DEF Counts
    <2>2. {y \in EARLIEST_DRAW_YEAR .. Year - 1 : \A z \in y .. Year - 1 : Counts(history[p], z)}
            = Unbroken(history[p], Year - 1)
      BY <2>1 DEF Unbroken
    <2> QED
      BY <2>2, StreakCounts, FreezeAssumption
  <1> QED
    BY <1>1, PTL

================================================================================
