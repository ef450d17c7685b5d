------------------------------- MODULE Induction -------------------------------
(***************************************************************************)
(* Induction over natural numbers and over the size of finite sets, in the *)
(* form of lemmas about sets of numbers, and what it gives for sums.       *)
(***************************************************************************)
EXTENDS Integers, FiniteSets, FiniteSetsExt, FiniteSetTheorems, WellFoundedInduction, TLAPS

\* A set of natural numbers that is not empty has a least one.
LEMMA LeastNumber ==
  ASSUME NEW T \in SUBSET Nat, T # {}
  PROVE  \E x \in T : \A y \in T : x <= y
  <1>1. IsWellFoundedOn(OpToRel(<, Nat), Nat)
    BY NatLessThanWellFounded
  <1>2. PICK x \in T : \A y \in T : <<y, x>> \notin OpToRel(<, Nat)
    BY <1>1, WFMin
  <1>3. \A y \in T : ~ (y < x)
    BY <1>2, Zenon DEF OpToRel
  <1> QED
    BY <1>3

\* A set that holds 0, and with every number the next, holds them all.  What the
\* library's theorem says of an operator is said of a set here, which a proof can name.
LEMMA InductionOnNat ==
  ASSUME NEW P \in SUBSET Nat, 0 \in P, \A n \in P : n + 1 \in P
  PROVE  P = Nat
  <1> SUFFICES ASSUME Nat \ P # {} PROVE FALSE
    OBVIOUS
  <1>1. PICK x \in Nat \ P : \A y \in Nat \ P : x <= y
    BY LeastNumber
  <1>2. x # 0 /\ x - 1 \in Nat
    BY <1>1
  <1>3. x - 1 \in P
    BY <1>1, <1>2
  <1> QED
    BY <1>3, <1>1

------------------------------------------------------------------------------
(* Sums over finite sets, by the fold the community modules define them with. *)

SumOf(w, S) == MapThenSumSet(LAMBDA x : w[x], S)

\* The recursion of that fold: one element is picked, the rest is summed.
Pick(s) == CHOOSE x \in s : TRUE

Sums(g, w, S) == g = [s \in SUBSET S |-> IF s = {} THEN 0 ELSE w[Pick(s)] + g[s \ {Pick(s)}]]

\* What is picked of a set that is not empty is in it.
LEMMA PickIsIn == \A s : s # {} => Pick(s) \in s
  BY DEF Pick

\* A finite set without one of its elements has one element fewer.
LEMMA OneFewer ==
  ASSUME NEW S, IsFiniteSet(S), NEW e \in S
  PROVE  /\ IsFiniteSet(S \ {e})
         /\ Cardinality(S \ {e}) \in Nat /\ Cardinality(S) \in Nat
         /\ Cardinality(S) = Cardinality(S \ {e}) + 1
  <1>1. IsFiniteSet(S \ {e}) /\ Cardinality(S \ {e}) = Cardinality(S) - 1
    BY FS_RemoveElement
  <1>2. Cardinality(S) \in Nat /\ Cardinality(S \ {e}) \in Nat
    BY <1>1, FS_CardinalityType
  <1> QED
    BY <1>1, <1>2

\* The recursion has a solution: by the size of the subsets it is defined on.
LEMMA SumsExist ==
  ASSUME NEW S, IsFiniteSet(S), NEW w
  PROVE  \E g : Sums(g, w, S)
  <1> DEFINE Small(n) == {s \in SUBSET S : Cardinality(s) <= n}
             Upto(g, n) == g = [s \in Small(n) |-> IF s = {} THEN 0 ELSE w[Pick(s)] + g[s \ {Pick(s)}]]
             P == {n \in Nat : \E g : Upto(g, n)}
  <1>1. \A s \in SUBSET S : IsFiniteSet(s) /\ Cardinality(s) \in Nat
    BY FS_Subset, FS_CardinalityType
  <1>2. 0 \in P
    <2>1. Small(0) = {{}}
      BY <1>1, FS_EmptySet
    <2>2. Upto([s \in Small(0) |-> 0], 0)
      BY <2>1
    <2> QED
      BY <2>2
  <1>3. ASSUME NEW n \in P PROVE n + 1 \in P
    <2>0. n \in Nat /\ n + 1 \in Nat
      OBVIOUS
    <2>1. PICK g : Upto(g, n)
      OBVIOUS
    <2> DEFINE h == [s \in Small(n + 1) |-> IF s = {} THEN 0 ELSE w[Pick(s)] + g[s \ {Pick(s)}]]
    <2>2. \A s \in Small(n) : s \in Small(n + 1) /\ h[s] = g[s]
      <3>1. Small(n) \subseteq Small(n + 1)
        BY <1>1, <2>0
      <3> HIDE DEF Small, P
      <3>2. \A s \in Small(n) : g[s] = IF s = {} THEN 0 ELSE w[Pick(s)] + g[s \ {Pick(s)}]
        BY <2>1
      <3> QED
        BY <3>1, <3>2
    <2>3. ASSUME NEW s \in Small(n + 1), s # {} PROVE s \ {Pick(s)} \in Small(n)
      <3>1. Pick(s) \in s
        BY <2>3, PickIsIn
      <3> QED
        BY <1>1, <2>0, <3>1, OneFewer
    <2>4. Upto(h, n + 1)
      <3> HIDE DEF Small, P
      <3>1. \A s \in Small(n + 1) : s # {} => h[s \ {Pick(s)}] = g[s \ {Pick(s)}]
        BY <2>2, <2>3
      <3> QED
        BY <3>1
    <2> QED
      BY <2>0, <2>4
  <1>4. P = Nat
    <2> HIDE DEF P
    <2> QED
      BY <1>2, <1>3, InductionOnNat, P \in SUBSET Nat DEF P
  <1>5. PICK g : Upto(g, Cardinality(S))
    BY <1>1, <1>4
  <1>6. Small(Cardinality(S)) = SUBSET S
    BY FS_Subset
  <1> QED
    BY <1>5, <1>6 DEF Sums

\* It sums natural numbers to natural numbers.
LEMMA SumIsNat ==
  ASSUME NEW S, IsFiniteSet(S), NEW w, NEW g, Sums(g, w, S), \A x \in S : w[x] \in Nat
  PROVE  \A s \in SUBSET S : g[s] \in Nat
  <1> DEFINE P == {n \in Nat : \A s \in SUBSET S : Cardinality(s) = n => g[s] \in Nat}
  <1>1. \A s \in SUBSET S : IsFiniteSet(s) /\ Cardinality(s) \in Nat
    BY FS_Subset, FS_CardinalityType
  <1>2. 0 \in P
    <2>1. \A s \in SUBSET S : Cardinality(s) = 0 => s = {}
      BY <1>1, FS_EmptySet
    <2> QED
      BY <2>1 DEF Sums
  <1>3. ASSUME NEW n \in P PROVE n + 1 \in P
    <2>1. n \in Nat /\ \A s \in SUBSET S : Cardinality(s) = n => g[s] \in Nat
      OBVIOUS
    <2>2. ASSUME NEW s \in SUBSET S, Cardinality(s) = n + 1 PROVE g[s] \in Nat
      <3>1. s # {}
        BY <2>1, <2>2, FS_EmptySet
      <3>2. Pick(s) \in s
        BY <3>1, PickIsIn
      <3>3. g[s] = w[Pick(s)] + g[s \ {Pick(s)}]
        BY <3>1 DEF Sums
      <3>4. s \ {Pick(s)} \in SUBSET S /\ Cardinality(s \ {Pick(s)}) = n
        BY <1>1, <2>1, <2>2, <3>2, OneFewer
      <3> QED
        BY <2>1, <3>2, <3>3, <3>4
    <2> QED
      BY <2>1, <2>2
  <1>4. P = Nat
    <2> HIDE DEF P
    <2> QED
      BY <1>2, <1>3, InductionOnNat, P \in SUBSET Nat DEF P
  <1> QED
    BY <1>1, <1>4

\* It does not matter which element is picked: any of them can be the last one added.
LEMMA SumOfAny ==
  ASSUME NEW S, IsFiniteSet(S), NEW w, NEW g, Sums(g, w, S), \A x \in S : w[x] \in Nat
  PROVE  \A s \in SUBSET S : \A e \in s : g[s] = w[e] + g[s \ {e}]
  <1> DEFINE Sound(s) == \A e \in s : g[s] = w[e] + g[s \ {e}]
             P == {n \in Nat : \A s \in SUBSET S : Cardinality(s) = n => Sound(s)}
  <1>1. \A s \in SUBSET S : IsFiniteSet(s) /\ Cardinality(s) \in Nat /\ g[s] \in Nat
    BY FS_Subset, FS_CardinalityType, SumIsNat
  <1>2. 0 \in P
    <2>1. \A s \in SUBSET S : Cardinality(s) = 0 => s = {}
      BY <1>1, FS_EmptySet
    <2> QED
      BY <2>1
  <1>3. ASSUME NEW n \in P PROVE n + 1 \in P
    <2>1. n \in Nat /\ \A s \in SUBSET S : Cardinality(s) = n => Sound(s)
      OBVIOUS
    <2>2. ASSUME NEW s \in SUBSET S, Cardinality(s) = n + 1 PROVE Sound(s)
      <3> DEFINE p == Pick(s)
      <3>1. s # {}
        BY <2>1, <2>2, FS_EmptySet
      <3>2. p \in s
        BY <3>1, PickIsIn
      <3>3. g[s] = w[p] + g[s \ {p}]
        BY <3>1 DEF Sums
      <3>4. \A e \in s : s \ {e} \in SUBSET S /\ Cardinality(s \ {e}) = n
        BY <1>1, <2>1, <2>2, OneFewer
      <3> HIDE DEF p, P
      <3>5. \A e \in s : Sound(s \ {e})
        <4> HIDE DEF Sound
        <4> QED
          BY <2>1, <3>4
      <3>6. ASSUME NEW e \in s, e # p PROVE g[s] = w[e] + g[s \ {e}]
        <4> DEFINE rest == (s \ {p}) \ {e}
        <4>1. rest = (s \ {e}) \ {p} /\ e \in s \ {p} /\ p \in s \ {e}
          BY <3>2, <3>6
        <4>2. g[s \ {p}] = w[e] + g[rest]
          BY <3>2, <3>5, <4>1
        <4>3. g[s \ {e}] = w[p] + g[rest]
          BY <3>5, <4>1
        <4>4. g[rest] \in Nat /\ w[e] \in Nat /\ w[p] \in Nat
          BY <1>1, <3>2
        <4> HIDE DEF rest
        <4> QED
          BY <3>3, <4>2, <4>3, <4>4
      <3> QED
        BY <3>3, <3>6
    <2> QED
      BY <2>1, <2>2
  <1>4. P = Nat
    <2> HIDE DEF P
    <2> QED
      BY <1>2, <1>3, InductionOnNat, P \in SUBSET Nat DEF P
  <1>5. \A s \in SUBSET S : Sound(s)
    <2> HIDE DEF Sound
    <2> QED
      BY <1>1, <1>4
  <1> QED
    BY <1>5

\* Nor which set the recursion was begun with.  A solution for a set is one for its
\* subsets.
LEMMA SumsAgree ==
  ASSUME NEW S, IsFiniteSet(S), NEW T \in SUBSET S, NEW w, NEW g, NEW h, Sums(g, w, S), Sums(h, w, T)
  PROVE  g[T] = h[T]
  <1> DEFINE P == {n \in Nat : \A s \in SUBSET T : Cardinality(s) = n => g[s] = h[s]}
  <1>1. \A s \in SUBSET S : IsFiniteSet(s) /\ Cardinality(s) \in Nat
    BY FS_Subset, FS_CardinalityType
  <1>2. 0 \in P
    <2>1. \A s \in SUBSET S : Cardinality(s) = 0 => s = {}
      BY <1>1, FS_EmptySet
    <2> QED
      BY <2>1 DEF Sums
  <1>3. ASSUME NEW n \in P PROVE n + 1 \in P
    <2> SUFFICES ASSUME NEW s \in SUBSET T, Cardinality(s) = n + 1 PROVE g[s] = h[s]
      OBVIOUS
    <2>1. s # {}
      BY FS_EmptySet
    <2>2. s \ {Pick(s)} \in SUBSET T /\ Cardinality(s \ {Pick(s)}) = n
      BY <1>1, <2>1, PickIsIn, OneFewer
    <2> QED
      BY <2>1, <2>2 DEF Sums
  <1>4. P = Nat
    <2> HIDE DEF P
    <2> QED
      BY <1>2, <1>3, InductionOnNat, P \in SUBSET Nat DEF P
  <1> QED
    BY <1>1, <1>4

\* What a sum is, without the fold.
LEMMA SumUnfolds == \A w, S : SumOf(w, S) = (CHOOSE g : Sums(g, w, S))[S]
  BY DEF SumOf, MapThenSumSet, MapThenFoldSet, Sums, Pick

\* A sum is that of any solution for a set around it.
LEMMA SumOfPart ==
  ASSUME NEW S, IsFiniteSet(S), NEW w, NEW g, Sums(g, w, S), NEW T \in SUBSET S
  PROVE  SumOf(w, T) = g[T]
  <1>1. IsFiniteSet(T)
    BY FS_Subset
  <1>2. PICK h : h = CHOOSE f : Sums(f, w, T)
    OBVIOUS
  <1>3. Sums(h, w, T)
    BY <1>1, <1>2, SumsExist, Zenon
  <1>4. SumOf(w, T) = h[T]
    BY <1>2, SumUnfolds
  <1> QED
    BY <1>3, <1>4, SumsAgree

\* Nothing sums to nothing.
LEMMA SumOfNone == \A w : SumOf(w, {}) = 0
  <1> SUFFICES ASSUME NEW w PROVE SumOf(w, {}) = 0
    OBVIOUS
  <1>1. IsFiniteSet({})
    BY FS_EmptySet
  <1>2. PICK g : Sums(g, w, {})
    BY <1>1, SumsExist
  <1>3. SumOf(w, {}) = g[{}]
    BY <1>1, <1>2, SumOfPart
  <1>4. g[{}] = 0
    BY <1>2 DEF Sums
  <1> QED
    BY <1>3, <1>4

\* One element more adds its own weight.
LEMMA SumOfOneMore ==
  ASSUME NEW S, IsFiniteSet(S), NEW w, NEW e, e \notin S, \A x \in S \cup {e} : w[x] \in Nat
  PROVE  SumOf(w, S) \in Nat /\ SumOf(w, S \cup {e}) = SumOf(w, S) + w[e]
  <1> DEFINE T == S \cup {e}
  <1>1. IsFiniteSet(T)
    BY FS_AddElement
  <1>2. PICK g : Sums(g, w, T)
    BY <1>1, SumsExist
  <1>3. SumOf(w, T) = g[T] /\ SumOf(w, S) = g[S]
    BY <1>1, <1>2, SumOfPart
  <1>4. g[S] \in Nat
    <2>1. S \in SUBSET T /\ \A x \in T : w[x] \in Nat
      OBVIOUS
    <2> HIDE DEF T
    <2> QED
      BY <1>1, <1>2, <2>1, SumIsNat
  <1>5. e \in T /\ T \in SUBSET T /\ \A x \in T : w[x] \in Nat
    OBVIOUS
  <1>6. T \ {e} = S
    OBVIOUS
  <1> HIDE DEF T
  <1>7. g[T] = w[e] + g[T \ {e}]
    BY <1>1, <1>2, <1>5, SumOfAny
  <1>8. g[T] = w[e] + g[S]
    BY <1>6, <1>7, Zenon
  <1>9. w[e] \in Nat
    BY <1>5
  <1> QED
    BY <1>3, <1>4, <1>8, <1>9 DEF T

\* A part sums to no more than the whole.
LEMMA SumOfSubset ==
  ASSUME NEW S, IsFiniteSet(S), NEW w, \A x \in S : w[x] \in Nat, NEW T \in SUBSET S
  PROVE  SumOf(w, T) \in Nat /\ SumOf(w, S) \in Nat /\ SumOf(w, T) <= SumOf(w, S)
  <1> DEFINE P == {n \in Nat : \A U \in SUBSET S :
                     T \subseteq U /\ Cardinality(U \ T) = n =>
                       SumOf(w, U) \in Nat /\ SumOf(w, T) <= SumOf(w, U)}
  <1>1. \A U \in SUBSET S :
          /\ IsFiniteSet(U) /\ IsFiniteSet(U \ T)
          /\ Cardinality(U \ T) \in Nat
          /\ Cardinality(U \ T) = 0 => U \ T = {}
    <2>1. \A U \in SUBSET S : U \ T \in SUBSET S
      OBVIOUS
    <2> QED
      BY <2>1, FS_Subset, FS_CardinalityType, FS_EmptySet
  <1>2. PICK g : Sums(g, w, S)
    BY SumsExist
  <1>3. SumOf(w, T) \in Nat
    BY <1>2, SumOfPart, SumIsNat
  <1>4. 0 \in P
    <2>1. \A U \in SUBSET S : T \subseteq U /\ Cardinality(U \ T) = 0 => U = T
      BY <1>1
    <2>2. \A U \in SUBSET S : T \subseteq U /\ Cardinality(U \ T) = 0 =>
            SumOf(w, U) \in Nat /\ SumOf(w, T) <= SumOf(w, U)
      <3>1. SumOf(w, T) <= SumOf(w, T)
        BY <1>3
      <3> QED
        BY <1>3, <2>1, <3>1, Zenon
    <2> QED
      BY <2>2
  <1>5. ASSUME NEW n \in P PROVE n + 1 \in P
    <2>1. /\ n \in Nat
          /\ \A U \in SUBSET S : T \subseteq U /\ Cardinality(U \ T) = n =>
               SumOf(w, U) \in Nat /\ SumOf(w, T) <= SumOf(w, U)
      OBVIOUS
    <2>2. ASSUME NEW U \in SUBSET S, T \subseteq U, Cardinality(U \ T) = n + 1
          PROVE  SumOf(w, U) \in Nat /\ SumOf(w, T) <= SumOf(w, U)
      <3>1. PICK e : e \in U \ T
        <4>1. Cardinality(U \ T) # 0
          BY <2>1, <2>2
        <4>2. U \ T # {}
          BY <4>1, FS_EmptySet
        <4> QED
          BY <4>2
      <3> DEFINE V == U \ {e}
      <3>2. V \in SUBSET S /\ T \subseteq V /\ V \ T = (U \ T) \ {e} /\ U = V \cup {e} /\ e \notin V
        BY <2>2, <3>1
      <3>3. Cardinality(V \ T) = n
        <4>1. Cardinality(U \ T) = Cardinality((U \ T) \ {e}) + 1 /\ Cardinality((U \ T) \ {e}) \in Nat
          BY <1>1, <3>1, OneFewer
        <4> QED
          BY <2>1, <2>2, <3>2, <4>1
      <3> HIDE DEF V, P
      <3>4. SumOf(w, V) \in Nat /\ SumOf(w, T) <= SumOf(w, V)
        BY <2>1, <3>2, <3>3
      <3>5. SumOf(w, U) = SumOf(w, V) + w[e]
        BY <1>1, <3>1, <3>2, SumOfOneMore
      <3> QED
        BY <1>3, <3>1, <3>4, <3>5
    <2> QED
      BY <2>1, <2>2
  <1>6. P = Nat
    <2> HIDE DEF P
    <2> QED
      BY <1>4, <1>5, InductionOnNat, P \in SUBSET Nat DEF P
  <1>7. Cardinality(S \ T) \in Nat
    BY <1>1
  <1> QED
    BY <1>3, <1>6, <1>7

\* A finite set of natural numbers that is not empty has a greatest one.
LEMMA GreatestNumber ==
  ASSUME NEW T \in SUBSET Nat, IsFiniteSet(T), T # {}
  PROVE  \E x \in T : \A y \in T : y <= x
  <1> DEFINE Greatest(U) == \E x \in U : \A y \in U : y <= x
             P == {n \in Nat : \A U \in SUBSET Nat :
                     IsFiniteSet(U) /\ U # {} /\ Cardinality(U) = n => Greatest(U)}
  <1>1. 0 \in P
    BY FS_EmptySet
  <1>2. ASSUME NEW n \in P PROVE n + 1 \in P
    <2> SUFFICES ASSUME NEW U \in SUBSET Nat, IsFiniteSet(U), U # {}, Cardinality(U) = n + 1
                 PROVE  Greatest(U)
      OBVIOUS
    <2>1. PICK x \in U : TRUE
      OBVIOUS
    <2>2. IsFiniteSet(U \ {x}) /\ Cardinality(U \ {x}) = n
      <3>1. n \in Nat
        OBVIOUS
      <3> HIDE DEF P
      <3>2. IsFiniteSet(U \ {x}) /\ Cardinality(U \ {x}) = Cardinality(U) - 1
        BY <2>1, FS_RemoveElement
      <3>3. Cardinality(U) = n + 1
        OBVIOUS
      <3> QED
        BY <3>1, <3>2, <3>3
    <2>3. CASE U \ {x} = {}
      BY <2>1, <2>3
    <2>4. CASE U \ {x} # {}
      <3>1. PICK m \in U \ {x} : \A y \in U \ {x} : y <= m
        <4> HIDE DEF Greatest
        <4>1. Greatest(U \ {x})
          BY <2>2, <2>4
        <4> QED
          BY <4>1 DEF Greatest
      <3>2. CASE m <= x
        BY <3>1, <3>2, <2>1
      <3>3. CASE x <= m
        BY <3>1, <3>3, <2>1
      <3> QED
        BY <3>1, <3>2, <3>3
    <2> QED
      BY <2>3, <2>4
  <1> HIDE DEF P
  <1>3. P = Nat
    BY <1>1, <1>2, InductionOnNat DEF P
  <1>4. Cardinality(T) \in P
    BY <1>3, FS_CardinalityType
  <1> QED
    BY <1>4 DEF P

==============================================================================
