------------------------ MODULE RawIntersect_proofs ------------------------
(***************************************************************************)
(* Raw::Intersect for vectors of any length.                               *)
(*                                                                         *)
(* The merge passes the elements of a value v pairwise on both sides.  As  *)
(* long as v lies ahead on a side, the other side has not passed fewer of  *)
(* its elements: so over an ascending setup an element of the response is  *)
(* dropped only when the setup has no more of its value, and taken only    *)
(* when it has one for every earlier occurrence.                           *)
(***************************************************************************)
EXTENDS RawIntersect, FiniteSetTheorems, TLAPS

SetupIndex == 0 .. SetupSize - 1

\* What the merge reads: the response in the order of its pairs, and the setup.
VectorsInv ==
  /\ size \in Nat /\ elements \in [Index -> Value]
  /\ SetupSize \in Nat /\ encrypted \in [SetupIndex -> Value]
  /\ sorted \in [Index -> Index]
  /\ \A a, b \in Index : a < b => PairLess(elements, sorted[a], sorted[b])

PlaceInv ==
  /\ first1 \in 0 .. size /\ first2 \in 0 .. SetupSize
  /\ done => ~ InBoth

\* What was taken is in the setup, was passed, and was taken once.
TakenOnce ==
  /\ res \in Seq(Index)
  /\ \A p \in 1 .. Len(res) :
       /\ \E c \in Index : c < first1 /\ res[p] = sorted[c]
       /\ \E b \in SetupIndex : elements[res[p]] = encrypted[b]
  /\ \A p, q \in 1 .. Len(res) : p # q => res[p] # res[q]

\* The elements of value v passed on each side.
PassedFirst(v)  == {c \in Index : c < first1 /\ elements[sorted[c]] = v}
PassedSecond(v) == {b \in SetupIndex : b < first2 /\ encrypted[b] = v}

LevelInv ==
  Ascending(encrypted) =>
    /\ first1 < size =>
         \A v \in Value : v >= Front =>
           Cardinality(PassedSecond(v)) <= Cardinality(PassedFirst(v))
    /\ first2 < SetupSize =>
         \A v \in Value : v >= encrypted[first2] =>
           Cardinality(PassedFirst(v)) <= Cardinality(PassedSecond(v))

Taken(a) == \E p \in 1 .. Len(res) : res[p] = a

ChosenInv ==
  Ascending(encrypted) =>
    \A c \in Index : c < first1 =>
      (Taken(sorted[c]) <=> sorted[c] \in CommonPositions(elements, encrypted))

\* The setup positions behind first2 that are hit.
HitsPassed ==
  {b \in SetupIndex : b < first2 /\ \E a \in Index : elements[a] = encrypted[b]}

CountInv ==
  StrictlyAscending(encrypted) => Len(res) = Cardinality(HitsPassed)

IInv == VectorsInv /\ PlaceInv /\ TakenOnce /\ LevelInv /\ ChosenInv /\ CountInv

-----------------------------------------------------------------------------
\* An injective map of an initial segment into itself reaches all of it.
LEMMA InjectiveIsOnto ==
  ASSUME NEW n \in Nat, NEW f \in [0 .. n - 1 -> 0 .. n - 1],
         \A a, b \in 0 .. n - 1 : f[a] = f[b] => a = b
  PROVE  \A c \in 0 .. n - 1 : \E a \in 0 .. n - 1 : f[a] = c
<1> DEFINE D == 0 .. n - 1
<1>1. f \in Injection(D, D)
  BY DEF Injection, IsInjective
<1>2. IsFiniteSet(D)
  BY FS_Interval
<1> HIDE DEF D
<1>3. f \in Surjection(D, D)
  BY <1>1, <1>2, FS_Injection
<1> QED
  BY <1>3 DEF Surjection, D

\* An injective map onto a set counts it.
LEMMA SameCount ==
  ASSUME NEW S, NEW T, IsFiniteSet(S), NEW f \in [S -> T],
         \A a, b \in S : f[a] = f[b] => a = b,
         \A t \in T : \E s \in S : f[s] = t
  PROVE  IsFiniteSet(T) /\ Cardinality(T) = Cardinality(S)
<1>1. f \in Bijection(S, T)
  BY DEF Bijection, Injection, Surjection, IsInjective
<1>2. ExistsBijection(S, T)
  BY <1>1 DEF ExistsBijection
<1> QED
  BY <1>2, FS_Bijection

-----------------------------------------------------------------------------
(***************************************************************************)
(* std::sort has exactly one order to leave the pairs in: each goes where  *)
(* as many pairs as are less than it come before.                          *)
(***************************************************************************)
LEMMA PairLessOrders ==
  ASSUME NEW n \in Nat, NEW f \in [0 .. n - 1 -> Int],
         NEW a \in 0 .. n - 1, NEW b \in 0 .. n - 1, NEW c \in 0 .. n - 1
  PROVE  /\ ~ PairLess(f, a, a)
         /\ PairLess(f, a, b) /\ PairLess(f, b, c) => PairLess(f, a, c)
         /\ a # b => PairLess(f, a, b) \/ PairLess(f, b, a)
<1>1. f[a] \in Int /\ f[b] \in Int /\ f[c] \in Int /\ a \in Int /\ b \in Int /\ c \in Int
  OBVIOUS
<1> QED
  BY <1>1 DEF PairLess

LEMMA SortedPairsExist ==
  ASSUME NEW n \in Nat, NEW f \in [0 .. n - 1 -> Int]
  PROVE  \E p \in [0 .. n - 1 -> 0 .. n - 1] :
           \A a, b \in 0 .. n - 1 : a < b => PairLess(f, p[a], p[b])
<1> DEFINE D        == 0 .. n - 1
           Below(a) == {c \in D : PairLess(f, c, a)}
           rank     == [a \in D |-> Cardinality(Below(a))]
<1>1. IsFiniteSet(D) /\ Cardinality(D) = n
  BY FS_Interval
<1>2. ASSUME NEW a \in D PROVE IsFiniteSet(Below(a)) /\ Cardinality(Below(a)) \in D
  <2>1. IsFiniteSet(D \ {a}) /\ Cardinality(D \ {a}) = n - 1
    <3> HIDE DEF D
    <3> QED
      BY <1>1, FS_RemoveElement
  <2>2. Below(a) \subseteq D \ {a}
    BY PairLessOrders
  <2> HIDE DEF Below
  <2>3. IsFiniteSet(Below(a)) /\ Cardinality(Below(a)) <= n - 1
    BY <2>1, <2>2, FS_Subset
  <2> QED
    BY <2>3, FS_CardinalityType
<1>3. ASSUME NEW a \in D, NEW b \in D, PairLess(f, a, b) PROVE rank[a] < rank[b]
  <2>1. Below(a) \subseteq Below(b) /\ a \in Below(b) /\ a \notin Below(a)
    BY <1>3, PairLessOrders
  <2>2. IsFiniteSet(Below(b)) /\ Cardinality(Below(a)) \in D /\ Cardinality(Below(b)) \in D
    BY <1>2
  <2> HIDE DEF Below
  <2>3. Cardinality(Below(a)) <= Cardinality(Below(b))
        /\ Cardinality(Below(a)) # Cardinality(Below(b))
    BY <2>1, <2>2, FS_Subset
  <2> QED
    BY <2>2, <2>3
<1>4. rank \in [D -> D]
  BY <1>2
<1>5. ASSUME NEW a \in D, NEW b \in D, rank[a] = rank[b] PROVE a = b
  <2>1. rank[a] \in Int /\ rank[b] \in Int
    BY <1>4
  <2> HIDE DEF rank, Below
  <2> QED
    BY <1>3, <1>5, <2>1, PairLessOrders, SMTT(60)
<1>6. \A k \in D : \E a \in D : rank[a] = k
  <2> HIDE DEF rank, Below
  <2> QED
    BY <1>4, <1>5, InjectiveIsOnto
<1> DEFINE p == [k \in D |-> CHOOSE a \in D : rank[a] = k]
<1>7. \A k \in D : p[k] \in D /\ rank[p[k]] = k
  <2> HIDE DEF rank, Below
  <2> QED
    BY <1>6
<1>8. ASSUME NEW a \in D, NEW b \in D, a < b PROVE PairLess(f, p[a], p[b])
  <2> HIDE DEF rank, p, Below
  <2>1. p[a] \in D /\ p[b] \in D /\ rank[p[a]] = a /\ rank[p[b]] = b /\ a \in Int /\ b \in Int
    BY <1>7
  <2>2. p[a] # p[b] /\ ~ PairLess(f, p[b], p[a])
    BY <1>3, <1>8, <2>1
  <2> QED
    BY <2>1, <2>2, PairLessOrders
<1>9. p \in [D -> D]
  BY <1>7
<1> HIDE DEF p
<1> QED
  BY <1>8, <1>9

-----------------------------------------------------------------------------
(***************************************************************************)
(* What the order of the pairs says.                                       *)
(***************************************************************************)
LEMMA Vectors ==
  ASSUME IInv
  PROVE  /\ size \in Nat /\ SetupSize \in Nat /\ first1 \in Nat /\ first2 \in Nat
         /\ first1 <= size /\ first2 <= SetupSize
         /\ \A a \in Index : elements[a] \in Value /\ elements[a] \in Int
         /\ \A c \in Index : sorted[c] \in Index
         /\ \A b \in SetupIndex : encrypted[b] \in Value /\ encrypted[b] \in Int
         /\ \A a \in Index : a \in Int
         /\ \A b \in SetupIndex : b \in Int
         /\ DOMAIN elements = Index /\ DOMAIN encrypted = SetupIndex
<1>1. Value \subseteq Int
  BY RawIntersectAssumption
<1>2. /\ size \in Nat /\ elements \in [Index -> Value] /\ sorted \in [Index -> Index]
      /\ SetupSize \in Nat /\ encrypted \in [SetupIndex -> Value]
      /\ first1 \in 0 .. size /\ first2 \in 0 .. SetupSize
  BY DEF IInv, VectorsInv, PlaceInv
<1>3. (\A a \in Index : a \in Int) /\ (\A b \in SetupIndex : b \in Int)
  BY <1>2 DEF Index, SetupIndex
<1> HIDE DEF Index, SetupIndex, SetupSize
<1>4. /\ \A a \in Index : elements[a] \in Value /\ elements[a] \in Int
      /\ \A c \in Index : sorted[c] \in Index
      /\ \A b \in SetupIndex : encrypted[b] \in Value /\ encrypted[b] \in Int
      /\ DOMAIN elements = Index /\ DOMAIN encrypted = SetupIndex
  BY <1>1, <1>2
<1>5. /\ first1 \in Nat /\ first2 \in Nat /\ first1 <= size /\ first2 <= SetupSize
  BY <1>2
<1> QED
  BY <1>2, <1>3, <1>4, <1>5

LEMMA SortedOnce ==
  ASSUME IInv
  PROVE  /\ \A a, b \in Index : sorted[a] = sorted[b] => a = b
         /\ \A a \in Index : \E c \in Index : sorted[c] = a
<1>1. ASSUME NEW a \in Index, NEW b \in Index, a < b PROVE sorted[a] # sorted[b]
  <2>1. PairLess(elements, sorted[a], sorted[b]) /\ sorted[a] \in Index
    BY <1>1 DEF IInv, VectorsInv
  <2>2. elements[sorted[a]] \in Int /\ sorted[a] \in Int
    BY <2>1, Vectors
  <2> QED
    BY <2>1, <2>2 DEF PairLess
<1>2. ASSUME NEW a \in Index, NEW b \in Index, sorted[a] = sorted[b] PROVE a = b
  <2>1. a \in Int /\ b \in Int
    BY Vectors
  <2> QED
    BY <1>1, <1>2, <2>1
<1>3. size \in Nat /\ sorted \in [0 .. size - 1 -> 0 .. size - 1]
  BY DEF IInv, VectorsInv, Index
<1>4. \A a \in 0 .. size - 1 : \E c \in 0 .. size - 1 : sorted[c] = a
  BY <1>2, <1>3, InjectiveIsOnto DEF Index
<1> QED
  BY <1>2, <1>4 DEF Index

\* Elements come in ascending order, equal ones in the order of their positions.
LEMMA SortedAscends ==
  ASSUME IInv, NEW a \in Index, NEW b \in Index
  PROVE  /\ a <= b => elements[sorted[a]] <= elements[sorted[b]]
         /\ elements[sorted[a]] = elements[sorted[b]] => (a < b <=> sorted[a] < sorted[b])
<1>1. /\ a \in Int /\ b \in Int /\ sorted[a] \in Int /\ sorted[b] \in Int
      /\ elements[sorted[a]] \in Int /\ elements[sorted[b]] \in Int
  BY Vectors
<1>2. a < b => PairLess(elements, sorted[a], sorted[b])
  BY DEF IInv, VectorsInv
<1>3. b < a => PairLess(elements, sorted[b], sorted[a])
  BY DEF IInv, VectorsInv
<1> QED
  BY <1>1, <1>2, <1>3 DEF PairLess

\* The occurrences before the c-th pair's are those the merge meets before it.
LEMMA EarlierCount ==
  ASSUME IInv, NEW c \in Index
  PROVE  LET run == {d \in Index : d < c /\ elements[sorted[d]] = elements[sorted[c]]}
         IN  /\ IsFiniteSet(run)
             /\ Cardinality(Earlier(sorted[c], elements)) = Cardinality(run)
<1> DEFINE run == {d \in Index : d < c /\ elements[sorted[d]] = elements[sorted[c]]}
           E   == Earlier(sorted[c], elements)
           f   == [d \in run |-> sorted[d]]
<1>1. IsFiniteSet(run)
  <2>1. IsFiniteSet(Index) /\ run \subseteq Index
    BY Vectors, FS_Interval DEF Index
  <2> HIDE DEF run
  <2> QED
    BY <2>1, FS_Subset
<1>2. \A d \in run : f[d] \in E
  <2> SUFFICES ASSUME NEW d \in run PROVE sorted[d] \in E
    OBVIOUS
  <2>1. d \in Index /\ d < c /\ elements[sorted[d]] = elements[sorted[c]]
    OBVIOUS
  <2>2. sorted[d] < sorted[c] /\ sorted[d] \in Index
    BY <2>1, SortedAscends, Vectors
  <2> QED
    BY <2>1, <2>2, Vectors DEF Earlier, Occurrences
<1>3. \A a, b \in run : f[a] = f[b] => a = b
  BY SortedOnce
<1>4. \A e \in E : \E d \in run : f[d] = e
  <2> SUFFICES ASSUME NEW e \in E PROVE \E d \in run : sorted[d] = e
    OBVIOUS
  <2>1. e \in Index /\ elements[e] = elements[sorted[c]] /\ e < sorted[c]
    BY Vectors DEF Earlier, Occurrences
  <2>2. PICK d \in Index : sorted[d] = e
    BY <2>1, SortedOnce
  <2>3. d < c
    BY <2>1, <2>2, SortedAscends
  <2> QED
    BY <2>1, <2>2, <2>3
<1>5. f \in [run -> E]
  BY <1>2
<1> HIDE DEF run, E, f
<1>6. Cardinality(E) = Cardinality(run)
  BY <1>1, <1>3, <1>4, <1>5, SameCount
<1> QED
  BY <1>1, <1>6 DEF run, E

LEMMA PassedFinite ==
  ASSUME IInv
  PROVE  /\ \A v : /\ IsFiniteSet(PassedFirst(v)) /\ Cardinality(PassedFirst(v)) \in Nat
                   /\ IsFiniteSet(PassedSecond(v)) /\ Cardinality(PassedSecond(v)) \in Nat
         /\ IsFiniteSet(SetupIndex) /\ IsFiniteSet(Index)
<1>1. IsFiniteSet(Index) /\ IsFiniteSet(SetupIndex)
  BY Vectors, FS_Interval DEF Index, SetupIndex
<1>2. ASSUME NEW v
      PROVE  /\ IsFiniteSet(PassedFirst(v)) /\ Cardinality(PassedFirst(v)) \in Nat
             /\ IsFiniteSet(PassedSecond(v)) /\ Cardinality(PassedSecond(v)) \in Nat
  <2>1. PassedFirst(v) \subseteq Index /\ PassedSecond(v) \subseteq SetupIndex
    BY DEF PassedFirst, PassedSecond
  <2> QED
    BY <1>1, <2>1, FS_Subset, FS_CardinalityType
<1> QED
  BY <1>1, <1>2

-----------------------------------------------------------------------------
(***************************************************************************)
(* The steps.  Passing an element adds it to those of its value and leaves *)
(* the other values' alone.                                                *)
(***************************************************************************)
LEMMA VectorsKept ==
  ASSUME IInv, UNCHANGED <<size, elements, encrypted, sorted>>
  PROVE  /\ VectorsInv' /\ SetupSize' = SetupSize
         /\ Index' = Index /\ SetupIndex' = SetupIndex
<1>1. SetupSize' = SetupSize /\ Index' = Index
  BY DEF SetupSize, Index
<1>2. SetupIndex' = SetupIndex
  BY <1>1 DEF SetupIndex
<1> QED
  BY <1>1, <1>2 DEF IInv, VectorsInv

LEMMA FirstPassed ==
  ASSUME IInv, first1 < size, first1' = first1 + 1,
         UNCHANGED <<size, elements, encrypted, sorted>>
  PROVE  /\ first1 \in Index /\ Front \in Value /\ Front \in Int
         /\ \A v : Cardinality(PassedFirst(v)') = Cardinality(PassedFirst(v))
                                                 + (IF v = Front THEN 1 ELSE 0)
<1>1. first1 \in Index /\ first1 \in Nat /\ Index' = Index
  BY Vectors, VectorsKept DEF Index
<1>2. Front \in Value /\ Front \in Int
  BY <1>1, Vectors DEF Front
<1>3. \A c \in Index : c < first1' <=> c < first1 \/ c = first1
  <2>1. \A c \in Index : c \in Int
    BY Vectors
  <2> QED
    BY <1>1, <2>1
<1>4. ASSUME NEW v, v # Front PROVE PassedFirst(v)' = PassedFirst(v)
  BY <1>1, <1>3, <1>4 DEF PassedFirst, Front
<1>5. ASSUME NEW v, v = Front PROVE PassedFirst(v)' = PassedFirst(v) \cup {first1}
  BY <1>1, <1>3, <1>5 DEF PassedFirst, Front
<1>6. \A v : first1 \notin PassedFirst(v)
  BY <1>1 DEF PassedFirst
<1>7. \A v : IsFiniteSet(PassedFirst(v)) /\ Cardinality(PassedFirst(v)) \in Nat
  BY PassedFinite
<1>8. \A v : Cardinality(PassedFirst(v)') = Cardinality(PassedFirst(v))
                                           + (IF v = Front THEN 1 ELSE 0)
  BY <1>4, <1>5, <1>6, <1>7, FS_AddElement
<1> QED
  BY <1>1, <1>2, <1>8

LEMMA SecondPassed ==
  ASSUME IInv, first2 < SetupSize, first2' = first2 + 1,
         UNCHANGED <<size, elements, encrypted, sorted>>
  PROVE  /\ first2 \in SetupIndex /\ encrypted[first2] \in Value /\ encrypted[first2] \in Int
         /\ \A v : Cardinality(PassedSecond(v)') = Cardinality(PassedSecond(v))
                                                  + (IF v = encrypted[first2] THEN 1 ELSE 0)
<1>1. first2 \in SetupIndex /\ first2 \in Nat /\ SetupIndex' = SetupIndex
  BY Vectors, VectorsKept DEF SetupIndex
<1>2. encrypted[first2] \in Value /\ encrypted[first2] \in Int
  BY <1>1, Vectors
<1>3. \A b \in SetupIndex : b < first2' <=> b < first2 \/ b = first2
  <2>1. \A b \in SetupIndex : b \in Int
    BY Vectors
  <2> QED
    BY <1>1, <2>1
<1>4. ASSUME NEW v, v # encrypted[first2] PROVE PassedSecond(v)' = PassedSecond(v)
  BY <1>1, <1>3, <1>4 DEF PassedSecond
<1>5. ASSUME NEW v, v = encrypted[first2]
      PROVE  PassedSecond(v)' = PassedSecond(v) \cup {first2}
  BY <1>1, <1>3, <1>5 DEF PassedSecond
<1>6. \A v : first2 \notin PassedSecond(v)
  BY <1>1 DEF PassedSecond
<1>7. \A v : IsFiniteSet(PassedSecond(v)) /\ Cardinality(PassedSecond(v)) \in Nat
  BY PassedFinite
<1>8. \A v : Cardinality(PassedSecond(v)') = Cardinality(PassedSecond(v))
                                            + (IF v = encrypted[first2] THEN 1 ELSE 0)
  BY <1>4, <1>5, <1>6, <1>7, FS_AddElement, SMTT(60)
<1> QED
  BY <1>1, <1>2, <1>8

\* What the setup holds of a value ahead of which it has passed is passed.
LEMMA AllPassed ==
  ASSUME IInv, Ascending(encrypted), NEW v \in Value,
         first2 < SetupSize => v < encrypted[first2]
  PROVE  Occurrences(v, encrypted) = PassedSecond(v)
<1>1. ASSUME NEW b \in SetupIndex, encrypted[b] = v PROVE b < first2
  <2>1. b \in Int /\ first2 \in Nat /\ SetupSize \in Nat /\ DOMAIN encrypted = SetupIndex
        /\ b < SetupSize /\ v \in Int
    BY <1>1, Vectors DEF SetupIndex
  <2>2. ASSUME first2 <= b PROVE FALSE
    <3>1. first2 \in SetupIndex /\ first2 < SetupSize
      BY <2>1, <2>2 DEF SetupIndex
    <3>2. encrypted[first2] <= v /\ encrypted[first2] \in Int
      BY <1>1, <2>1, <2>2, <3>1, Vectors DEF Ascending
    <3> QED
      BY <2>1, <3>1, <3>2
  <2> QED
    BY <2>1, <2>2
<1>2. DOMAIN encrypted = SetupIndex
  BY Vectors
<1> QED
  BY <1>1, <1>2 DEF Occurrences, PassedSecond

\* The occurrences before the front pair's are those of its value passed.
LEMMA FrontCount ==
  ASSUME IInv, first1 < size
  PROVE  Cardinality(Earlier(sorted[first1], elements)) = Cardinality(PassedFirst(Front))
<1>1. first1 \in Index
  BY Vectors DEF Index
<1> QED
  BY <1>1, EarlierCount DEF PassedFirst, Front

LEMMA FrontNotTaken ==
  ASSUME IInv, first1 < size
  PROVE  ~ Taken(sorted[first1])
<1> SUFFICES ASSUME NEW p \in 1 .. Len(res), res[p] = sorted[first1] PROVE FALSE
  BY DEF Taken
<1>1. PICK c \in Index : c < first1 /\ res[p] = sorted[c]
  BY DEF IInv, TakenOnce
<1>2. first1 \in Index
  BY Vectors DEF Index
<1>3. c = first1
  BY <1>1, <1>2, SortedOnce
<1> QED
  BY <1>1, <1>2, <1>3, Vectors

\* Both sides ascend: the response always, the setup if it came that way.
LEMMA FrontAscends ==
  ASSUME IInv, first1 < size, first1' = first1 + 1, first1' < size,
         UNCHANGED <<elements, sorted>>
  PROVE  Front <= Front' /\ Front' \in Int
<1>1. first1 \in Index /\ first1' \in Index /\ first1 <= first1'
  BY Vectors DEF Index
<1>2. Front' = elements[sorted[first1']]
  BY DEF Front
<1>3. elements[sorted[first1']] \in Int
  BY <1>1, Vectors
<1>4. Front <= elements[sorted[first1']]
  BY <1>1, SortedAscends DEF Front
<1> QED
  BY <1>2, <1>3, <1>4

LEMMA SetupAscends ==
  ASSUME IInv, Ascending(encrypted), first2 < SetupSize, first2 + 1 < SetupSize
  PROVE  encrypted[first2] <= encrypted[first2 + 1] /\ encrypted[first2 + 1] \in Int
<1>1. first2 \in SetupIndex /\ first2 + 1 \in SetupIndex /\ first2 <= first2 + 1
  BY Vectors DEF SetupIndex
<1>2. DOMAIN encrypted = SetupIndex
  BY Vectors
<1> QED
  BY <1>1, <1>2, Vectors DEF Ascending

\* Over a strictly ascending setup nothing passed is equal to what is ahead:
\* a position passed without a hit is not hit later, nor was it before.
LEMMA AheadIsFresh ==
  ASSUME IInv, StrictlyAscending(encrypted), NEW b \in SetupIndex, first2 <= b
  PROVE  PassedSecond(encrypted[b]) = {} /\ Ascending(encrypted)
<1>1. DOMAIN encrypted = SetupIndex /\ \A a \in SetupIndex : encrypted[a] \in Int /\ a \in Int
  BY Vectors
<1>2. ASSUME NEW a \in SetupIndex, a < first2 PROVE encrypted[a] # encrypted[b]
  <2>1. a < b
    BY <1>1, <1>2, Vectors
  <2>2. encrypted[a] < encrypted[b]
    BY <1>1, <2>1 DEF StrictlyAscending
  <2> QED
    BY <1>1, <2>2
<1>3. ASSUME NEW a \in SetupIndex, NEW c \in SetupIndex, a <= c
      PROVE  encrypted[a] <= encrypted[c]
  BY <1>1, <1>3 DEF StrictlyAscending
<1> QED
  BY <1>1, <1>2, <1>3 DEF PassedSecond, Ascending

\* ... so that no element passed on the first side is equal to it.
LEMMA AheadIsUnmet ==
  ASSUME IInv, StrictlyAscending(encrypted), NEW b \in SetupIndex, first2 <= b
  PROVE  \A c \in Index : c < first1 => elements[sorted[c]] # encrypted[b]
<1>1. PassedSecond(encrypted[b]) = {} /\ Ascending(encrypted)
  BY AheadIsFresh
<1>2. /\ b \in Int /\ first2 \in Nat /\ first2 < SetupSize /\ first2 \in SetupIndex
      /\ encrypted[b] \in Value /\ encrypted[first2] <= encrypted[b]
      /\ encrypted[b] \in Int /\ encrypted[first2] \in Int
  <2>1. b \in Int /\ first2 \in Nat /\ SetupSize \in Nat /\ b < SetupSize
    BY Vectors DEF SetupIndex
  <2>2. first2 \in SetupIndex /\ first2 < SetupSize
    BY <2>1 DEF SetupIndex
  <2> QED
    BY <1>1, <2>1, <2>2, Vectors DEF Ascending
<1>3. Cardinality(PassedFirst(encrypted[b])) <= Cardinality(PassedSecond(encrypted[b]))
  BY <1>1, <1>2 DEF IInv, LevelInv
<1>4. Cardinality(PassedFirst(encrypted[b])) = 0
  BY <1>1, <1>3, PassedFinite, FS_EmptySet
<1>5. PassedFirst(encrypted[b]) = {}
  BY <1>4, PassedFinite, FS_EmptySet
<1> QED
  BY <1>5 DEF PassedFirst

-----------------------------------------------------------------------------
LEMMA AdvanceFirstInv ==
  ASSUME IInv, AdvanceFirst
  PROVE  IInv'
<1>1. /\ first1 < size /\ first2 < SetupSize /\ Front < encrypted[first2]
      /\ first1' = first1 + 1 /\ ~ done
      /\ UNCHANGED <<size, elements, encrypted, sorted, first2, res, done>>
  BY DEF AdvanceFirst, InBoth, IInv, PlaceInv
<1>2. /\ VectorsInv' /\ SetupSize' = SetupSize
      /\ Index' = Index /\ SetupIndex' = SetupIndex
  BY <1>1, VectorsKept
<1>3. /\ first1 \in Index /\ Front \in Value /\ Front \in Int
      /\ \A v : Cardinality(PassedFirst(v)') = Cardinality(PassedFirst(v))
                                              + (IF v = Front THEN 1 ELSE 0)
  BY <1>1, FirstPassed
<1>4. /\ first1 \in Nat /\ size \in Nat /\ first2 \in SetupIndex
      /\ encrypted[first2] \in Int /\ encrypted[first2] \in Value
  BY <1>1, Vectors DEF SetupIndex
<1>5. PlaceInv'
  BY <1>1, <1>2, <1>4 DEF IInv, PlaceInv
<1>6. \A c \in Index : c \in Int /\ (c < first1' <=> c < first1 \/ c = first1)
  <2>1. \A c \in Index : c \in Int
    BY Vectors
  <2> QED
    BY <1>1, <1>4, <2>1
<1>7. TakenOnce'
  BY <1>1, <1>2, <1>6 DEF IInv, TakenOnce
<1>8. LevelInv'
  <2> SUFFICES ASSUME Ascending(encrypted)
               PROVE  /\ first1' < size =>
                           \A v \in Value : v >= Front' =>
                             Cardinality(PassedSecond(v)') <= Cardinality(PassedFirst(v)')
                      /\ \A v \in Value : v >= encrypted[first2] =>
                           Cardinality(PassedFirst(v)') <= Cardinality(PassedSecond(v)')
    BY <1>1, <1>2 DEF LevelInv
  <2>1. \A v : PassedSecond(v)' = PassedSecond(v)
    BY <1>1, <1>2 DEF PassedSecond
  <2>2. \A v : Cardinality(PassedFirst(v)) \in Nat /\ Cardinality(PassedSecond(v)) \in Nat
    BY PassedFinite
  <2>3. first1' < size => Front <= Front' /\ Front' \in Int
    BY <1>1, FrontAscends
  <2>4. ASSUME first1' < size, NEW v \in Value, v >= Front'
        PROVE  Cardinality(PassedSecond(v)') <= Cardinality(PassedFirst(v)')
    <3>1. v >= Front /\ v \in Int
      BY <1>3, <2>3, <2>4, RawIntersectAssumption
    <3>2. Cardinality(PassedSecond(v)) <= Cardinality(PassedFirst(v))
      BY <1>1, <2>4, <3>1 DEF IInv, LevelInv
    <3> QED
      BY <1>3, <2>1, <2>2, <3>2
  <2>5. ASSUME NEW v \in Value, v >= encrypted[first2]
        PROVE  Cardinality(PassedFirst(v)') <= Cardinality(PassedSecond(v)')
    <3>1. v # Front /\ v \in Int
      BY <1>1, <1>3, <1>4, <2>5, RawIntersectAssumption
    <3>2. Cardinality(PassedFirst(v)) <= Cardinality(PassedSecond(v))
      BY <1>1, <2>5 DEF IInv, LevelInv
    <3> QED
      BY <1>3, <2>1, <2>2, <3>1, <3>2
  <2> QED
    BY <2>4, <2>5
<1>9. ChosenInv'
  <2> SUFFICES ASSUME Ascending(encrypted), NEW c \in Index, c < first1'
               PROVE  Taken(sorted[c]) <=> sorted[c] \in CommonPositions(elements, encrypted)
    BY <1>1, <1>2 DEF ChosenInv, Taken
  <2>1. CASE c < first1
    BY <2>1 DEF IInv, ChosenInv
  <2>2. CASE c = first1
    <3>1. ~ Taken(sorted[c])
      BY <1>1, <2>2, FrontNotTaken
    <3>2. Occurrences(Front, encrypted) = PassedSecond(Front)
      BY <1>1, <1>3, AllPassed
    <3>3. Cardinality(PassedSecond(Front)) <= Cardinality(PassedFirst(Front))
      BY <1>1, <1>3 DEF IInv, LevelInv
    <3>4. Cardinality(Earlier(sorted[c], elements)) = Cardinality(PassedFirst(Front))
      BY <1>1, <2>2, FrontCount
    <3>5. Cardinality(PassedFirst(Front)) \in Nat /\ Cardinality(PassedSecond(Front)) \in Nat
      BY PassedFinite
    <3>6. elements[sorted[c]] = Front
      BY <2>2 DEF Front
    <3>7. sorted[c] \notin CommonPositions(elements, encrypted)
      BY <3>2, <3>3, <3>4, <3>5, <3>6 DEF CommonPositions
    <3> QED
      BY <3>1, <3>7
  <2> QED
    BY <1>6, <2>1, <2>2
<1>10. CountInv'
  BY <1>1, <1>2 DEF IInv, CountInv, HitsPassed
<1> QED
  BY <1>2, <1>5, <1>7, <1>8, <1>9, <1>10 DEF IInv

LEMMA TakeBothInv ==
  ASSUME IInv, TakeBoth
  PROVE  IInv'
<1>1. /\ first1 < size /\ first2 < SetupSize /\ Front = encrypted[first2]
      /\ first1' = first1 + 1 /\ first2' = first2 + 1 /\ ~ done
      /\ res' = Append(res, sorted[first1])
      /\ UNCHANGED <<size, elements, encrypted, sorted, done>>
  BY DEF TakeBoth, InBoth, NextSetup, PositionOfFront, IInv, PlaceInv
<1>2. /\ VectorsInv' /\ SetupSize' = SetupSize
      /\ Index' = Index /\ SetupIndex' = SetupIndex
  BY <1>1, VectorsKept
<1>3. /\ first1 \in Index /\ Front \in Value /\ Front \in Int
      /\ \A v : Cardinality(PassedFirst(v)') = Cardinality(PassedFirst(v))
                                              + (IF v = Front THEN 1 ELSE 0)
  BY <1>1, FirstPassed
<1>4. /\ first2 \in SetupIndex
      /\ \A v : Cardinality(PassedSecond(v)') = Cardinality(PassedSecond(v))
                                               + (IF v = Front THEN 1 ELSE 0)
  BY <1>1, SecondPassed
<1>5. /\ first1 \in Nat /\ size \in Nat /\ first2 \in Nat /\ SetupSize \in Nat
      /\ sorted[first1] \in Index
  BY <1>3, Vectors
<1>6. PlaceInv'
  BY <1>1, <1>2, <1>5 DEF IInv, PlaceInv
<1>7. \A c \in Index : c \in Int /\ (c < first1' <=> c < first1 \/ c = first1)
  <2>1. \A c \in Index : c \in Int
    BY Vectors
  <2> QED
    BY <1>1, <1>5, <2>1
<1>8. /\ res' \in Seq(Index) /\ Len(res) \in Nat /\ Len(res') = Len(res) + 1
      /\ \A p \in 1 .. Len(res) : res'[p] = res[p]
      /\ res'[Len(res) + 1] = sorted[first1]
      /\ \A p \in 1 .. Len(res') : p \in 1 .. Len(res) \/ p = Len(res) + 1
  BY <1>1, <1>5 DEF IInv, TakenOnce
<1>9. \A a : (\E p \in 1 .. Len(res') : res'[p] = a) <=> Taken(a) \/ a = sorted[first1]
  BY <1>8 DEF Taken
<1>10. TakenOnce'
  <2>1. ASSUME NEW p \in 1 .. Len(res')
        PROVE  /\ \E c \in Index : c < first1' /\ res'[p] = sorted[c]
               /\ \E b \in SetupIndex : elements[res'[p]] = encrypted[b]
    <3>1. CASE p \in 1 .. Len(res)
      BY <1>7, <1>8, <3>1, SMTT(60) DEF IInv, TakenOnce
    <3>2. CASE p = Len(res) + 1
      BY <1>1, <1>3, <1>4, <1>7, <1>8, <3>2 DEF Front
    <3> QED
      BY <1>8, <3>1, <3>2
  <2>2. ~ Taken(sorted[first1])
    BY <1>1, FrontNotTaken
  <2>3. ASSUME NEW p \in 1 .. Len(res'), NEW q \in 1 .. Len(res'), p # q
        PROVE  res'[p] # res'[q]
    BY <1>8, <2>2, <2>3 DEF IInv, TakenOnce, Taken
  <2> QED
    BY <1>1, <1>2, <1>8, <2>1, <2>3 DEF TakenOnce
<1>11. LevelInv'
  <2> SUFFICES ASSUME Ascending(encrypted)
               PROVE  /\ first1' < size =>
                           \A v \in Value : v >= Front' =>
                             Cardinality(PassedSecond(v)') <= Cardinality(PassedFirst(v)')
                      /\ first2' < SetupSize =>
                           \A v \in Value : v >= encrypted[first2 + 1] =>
                             Cardinality(PassedFirst(v)') <= Cardinality(PassedSecond(v)')
    BY <1>1, <1>2 DEF LevelInv
  <2>1. \A v : Cardinality(PassedFirst(v)) \in Nat /\ Cardinality(PassedSecond(v)) \in Nat
    BY PassedFinite
  <2>2. ASSUME first1' < size, NEW v \in Value, v >= Front'
        PROVE  Cardinality(PassedSecond(v)') <= Cardinality(PassedFirst(v)')
    <3>1. v >= Front
      BY <1>1, <1>3, <2>2, FrontAscends, RawIntersectAssumption
    <3>2. Cardinality(PassedSecond(v)) <= Cardinality(PassedFirst(v))
      BY <1>1, <3>1 DEF IInv, LevelInv
    <3> QED
      BY <1>3, <1>4, <2>1, <3>2
  <2>3. ASSUME first2' < SetupSize, NEW v \in Value, v >= encrypted[first2 + 1]
        PROVE  Cardinality(PassedFirst(v)') <= Cardinality(PassedSecond(v)')
    <3>1. v >= encrypted[first2]
      BY <1>1, <1>3, <2>3, SetupAscends, RawIntersectAssumption
    <3>2. Cardinality(PassedFirst(v)) <= Cardinality(PassedSecond(v))
      BY <1>1, <3>1 DEF IInv, LevelInv
    <3> QED
      BY <1>3, <1>4, <2>1, <3>2
  <2> QED
    BY <2>2, <2>3
<1>12. ChosenInv'
  <2> SUFFICES ASSUME Ascending(encrypted), NEW c \in Index, c < first1'
               PROVE  (\E p \in 1 .. Len(res') : res'[p] = sorted[c])
                        <=> sorted[c] \in CommonPositions(elements, encrypted)
    BY <1>1, <1>2 DEF ChosenInv, Taken
  <2>1. CASE c < first1
    <3>1. sorted[c] # sorted[first1]
      BY <1>3, <1>5, <2>1, SortedOnce
    <3> QED
      BY <1>9, <2>1, <3>1 DEF IInv, ChosenInv
  <2>2. CASE c = first1
    <3> DEFINE O == Occurrences(Front, encrypted)
    <3>1. Cardinality(Earlier(sorted[c], elements)) = Cardinality(PassedFirst(Front))
      BY <1>1, <2>2, FrontCount
    <3>2. Cardinality(PassedFirst(Front)) <= Cardinality(PassedSecond(Front))
      BY <1>1, <1>3 DEF IInv, LevelInv
    <3>3. PassedSecond(Front) \subseteq O /\ first2 \in O /\ first2 \notin PassedSecond(Front)
          /\ O \subseteq SetupIndex
      BY <1>1, <1>4, <1>5, Vectors DEF Occurrences, PassedSecond
    <3>4. IsFiniteSet(O) /\ Cardinality(O) \in Nat
      <4> HIDE DEF O
      <4> QED
        BY <3>3, PassedFinite, FS_Subset, FS_CardinalityType
    <3>5. Cardinality(PassedSecond(Front)) < Cardinality(O)
      <4> HIDE DEF O
      <4>1. Cardinality(PassedSecond(Front)) <= Cardinality(O)
            /\ Cardinality(PassedSecond(Front)) # Cardinality(O)
        BY <3>3, <3>4, FS_Subset
      <4> QED
        BY <3>4, <4>1, PassedFinite
    <3>6. elements[sorted[c]] = Front /\ sorted[c] \in DOMAIN elements
      BY <1>5, <2>2, Vectors DEF Front
    <3>7. Cardinality(Earlier(sorted[c], elements)) < Cardinality(O)
      BY <3>1, <3>2, <3>4, <3>5, PassedFinite
    <3> QED
      BY <1>9, <2>2, <3>6, <3>7 DEF CommonPositions
  <2> QED
    BY <1>7, <2>1, <2>2
<1>13. CountInv'
  <2> SUFFICES ASSUME StrictlyAscending(encrypted)
               PROVE  Len(res') = Cardinality(HitsPassed')
    BY <1>1 DEF CountInv
  <2>1. \A b \in SetupIndex : b < first2' <=> b < first2 \/ b = first2
    <3>1. \A b \in SetupIndex : b \in Int
      BY Vectors
    <3> QED
      BY <1>1, <1>5, <3>1
  <2>2. \E a \in Index : elements[a] = encrypted[first2]
    BY <1>1, <1>5 DEF Front
  <2>3. HitsPassed' = HitsPassed \cup {first2} /\ first2 \notin HitsPassed
    <3>1. HitsPassed' = {b \in SetupIndex :
                           b < first2' /\ \E a \in Index : elements[a] = encrypted[b]}
      BY <1>1, <1>2 DEF HitsPassed
    <3>2. first2 \notin HitsPassed
      BY <1>5 DEF HitsPassed
    <3>3. \A b \in SetupIndex :
            b < first2' /\ (\E a \in Index : elements[a] = encrypted[b])
              <=> b \in HitsPassed \cup {first2}
      BY <1>4, <2>1, <2>2 DEF HitsPassed
    <3>4. HitsPassed \cup {first2} \subseteq SetupIndex
      BY <1>4 DEF HitsPassed
    <3> QED
      BY <3>1, <3>2, <3>3, <3>4, Zenon
  <2>4. IsFiniteSet(HitsPassed)
    <3>1. HitsPassed \subseteq SetupIndex
      BY DEF HitsPassed
    <3> QED
      BY <3>1, PassedFinite, FS_Subset
  <2>5. Len(res) = Cardinality(HitsPassed)
    BY DEF IInv, CountInv
  <2>6. Cardinality(HitsPassed') = Cardinality(HitsPassed) + 1
    BY <2>3, <2>4, FS_AddElement
  <2> QED
    BY <1>8, <2>5, <2>6
<1> QED
  BY <1>2, <1>6, <1>10, <1>11, <1>12, <1>13 DEF IInv

LEMMA AdvanceSecondInv ==
  ASSUME IInv, AdvanceSecond
  PROVE  IInv'
<1>1. /\ first1 < size /\ first2 < SetupSize /\ Front > encrypted[first2]
      /\ first2' = first2 + 1 /\ ~ done
      /\ UNCHANGED <<size, elements, encrypted, sorted, first1, res, done>>
  BY DEF AdvanceSecond, InBoth, Passed, IInv, PlaceInv
<1>2. /\ VectorsInv' /\ SetupSize' = SetupSize
      /\ Index' = Index /\ SetupIndex' = SetupIndex
  BY <1>1, VectorsKept
<1>3. /\ first2 \in SetupIndex /\ encrypted[first2] \in Value /\ encrypted[first2] \in Int
      /\ \A v : Cardinality(PassedSecond(v)') = Cardinality(PassedSecond(v))
                                               + (IF v = encrypted[first2] THEN 1 ELSE 0)
  BY <1>1, SecondPassed
<1>4. /\ first1 \in Index /\ first2 \in Nat /\ SetupSize \in Nat /\ Front \in Int
  BY <1>1, Vectors DEF Index, Front
<1>5. PlaceInv'
  BY <1>1, <1>2, <1>4 DEF IInv, PlaceInv
<1>6. TakenOnce'
  BY <1>1, <1>2 DEF IInv, TakenOnce
<1>7. LevelInv'
  <2> SUFFICES ASSUME Ascending(encrypted)
               PROVE  /\ \A v \in Value : v >= Front =>
                           Cardinality(PassedSecond(v)') <= Cardinality(PassedFirst(v)')
                      /\ first2' < SetupSize =>
                           \A v \in Value : v >= encrypted[first2 + 1] =>
                             Cardinality(PassedFirst(v)') <= Cardinality(PassedSecond(v)')
    BY <1>1, <1>2 DEF LevelInv, Front
  <2>1. \A v : /\ PassedFirst(v)' = PassedFirst(v)
               /\ Cardinality(PassedFirst(v)) \in Nat /\ Cardinality(PassedSecond(v)) \in Nat
    BY <1>1, <1>2, PassedFinite DEF PassedFirst
  <2>2. ASSUME NEW v \in Value, v >= Front
        PROVE  Cardinality(PassedSecond(v)') <= Cardinality(PassedFirst(v)')
    <3>1. v # encrypted[first2]
      BY <1>1, <1>3, <1>4, <2>2, RawIntersectAssumption
    <3>2. Cardinality(PassedSecond(v)) <= Cardinality(PassedFirst(v))
      BY <1>1, <2>2 DEF IInv, LevelInv
    <3> QED
      BY <1>3, <2>1, <3>1, <3>2
  <2>3. ASSUME first2' < SetupSize, NEW v \in Value, v >= encrypted[first2 + 1]
        PROVE  Cardinality(PassedFirst(v)') <= Cardinality(PassedSecond(v)')
    <3>1. v >= encrypted[first2]
      BY <1>1, <1>3, <2>3, SetupAscends, RawIntersectAssumption
    <3>2. Cardinality(PassedFirst(v)) <= Cardinality(PassedSecond(v))
      BY <1>1, <3>1 DEF IInv, LevelInv
    <3> QED
      BY <1>3, <2>1, <3>2
  <2> QED
    BY <2>2, <2>3
<1>8. ChosenInv'
  BY <1>1, <1>2 DEF IInv, ChosenInv, Taken
<1>9. CountInv'
  <2> SUFFICES ASSUME StrictlyAscending(encrypted)
               PROVE  Len(res) = Cardinality(HitsPassed')
    BY <1>1 DEF CountInv
  <2>1. \A b \in SetupIndex : b < first2' <=> b < first2 \/ b = first2
    <3>1. \A b \in SetupIndex : b \in Int
      BY Vectors
    <3> QED
      BY <1>1, <1>4, <3>1
  <2>2. ASSUME NEW a \in Index, elements[a] = encrypted[first2] PROVE FALSE
    <3>1. PICK c \in Index : sorted[c] = a
      BY SortedOnce
    <3>2. \A d \in Index : d < first1 => elements[sorted[d]] # encrypted[first2]
      BY <1>3, <1>4, AheadIsUnmet
    <3>3. c \in Int /\ first1 \in Int /\ ~ (c < first1)
      BY <2>2, <3>1, <3>2, Vectors
    <3>4. Front <= elements[sorted[c]]
      BY <1>4, <3>3, SortedAscends DEF Front
    <3> QED
      BY <1>1, <1>3, <1>4, <2>2, <3>1, <3>4
  <2>3. HitsPassed' = HitsPassed
    BY <1>1, <1>2, <2>1, <2>2 DEF HitsPassed
  <2> QED
    BY <2>3 DEF IInv, CountInv
<1> QED
  BY <1>2, <1>5, <1>6, <1>7, <1>8, <1>9 DEF IInv

LEMMA FinishInv ==
  ASSUME IInv, Finish \/ UNCHANGED vars
  PROVE  IInv'
<1>1. /\ UNCHANGED <<size, elements, encrypted, sorted, first1, first2, res>>
      /\ done' => ~ InBoth
  BY DEF Finish, vars, IInv, PlaceInv
<1>2. /\ VectorsInv' /\ SetupSize' = SetupSize
      /\ Index' = Index /\ SetupIndex' = SetupIndex
  BY <1>1, VectorsKept
<1>3. PlaceInv'
  BY <1>1, <1>2 DEF IInv, PlaceInv, InBoth
<1>4. TakenOnce'
  BY <1>1, <1>2 DEF IInv, TakenOnce
<1>5. LevelInv'
  BY <1>1, <1>2 DEF IInv, LevelInv, PassedFirst, PassedSecond, Front
<1>6. ChosenInv' /\ CountInv'
  BY <1>1, <1>2 DEF IInv, ChosenInv, Taken, CountInv, HitsPassed
<1> QED
  BY <1>2, <1>3, <1>4, <1>5, <1>6 DEF IInv

LEMMA InitInv == Init => IInv
<1> SUFFICES ASSUME Init PROVE IInv
  OBVIOUS
<1>1. size \in Nat /\ elements \in [Index -> Value] /\ Value \subseteq Int
  BY RawIntersectAssumption DEF Init
<1>2. PICK m \in SetupSizes : encrypted \in [0 .. m - 1 -> Value]
  BY DEF Init
<1>3. m \in Nat /\ SetupSize = m /\ SetupIndex = 0 .. m - 1
  <2>1. m \in Nat /\ DOMAIN encrypted = 0 .. m - 1
    BY <1>2, RawIntersectAssumption
  <2>2. Cardinality(0 .. m - 1) = m
    BY <2>1, FS_Interval
  <2> QED
    BY <2>1, <2>2 DEF SetupSize, SetupIndex
<1>4. /\ sorted \in [Index -> Index]
      /\ \A a, b \in Index : a < b => PairLess(elements, sorted[a], sorted[b])
  <2>1. elements \in [0 .. size - 1 -> Int]
    BY <1>1 DEF Index
  <2>2. \E p \in [0 .. size - 1 -> 0 .. size - 1] :
          \A a, b \in 0 .. size - 1 : a < b => PairLess(elements, p[a], p[b])
    BY <1>1, <2>1, SortedPairsExist
  <2>3. sorted = SortedPairs(elements, size)
    BY DEF Init
  <2> QED
    BY <2>2, <2>3 DEF SortedPairs, Index
<1>5. VectorsInv
  BY <1>1, <1>2, <1>3, <1>4 DEF VectorsInv
<1>6. first1 = 0 /\ first2 = 0 /\ res = << >> /\ done = FALSE
  BY DEF Init
<1>7. PlaceInv /\ TakenOnce
  BY <1>1, <1>3, <1>6 DEF PlaceInv, TakenOnce
<1>8. \A v : PassedFirst(v) = {} /\ PassedSecond(v) = {}
  BY <1>3, <1>6 DEF PassedFirst, PassedSecond, Index
<1>9. LevelInv
  BY <1>8, FS_EmptySet DEF LevelInv
<1>10. ChosenInv
  BY <1>6 DEF ChosenInv, Index
<1>11. HitsPassed = {}
  BY <1>3, <1>6 DEF HitsPassed
<1>12. CountInv
  BY <1>6, <1>11, FS_EmptySet DEF CountInv
<1> QED
  BY <1>5, <1>7, <1>9, <1>10, <1>12 DEF IInv

LEMMA Invariance == Spec => []IInv
<1>1. IInv /\ [Next]_vars => IInv'
  BY AdvanceFirstInv, TakeBothInv, AdvanceSecondInv, FinishInv DEF Next
<1> QED
  BY <1>1, InitInv, PTL DEF Spec

-----------------------------------------------------------------------------
(***************************************************************************)
(* When the merge ends, what it has not passed has nothing to meet.        *)
(***************************************************************************)
LEMMA ExactFromInv ==
  ASSUME IInv
  PROVE  IntersectionIsExact
<1>1. NoFalsePosition
  <2>1. DOMAIN encrypted = SetupIndex
    BY Vectors
  <2> QED
    BY <2>1 DEF IInv, TakenOnce, NoFalsePosition
<1>2. ASSUME done, Ascending(encrypted)
      PROVE  {res[p] : p \in 1 .. Len(res)} = CommonPositions(elements, encrypted)
  <2>1. first1 = size \/ first2 = SetupSize
    BY <1>2, Vectors DEF IInv, PlaceInv, InBoth
  <2>2. ASSUME NEW c \in Index, ~ (c < first1)
        PROVE  ~ Taken(sorted[c]) /\ sorted[c] \notin CommonPositions(elements, encrypted)
    <3> DEFINE v   == elements[sorted[c]]
               run == {d \in Index : d < c /\ elements[sorted[d]] = elements[sorted[c]]}
    <3>1. c \in Int /\ first1 \in Nat /\ size \in Nat /\ first1 <= c /\ c < size
      BY <2>2, Vectors DEF Index
    <3>2. first1 < size /\ first1 \in Index /\ ~ (first2 < SetupSize)
      BY <2>1, <3>1, Vectors DEF Index
    <3>3. ~ Taken(sorted[c])
      <4> SUFFICES ASSUME NEW p \in 1 .. Len(res), res[p] = sorted[c] PROVE FALSE
        BY DEF Taken
      <4>1. PICK d \in Index : d < first1 /\ res[p] = sorted[d]
        BY DEF IInv, TakenOnce
      <4> QED
        BY <2>2, <4>1, SortedOnce
    <3>4. v \in Value /\ Front <= v
      BY <3>1, <3>2, SortedAscends, Vectors DEF Front
    <3>5. Occurrences(v, encrypted) = PassedSecond(v)
      <4> HIDE DEF v
      <4> QED
        BY <1>2, <3>2, <3>4, AllPassed
    <3>6. Cardinality(PassedSecond(v)) <= Cardinality(PassedFirst(v))
      <4>1. v >= Front
        BY <3>4
      <4> HIDE DEF v
      <4> QED
        BY <1>2, <3>2, <3>4, <4>1 DEF IInv, LevelInv
    <3>7. IsFiniteSet(run) /\ Cardinality(Earlier(sorted[c], elements)) = Cardinality(run)
      BY EarlierCount
    <3>8. PassedFirst(v) \subseteq run
      <4>1. \A d \in Index : d \in Int /\ (d < first1 => d < c)
        BY <3>1, Vectors
      <4> QED
        BY <4>1 DEF PassedFirst
    <3> HIDE DEF run
    <3>9. Cardinality(PassedFirst(v)) <= Cardinality(run)
      BY <3>7, <3>8, FS_Subset
    <3>10. Cardinality(run) \in Nat
      BY <3>7, FS_CardinalityType
    <3>11. Cardinality(Occurrences(v, encrypted)) <= Cardinality(Earlier(sorted[c], elements))
           /\ Cardinality(Occurrences(v, encrypted)) \in Nat
           /\ Cardinality(Earlier(sorted[c], elements)) \in Nat
      <4> HIDE DEF v
      <4> QED
        BY <3>5, <3>6, <3>7, <3>9, <3>10, PassedFinite
    <3> QED
      BY <3>3, <3>11 DEF CommonPositions
  <2>3. \A c \in Index : Taken(sorted[c]) <=> sorted[c] \in CommonPositions(elements, encrypted)
    BY <1>2, <2>2 DEF IInv, ChosenInv
  <2>4. \A a \in Index : Taken(a) <=> a \in CommonPositions(elements, encrypted)
    BY <2>3, SortedOnce
  <2>5. CommonPositions(elements, encrypted) \subseteq Index
    BY Vectors DEF CommonPositions
  <2>6. \A p \in 1 .. Len(res) : res[p] \in Index
    BY DEF IInv, TakenOnce
  <2> QED
    BY <2>4, <2>5, <2>6 DEF Taken
<1>3. ASSUME done, StrictlyAscending(encrypted)
      PROVE  Len(res) = Cardinality(HitPositions(elements, encrypted))
  <2>1. first1 = size \/ first2 = SetupSize
    BY <1>3, Vectors DEF IInv, PlaceInv, InBoth
  <2>2. ASSUME NEW b \in SetupIndex, NEW a \in Index, elements[a] = encrypted[b]
        PROVE  b < first2
    <3> SUFFICES ASSUME ~ (b < first2) PROVE FALSE
      OBVIOUS
    <3>1. b \in Int /\ first2 \in Nat /\ first2 <= b /\ b < SetupSize /\ SetupSize \in Nat
      BY Vectors DEF SetupIndex
    <3>2. first1 = size
      BY <2>1, <3>1
    <3>3. PICK c \in Index : sorted[c] = a
      BY SortedOnce
    <3>4. c < first1
      BY <3>2, Vectors DEF Index
    <3> QED
      BY <1>3, <2>2, <3>1, <3>3, <3>4, AheadIsUnmet
  <2>3. HitPositions(elements, encrypted) = HitsPassed
    <3>1. DOMAIN elements = Index /\ DOMAIN encrypted = SetupIndex
      BY Vectors
    <3> QED
      BY <2>2, <3>1 DEF HitPositions, HitsPassed
  <2> QED
    BY <1>3, <2>3 DEF IInv, CountInv
<1> QED
  BY <1>1, <1>2, <1>3 DEF IntersectionIsExact

\* For a response and a setup of any length and in any order: no false position
\* is reported and none twice; over an ascending setup exactly the common
\* positions are, and over a strictly ascending one as many as there are hits.
THEOREM IntersectionCorrect == Spec => []IntersectionIsExact
  BY ExactFromInv, Invariance, PTL
=============================================================================
