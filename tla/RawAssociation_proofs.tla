----------------------- MODULE RawAssociation_proofs -----------------------
(***************************************************************************)
(* Raw::GetAssociationTable for vectors of any length: first its cycle     *)
(* sort (RawSort), then its join (RawAssociation).                         *)
(***************************************************************************)
EXTENDS RawAssociation, FiniteSetTheorems, TLAPS

(***************************************************************************)
(* The sort.  The positions already in place are the visited ones and      *)
(* those below i.  What makes the cycle sort work is that they are closed  *)
(* under the permutation: inside a cycle, the positions in place and j are *)
(* all images of the positions in place and i.  As the permutation is      *)
(* injective, the next position of the cycle is then a fresh one, which    *)
(* still holds the element it was given.                                   *)
(***************************************************************************)
Placed == visited \cup {a \in Index : a < i}

PermutationInv ==
  /\ \A a, b \in Index : permutation[a] = permutation[b] => a = b
  /\ \A a, b \in Index : a < b => input[permutation[a]] <= input[permutation[b]]

CycleInv ==
  /\ pc = "scan" =>
       \A a \in Placed : \E w \in Placed : permutation[w] = a
  /\ pc = "cycle" =>
       /\ i < size /\ i \notin Placed
       /\ j \in Index /\ j \notin Placed
       /\ \A a \in Placed \cup {j} : \E w \in Placed \cup {i} : permutation[w] = a
       /\ value = input[permutation[i]]
  /\ pc = "sorted" => Placed = Index

ElementsInv ==
  \A a \in Index :
    /\ a \in Placed => elements[a] = input[permutation[a]]
    /\ a \notin Placed => elements[a] = input[a]

SortInv ==
  SortTypeOK /\ i <= size /\ PermutationInv /\ CycleInv /\ ElementsInv

-----------------------------------------------------------------------------
\* A vector none of whose elements repeats has as many as its set.
LEMMA Counting ==
  ASSUME NEW S, NEW s \in Seq(S), \A p, q \in 1 .. Len(s) : s[p] = s[q] => p = q
  PROVE  Cardinality({s[p] : p \in 1 .. Len(s)}) = Len(s)
<1> DEFINE T == {s[p] : p \in 1 .. Len(s)}
<1> DEFINE f == [p \in 1 .. Len(s) |-> s[p]]
<1>1. f \in Bijection(1 .. Len(s), T)
  BY DEF Bijection, Injection, Surjection, IsInjective
<1>2. Len(s) \in Nat
  OBVIOUS
<1> HIDE DEF T, f
<1>3. ExistsBijection(1 .. Len(s), T)
  BY <1>1 DEF ExistsBijection
<1>4. Cardinality(T) = Len(s)
  BY <1>2, <1>3, FS_CountingElements
<1> QED
  BY <1>4 DEF T

\* An injective map of an initial segment into itself reaches all of it.
LEMMA InjectiveIsOnto ==
  ASSUME NEW n \in Nat, NEW f \in [0 .. n - 1 -> 0 .. n - 1],
         \A a, b \in 0 .. n - 1 : f[a] = f[b] => a = b
  PROVE  \A c \in 0 .. n - 1 : \E a \in 0 .. n - 1 : f[a] = c
<1> DEFINE D == 0 .. n - 1
<1>1. f \in Injection(D, D)
  BY DEF Injection, IsInjective
<1>2. IsFiniteSet(D)
  BY FS_Interval
<1> HIDE DEF D
<1>3. f \in Surjection(D, D)
  BY <1>1, <1>2, FS_Injection
<1> QED
  BY <1>3 DEF Surjection, D

-----------------------------------------------------------------------------
LEMMA InitSort == Init => SortInv
<1> SUFFICES ASSUME Init PROVE SortInv
  OBVIOUS
<1> USE RawSortAssumption
<1>1. SortTypeOK
  BY DEF Init, SortTypeOK, SortingPermutations, Bijections, Index
<1>2. size \in Nat /\ i = 0 /\ i <= size
  BY DEF Init
<1>3. Placed = {}
  BY <1>2 DEF Init, Placed, Index
<1>4. PermutationInv
  BY DEF Init, PermutationInv, SortingPermutations, Bijections, Index
<1>5. CycleInv
  BY <1>3 DEF Init, CycleInv
<1>6. ElementsInv
  BY <1>3 DEF Init, ElementsInv
<1> QED BY <1>1, <1>2, <1>4, <1>5, <1>6 DEF SortInv

LEMMA NextSort == SortInv /\ [SortStep]_sorting => SortInv'
<1> SUFFICES ASSUME SortInv, [SortStep]_sorting PROVE SortInv'
  OBVIOUS
<1> USE RawSortAssumption
<1>a. /\ size \in Nat /\ i \in Nat /\ i <= size
      /\ permutation \in [Index -> Index] /\ elements \in [Index -> Value]
      /\ input \in [Index -> Value] /\ visited \subseteq Index
      /\ \A a \in Index : a \in Int
  BY DEF SortInv, SortTypeOK, Index
<1>b. Placed \subseteq Index
  BY <1>a DEF Placed
<1>1. CASE SkipVisited
  <2>1. UNCHANGED <<size, input, elements, permutation, visited, pc>> /\ Index' = Index
        /\ i' = i + 1 /\ i < size /\ i \in visited /\ pc = "scan"
    BY <1>1 DEF SkipVisited, Visited, Index
  <2>2. Placed' = Placed
    <3>1. \A a \in Index : a < i + 1 <=> a < i \/ a = i
      BY <1>a DEF Index
    <3> QED BY <2>1, <3>1 DEF Placed
  <2>3. SortTypeOK' /\ (i <= size)' /\ PermutationInv'
    BY <1>a, <1>1, <2>1 DEF SortInv, SortTypeOK, PermutationInv, SkipVisited
  <2>4. CycleInv'
    BY <2>1, <2>2 DEF SortInv, CycleInv
  <2>5. ElementsInv'
    BY <2>1, <2>2 DEF SortInv, ElementsInv
  <2> QED BY <2>3, <2>4, <2>5 DEF SortInv
<1>2. CASE BeginCycle
  <2>1. UNCHANGED <<size, input, elements, permutation, visited, i>> /\ Index' = Index
        /\ i < size /\ i \notin visited /\ pc = "scan" /\ pc' = "cycle"
        /\ j' = permutation[i] /\ value' = elements[permutation[i]]
    BY <1>2 DEF BeginCycle, Visited, Index
  <2>2. Placed' = Placed
    BY <2>1 DEF Placed
  <2>3. i \in Index /\ i \notin Placed
    BY <1>a, <2>1 DEF Placed, Index
  <2>4. permutation[i] \in Index
    BY <1>a, <2>3
  <2>5. permutation[i] \notin Placed
    <3> SUFFICES ASSUME permutation[i] \in Placed PROVE FALSE
      OBVIOUS
    <3>1. PICK w \in Placed : permutation[w] = permutation[i]
      BY <2>1 DEF SortInv, CycleInv
    <3>2. w = i
      BY <1>b, <2>3, <3>1 DEF SortInv, PermutationInv
    <3> QED BY <2>3, <3>2
  <2>6. elements[permutation[i]] = input[permutation[i]]
    BY <2>4, <2>5 DEF SortInv, ElementsInv
  <2>7. SortTypeOK' /\ (i <= size)' /\ PermutationInv'
    BY <1>a, <2>1, <2>4, SMTT(60) DEF SortInv, SortTypeOK, PermutationInv, Index
  <2>8. \A a \in Placed \cup {permutation[i]} :
          \E w \in Placed \cup {i} : permutation[w] = a
    BY <2>1 DEF SortInv, CycleInv
  <2>9. CycleInv'
    BY <2>1, <2>2, <2>3, <2>4, <2>5, <2>6, <2>8 DEF CycleInv
  <2>10. ElementsInv'
    BY <2>1, <2>2 DEF SortInv, ElementsInv
  <2> QED BY <2>7, <2>9, <2>10 DEF SortInv
<1>3. CASE FollowCycle
  <2>1. UNCHANGED <<size, input, permutation, i, value, pc>> /\ Index' = Index
        /\ pc = "cycle" /\ j # i /\ visited' = visited \cup {j}
        /\ j' = permutation[j]
        /\ elements' = [elements EXCEPT ![j] = elements[permutation[j]]]
    BY <1>3 DEF FollowCycle, Index
  <2>2. /\ i < size /\ i \notin Placed /\ j \in Index /\ j \notin Placed
        /\ \A a \in Placed \cup {j} : \E w \in Placed \cup {i} : permutation[w] = a
        /\ value = input[permutation[i]]
    BY <2>1 DEF SortInv, CycleInv
  <2>3. Placed' = Placed \cup {j}
    BY <2>1, <2>2 DEF Placed
  <2>4. i \in Index /\ permutation[j] \in Index
    BY <1>a, <2>2 DEF Index
  <2>5. permutation[j] \notin Placed \cup {j}
    <3> SUFFICES ASSUME permutation[j] \in Placed \cup {j} PROVE FALSE
      OBVIOUS
    <3>1. PICK w \in Placed \cup {i} : permutation[w] = permutation[j]
      BY <2>2
    <3>2. w = j
      BY <1>b, <2>2, <2>4, <3>1 DEF SortInv, PermutationInv
    <3> QED BY <2>1, <2>2, <3>2
  <2>6. elements[permutation[j]] = input[permutation[j]]
    BY <2>4, <2>5 DEF SortInv, ElementsInv
  <2>7. SortTypeOK' /\ (i <= size)' /\ PermutationInv'
    <3>1. elements' \in [Index -> Value] /\ j' \in Nat /\ visited' \subseteq Index
      BY <1>a, <2>1, <2>2, <2>4 DEF Index
    <3> QED BY <2>1, <3>1 DEF SortInv, SortTypeOK, PermutationInv
  <2>8. \A a \in (Placed \cup {j}) \cup {permutation[j]} :
          \E w \in (Placed \cup {j}) \cup {i} : permutation[w] = a
    BY <2>2
  <2>9. CycleInv'
    BY <2>1, <2>2, <2>3, <2>4, <2>5, <2>8 DEF CycleInv
  <2>10. ElementsInv'
    BY <1>a, <2>1, <2>2, <2>3, <2>6 DEF SortInv, ElementsInv
  <2> QED BY <2>7, <2>9, <2>10 DEF SortInv
<1>4. CASE CloseCycle
  <2>1. UNCHANGED <<size, input, permutation, visited, j, value>> /\ Index' = Index
        /\ pc = "cycle" /\ pc' = "scan" /\ j = i /\ i' = i + 1
        /\ elements' = [elements EXCEPT ![i] = value]
    BY <1>4 DEF CloseCycle, Index
  <2>2. /\ i < size /\ i \notin Placed /\ i \in Index
        /\ \A a \in Placed \cup {i} : \E w \in Placed \cup {i} : permutation[w] = a
        /\ value = input[permutation[i]]
    BY <2>1 DEF SortInv, CycleInv
  <2>3. Placed' = Placed \cup {i}
    <3>1. \A a \in Index : a < i + 1 <=> a < i \/ a = i
      BY <1>a DEF Index
    <3> QED BY <2>1, <2>2, <3>1 DEF Placed
  <2>4. SortTypeOK' /\ (i <= size)' /\ PermutationInv'
    BY <1>a, <2>1, <2>2 DEF SortInv, SortTypeOK, PermutationInv, Index
  <2>5. CycleInv'
    BY <2>1, <2>2, <2>3 DEF CycleInv
  <2>6. ElementsInv'
    BY <1>a, <2>1, <2>2, <2>3 DEF SortInv, ElementsInv
  <2> QED BY <2>4, <2>5, <2>6 DEF SortInv
<1>5. CASE FinishSort
  <2>1. UNCHANGED <<size, input, elements, permutation, visited, i, j, value>>
        /\ Index' = Index /\ i >= size /\ pc' = "sorted"
    BY <1>5 DEF FinishSort, Index
  <2>2. Placed' = Placed
    BY <2>1 DEF Placed
  <2>3. Placed = Index
    BY <1>a, <1>b, <2>1 DEF Placed, Index
  <2> QED BY <2>1, <2>2, <2>3
     DEF SortInv, SortTypeOK, PermutationInv, CycleInv, ElementsInv
<1>6. CASE UNCHANGED sorting
  BY <1>6 DEF sorting, SortInv, SortTypeOK, PermutationInv, CycleInv,
              ElementsInv, Placed, Index
<1> QED BY <1>1, <1>2, <1>3, <1>4, <1>5, <1>6 DEF SortStep

LEMMA SortInvHolds == SortSpec => []SortInv
  BY InitSort, NextSort, PTL DEF SortSpec

-----------------------------------------------------------------------------
\* Every variable keeps its type, whatever the length.
THEOREM SortTypeCorrect == SortSpec => []SortTypeOK
  BY SortInvHolds, PTL DEF SortInv

LEMMA SortedWhenDone == SortInv => SortedByPermutation
<1> SUFFICES ASSUME SortInv, pc = "sorted" PROVE
      /\ \A a, b \in Index : a <= b => elements[a] <= elements[b]
      /\ \A a \in Index : elements[a] = input[permutation[a]]
  BY DEF SortedByPermutation
<1>1. Placed = Index
  BY DEF SortInv, CycleInv
<1>2. \A a \in Index : elements[a] = input[permutation[a]]
  BY <1>1 DEF SortInv, ElementsInv
<1>3. ASSUME NEW a \in Index, NEW b \in Index, a <= b
      PROVE  elements[a] <= elements[b]
  <2>1. elements[a] \in Int /\ a \in Int /\ b \in Int
    <3>1. elements[a] \in Value /\ size \in Nat
      BY RawSortAssumption DEF SortInv, SortTypeOK
    <3>2. a \in Int /\ b \in Int
      BY <3>1 DEF Index
    <3> QED BY <3>1, <3>2, RawSortAssumption DEF RawSortAssumption
  <2>2. CASE a = b
    BY <2>1, <2>2
  <2>3. CASE a < b
    BY <1>2, <2>3 DEF SortInv, PermutationInv
  <2> QED BY <1>3, <2>1, <2>2, <2>3
<1> QED BY <1>2, <1>3

\* Whatever the length and whatever order std::sort gives equal elements, the
\* vector ends up sorted and the permutation describes it.
THEOREM SortCorrect == SortSpec => []SortedByPermutation
  BY SortedWhenDone, SortInvHolds, PTL

\* No element in place is ever moved again, whatever the length.
THEOREM SortMovesOnce == SortSpec => InPlaceOnce
<1>1. SortInv /\ [SortStep]_sorting =>
        [\A a \in Index : (a < i \/ a \in visited) => elements'[a] = elements[a]]_sorting
  <2> SUFFICES ASSUME SortInv, SortStep,
                      NEW a \in Index, a < i \/ a \in visited
               PROVE  elements'[a] = elements[a]
    OBVIOUS
  <2>1. a \in Placed
    BY DEF Placed
  <2>2. CASE FollowCycle
    BY <2>1, <2>2 DEF FollowCycle, SortInv, CycleInv, SortTypeOK
  <2>3. CASE CloseCycle
    BY <2>1, <2>3 DEF CloseCycle, SortInv, CycleInv, SortTypeOK
  <2> QED BY <2>2, <2>3 DEF SortStep, SkipVisited, BeginCycle, FinishSort
<1> QED BY <1>1, SortInvHolds, PTL DEF SortSpec, InPlaceOnce

-----------------------------------------------------------------------------
(***************************************************************************)
(* The join.  A pair is reported for positions below left, or at left      *)
(* below right inside a run, so none is reported twice.  Over an ascending *)
(* setup every equal pair with either position behind its index has been   *)
(* reported: each index moves only past elements that match nothing ahead. *)
(***************************************************************************)
InRun == at \in {"pair", "repeat"}

\* Where the join is, and what it has compared to get there.
PlaceInv ==
  /\ left \in 0 .. size /\ right \in 0 .. SetupSize
  /\ firstRight \in Nat /\ firstEncrypted \in Value
  /\ at \in {"sort", "outer", "advance", "pair", "repeat", "skip", "read", "joined"}
  /\ at = "sort" => left = 0 /\ right = 0 /\ pairs = << >>
  /\ at # "sort" => pc = "sorted"
  /\ at = "advance" => right < SetupSize
  /\ at = "read" => left < size /\ right < SetupSize
  /\ at = "joined" => left = size \/ right = SetupSize
  /\ InRun =>
       /\ left < size /\ firstRight <= right /\ elements[left] = firstEncrypted
       /\ \A b \in firstRight .. right - 1 : encrypted[b] = firstEncrypted
  /\ at = "pair" => right < SetupSize /\ encrypted[right] = firstEncrypted
  /\ at = "repeat" =>
       /\ firstRight < right
       /\ right < SetupSize => encrypted[right] # firstEncrypted

\* Whether the indices have passed the pair of positions a and b.
Passed(a, b) == a < left \/ (a = left /\ b < right /\ InRun)

\* What was reported is an equal pair already passed, reported once.
PairsInv ==
  /\ pairs \in Seq(Nat \X Nat)
  /\ \A p \in 1 .. Len(pairs) :
       \E a \in Index, b \in 0 .. SetupSize - 1 :
         /\ pairs[p] = <<permutation[a], b>>
         /\ elements[a] = encrypted[b] /\ Passed(a, b)
  /\ \A p, q \in 1 .. Len(pairs) : pairs[p] = pairs[q] => p = q

Reported(a, b) == \E p \in 1 .. Len(pairs) : pairs[p] = <<permutation[a], b>>

\* Whether all the partners of position b of the setup are behind left.
SetupPassed(b) == IF InRun THEN b < firstRight ELSE b < right

CoverInv ==
  Ascending(encrypted) =>
    \A a \in Index, b \in 0 .. SetupSize - 1 :
      elements[a] = encrypted[b] /\ (Passed(a, b) \/ SetupPassed(b)) => Reported(a, b)

SetupInv ==
  /\ SetupSize \in Nat
  /\ encrypted \in [0 .. SetupSize - 1 -> Value]

IInv == SortInv /\ SetupInv /\ PlaceInv /\ PairsInv /\ CoverInv

-----------------------------------------------------------------------------
LEMMA InitInv == InitJoin => IInv
<1> SUFFICES ASSUME InitJoin PROVE IInv
  OBVIOUS
<1>1. SortInv
  BY InitSort DEF InitJoin
<1>2. SetupInv
  <2>1. PICK m \in SetupSizes : encrypted \in [0 .. m - 1 -> Value]
    BY DEF InitJoin
  <2>2. m \in Nat
    BY SetupSizesAssumption
  <2>3. SetupSize = m
    BY <2>1, <2>2, FS_Interval DEF SetupSize
  <2> QED
    BY <2>1, <2>2, <2>3 DEF SetupInv
<1>3. size \in Nat
  BY <1>1, RawSortAssumption DEF SortInv, SortTypeOK
<1>4. PlaceInv
  BY <1>2, <1>3 DEF InitJoin, PlaceInv, SetupInv, InRun
<1>5. PairsInv
  BY DEF InitJoin, PairsInv
<1>6. CoverInv
  BY DEF InitJoin, CoverInv, Passed, SetupPassed, InRun, Index
<1> QED
  BY <1>1, <1>2, <1>4, <1>5, <1>6 DEF IInv

\* The two vectors while the join runs.
LEMMA Vectors ==
  ASSUME IInv
  PROVE  /\ size \in Nat /\ SetupSize \in Nat /\ Index = 0 .. size - 1
         /\ left \in Int /\ right \in Int /\ firstRight \in Int /\ firstEncrypted \in Int
         /\ \A a \in Index : elements[a] \in Int /\ permutation[a] \in Index
         /\ \A b \in 0 .. SetupSize - 1 : encrypted[b] \in Int
         /\ \A a, b \in Index : permutation[a] = permutation[b] => a = b
<1>1. size \in Nat /\ SetupSize \in Nat
  BY RawSortAssumption DEF IInv, SortInv, SortTypeOK, SetupInv
<1>2. left \in Int /\ right \in Int /\ firstRight \in Int /\ firstEncrypted \in Int
  BY <1>1, RawSortAssumption DEF IInv, PlaceInv
<1>3. \A a \in Index : elements[a] \in Int /\ permutation[a] \in Index
  BY RawSortAssumption DEF IInv, SortInv, SortTypeOK
<1>4. \A b \in 0 .. SetupSize - 1 : encrypted[b] \in Int
  BY RawSortAssumption DEF IInv, SetupInv
<1>5. \A a, b \in Index : permutation[a] = permutation[b] => a = b
  BY DEF IInv, SortInv, PermutationInv
<1> QED
  BY <1>1, <1>2, <1>3, <1>4, <1>5 DEF Index

LEMMA Sorted ==
  ASSUME IInv, at # "sort"
  PROVE  \A a, b \in Index : a <= b => elements[a] <= elements[b]
BY SortedWhenDone DEF IInv, PlaceInv, SortedByPermutation

LEMMA SetupAscends ==
  ASSUME IInv, Ascending(encrypted)
  PROVE  \A a, b \in 0 .. SetupSize - 1 : a <= b => encrypted[a] <= encrypted[b]
BY DEF IInv, SetupInv, Ascending

\* A step of the join leaves the sort and the setup alone.
LEMMA JoinKeeps ==
  ASSUME IInv, UNCHANGED <<sorting, encrypted>>
  PROVE  /\ SortInv' /\ SetupInv' /\ SetupSize' = SetupSize /\ Index' = Index
         /\ Ascending(encrypted)' <=> Ascending(encrypted)
         /\ UNCHANGED <<size, elements, permutation, pc>>
<1>1. SortInv'
  BY NextSort DEF IInv
<1>2. SetupSize' = SetupSize /\ Index' = Index
  BY DEF SetupSize, Index, sorting
<1> QED
  BY <1>1, <1>2 DEF IInv, SetupInv, Ascending, sorting

\* What was reported stays so while the pairs are only added to, and both
\* indices only pass more.
LEMMA PairsKept ==
  ASSUME IInv, UNCHANGED <<sorting, encrypted, pairs>>,
         \A a \in Index, b \in 0 .. SetupSize - 1 : Passed(a, b) => Passed(a, b)'
  PROVE  PairsInv'
<1>1. SetupSize' = SetupSize /\ Index' = Index /\ UNCHANGED <<elements, permutation>>
  BY JoinKeeps
<1> QED
  BY <1>1 DEF IInv, PairsInv

\* It is enough to look at the pairs newly passed: that there are none.
LEMMA CoverKept ==
  ASSUME IInv, UNCHANGED <<sorting, encrypted, pairs>>,
         ASSUME NEW a \in Index, NEW b \in 0 .. SetupSize - 1, Ascending(encrypted),
                (Passed(a, b) \/ SetupPassed(b))', ~ (Passed(a, b) \/ SetupPassed(b))
         PROVE  elements[a] # encrypted[b]
  PROVE  CoverInv'
<1>1. SetupSize' = SetupSize /\ Index' = Index /\ UNCHANGED <<elements, permutation>>
      /\ (Ascending(encrypted)' <=> Ascending(encrypted))
  BY JoinKeeps
<1>2. \A a, b : Reported(a, b)' <=> Reported(a, b)
  BY <1>1 DEF Reported
<1> SUFFICES ASSUME Ascending(encrypted), NEW a \in Index, NEW b \in 0 .. SetupSize - 1,
                    elements[a] = encrypted[b], (Passed(a, b) \/ SetupPassed(b))'
             PROVE  Reported(a, b)
  BY <1>1, <1>2 DEF CoverInv
<1>3. Passed(a, b) \/ SetupPassed(b)
  OBVIOUS
<1> QED
  BY <1>3 DEF IInv, CoverInv

-----------------------------------------------------------------------------
LEMMA TestInv ==
  ASSUME IInv, Outer \/ LeftExhausted \/ SkipTest
  PROVE  IInv'
<1>1. UNCHANGED <<sorting, encrypted, left, right, firstRight, firstEncrypted, pairs>>
  BY DEF Outer, LeftExhausted, SkipTest
<1>2. SortInv' /\ SetupInv' /\ SetupSize' = SetupSize /\ UNCHANGED <<size, elements, pc>>
  BY <1>1, JoinKeeps
<1>3. ~ InRun /\ ~ InRun' /\ at # "sort" /\ at' # "sort"
  BY DEF Outer, LeftExhausted, SkipTest, InRun
<1>4. PlaceInv'
  BY <1>1, <1>2, <1>3, Vectors
  DEF IInv, PlaceInv, Outer, LeftExhausted, SkipTest, MayRead, LeftRemains, RightRemains, InRun
<1>5. PairsInv'
  BY <1>1, <1>3, PairsKept DEF Passed
<1>6. CoverInv'
  BY <1>1, <1>3, CoverKept DEF Passed, SetupPassed
<1> QED
  BY <1>2, <1>4, <1>5, <1>6 DEF IInv

LEMMA AdvanceLeftInv ==
  ASSUME IInv, AdvanceLeft
  PROVE  IInv'
<1>1. /\ at = "advance" /\ left < size /\ elements[left] < encrypted[right] /\ left' = left + 1
      /\ UNCHANGED <<sorting, encrypted, right, firstRight, firstEncrypted, pairs, at>>
  BY DEF AdvanceLeft, LeftRemains
<1>2. SortInv' /\ SetupInv' /\ SetupSize' = SetupSize /\ UNCHANGED <<size, elements, pc>>
  BY <1>1, JoinKeeps
<1>3. ~ InRun /\ ~ InRun'
  BY <1>1 DEF InRun
<1>4. left \in Index /\ right \in 0 .. SetupSize - 1
  BY <1>1, Vectors DEF IInv, PlaceInv
<1>5. PlaceInv'
  BY <1>1, <1>2, <1>3, Vectors DEF IInv, PlaceInv, InRun
<1>6. PairsInv'
  BY <1>1, <1>3, Vectors, PairsKept DEF Passed
<1>7. ASSUME NEW a \in Index, NEW b \in 0 .. SetupSize - 1, Ascending(encrypted),
             (Passed(a, b) \/ SetupPassed(b))', ~ (Passed(a, b) \/ SetupPassed(b))
      PROVE  elements[a] # encrypted[b]
  <2>1. a = left /\ right <= b
    BY <1>1, <1>3, <1>7, Vectors DEF Passed, SetupPassed
  <2>2. encrypted[right] <= encrypted[b]
    BY <1>4, <1>7, <2>1, SetupAscends
  <2> QED
    BY <1>1, <1>4, <2>1, <2>2, Vectors
<1>8. CoverInv'
  BY <1>1, <1>7, CoverKept
<1> QED
  BY <1>2, <1>5, <1>6, <1>8 DEF IInv

LEMMA CompareInv ==
  ASSUME IInv, Compare
  PROVE  IInv'
<1>1. /\ at = "advance" /\ left < size
      /\ firstRight' = right /\ firstEncrypted' = encrypted[right]
      /\ at' = IF elements[left] = encrypted[right] THEN "pair" ELSE "skip"
      /\ UNCHANGED <<sorting, encrypted, left, right, pairs>>
  BY DEF Compare, LeftRemains
<1>2. SortInv' /\ SetupInv' /\ SetupSize' = SetupSize /\ UNCHANGED <<size, elements, pc>>
  BY <1>1, JoinKeeps
<1>3. ~ InRun
  BY <1>1 DEF InRun
<1>4. right \in 0 .. SetupSize - 1 /\ encrypted[right] \in Value
  BY <1>1, Vectors DEF IInv, PlaceInv, SetupInv
<1>5. PlaceInv'
  BY <1>1, <1>2, <1>4, Vectors DEF IInv, PlaceInv, InRun
<1>6. PairsInv'
  BY <1>1, <1>3, PairsKept DEF Passed
<1>7. ASSUME NEW a \in Index, NEW b \in 0 .. SetupSize - 1, (Passed(a, b) \/ SetupPassed(b))'
      PROVE  Passed(a, b) \/ SetupPassed(b)
  BY <1>1, <1>3, <1>7 DEF Passed, SetupPassed
<1>8. CoverInv'
  BY <1>1, <1>7, CoverKept
<1> QED
  BY <1>2, <1>5, <1>6, <1>8 DEF IInv

LEMMA AddPairInv ==
  ASSUME IInv, AddPair
  PROVE  IInv'
<1> DEFINE new == <<permutation[left], right>>
<1>1. /\ at = "pair" /\ right' = right + 1 /\ pairs' = Append(pairs, new)
      /\ at' = IF right + 1 < SetupSize /\ elements[left] = encrypted[right + 1]
               THEN "pair" ELSE "repeat"
      /\ UNCHANGED <<sorting, encrypted, left, firstRight, firstEncrypted>>
  BY DEF AddPair
<1>2. /\ SortInv' /\ SetupInv' /\ SetupSize' = SetupSize /\ Index' = Index
      /\ (Ascending(encrypted)' <=> Ascending(encrypted))
      /\ UNCHANGED <<size, elements, permutation, pc>>
  BY <1>1, JoinKeeps
<1>3. InRun /\ InRun'
  BY <1>1 DEF InRun
<1>4. left \in Index /\ right \in 0 .. SetupSize - 1 /\ elements[left] = encrypted[right]
  BY <1>1, <1>3, Vectors DEF IInv, PlaceInv
<1>5. PlaceInv'
  <2>1. \A b \in firstRight .. right : encrypted[b] = firstEncrypted
    BY <1>1, <1>3, Vectors DEF IInv, PlaceInv
  <2> QED
    BY <1>1, <1>2, <1>3, <1>4, <2>1, Vectors DEF IInv, PlaceInv, InRun
<1>6. /\ pairs \in Seq(Nat \X Nat) /\ new \in Nat \X Nat /\ Len(pairs) \in Nat
      /\ pairs' \in Seq(Nat \X Nat) /\ Len(pairs') = Len(pairs) + 1
      /\ \A p \in 1 .. Len(pairs) : pairs'[p] = pairs[p]
      /\ pairs'[Len(pairs) + 1] = new
  <2>1. pairs \in Seq(Nat \X Nat)
    BY DEF IInv, PairsInv
  <2>2. new \in Nat \X Nat
    BY <1>4, Vectors
  <2> HIDE DEF new
  <2> QED
    BY <1>1, <2>1, <2>2
<1>a. 1 .. Len(pairs') = (1 .. Len(pairs)) \cup {Len(pairs) + 1}
  BY <1>6
<1>7. \A a \in Index, b \in 0 .. SetupSize - 1 :
        Passed(a, b)' <=> Passed(a, b) \/ (a = left /\ b = right)
  BY <1>1, <1>3, <1>4, Vectors, SMTT(60) DEF Passed
<1>8. PairsInv'
  <2>1. ASSUME NEW p \in 1 .. Len(pairs')
        PROVE  \E a \in Index, b \in 0 .. SetupSize - 1 :
                 pairs'[p] = <<permutation[a], b>> /\ elements[a] = encrypted[b] /\ Passed(a, b)'
    <3>1. CASE p \in 1 .. Len(pairs)
      <4>1. PICK a \in Index, b \in 0 .. SetupSize - 1 :
              pairs[p] = <<permutation[a], b>> /\ elements[a] = encrypted[b] /\ Passed(a, b)
        BY <3>1 DEF IInv, PairsInv
      <4>2. pairs'[p] = pairs[p] /\ Passed(a, b)'
        BY <1>6, <1>7, <3>1, <4>1
      <4> QED
        BY <4>1, <4>2
    <3>2. CASE p = Len(pairs) + 1
      BY <1>4, <1>6, <1>7, <3>2
    <3> QED
      BY <1>a, <3>1, <3>2
  <2>2. \A p \in 1 .. Len(pairs) : pairs[p] # new
    <3> SUFFICES ASSUME NEW p \in 1 .. Len(pairs), pairs[p] = new PROVE FALSE
      OBVIOUS
    <3>1. PICK a \in Index, b \in 0 .. SetupSize - 1 :
            pairs[p] = <<permutation[a], b>> /\ Passed(a, b)
      BY DEF IInv, PairsInv
    <3>2. permutation[a] = permutation[left] /\ b = right
      BY <3>1
    <3>3. a = left
      BY <1>4, <3>2, Vectors
    <3> QED
      BY <3>1, <3>2, <3>3, Vectors DEF Passed
  <2>3. ASSUME NEW p \in 1 .. Len(pairs'), NEW q \in 1 .. Len(pairs'), pairs'[p] = pairs'[q]
        PROVE  p = q
    <3>1. \A r, s \in 1 .. Len(pairs) : pairs[r] = pairs[s] => r = s
      BY DEF IInv, PairsInv
    <3> HIDE DEF new
    <3>2. CASE p \in 1 .. Len(pairs) /\ q \in 1 .. Len(pairs)
      BY <1>6, <2>3, <3>1, <3>2
    <3>3. CASE p = Len(pairs) + 1 /\ q \in 1 .. Len(pairs)
      BY <1>6, <2>2, <2>3, <3>3
    <3>4. CASE q = Len(pairs) + 1 /\ p \in 1 .. Len(pairs)
      BY <1>6, <2>2, <2>3, <3>4
    <3> QED
      BY <1>a, <3>2, <3>3, <3>4
  <2> QED
    <3>1. \A p, q \in 1 .. Len(pairs') : pairs'[p] = pairs'[q] => p = q
      BY <2>3
    <3>2. \A p \in 1 .. Len(pairs') : \E a \in Index', b \in 0 .. SetupSize' - 1 :
            /\ pairs'[p] = <<permutation'[a], b>>
            /\ elements'[a] = encrypted'[b] /\ Passed(a, b)'
      BY <1>1, <1>2, <2>1
    <3> QED
      BY <1>6, <3>1, <3>2 DEF PairsInv
<1>9. CoverInv'
  <2>1. \A a, b : Reported(a, b) => Reported(a, b)'
    <3> SUFFICES ASSUME NEW a, NEW b, NEW p \in 1 .. Len(pairs), pairs[p] = <<permutation[a], b>>
                 PROVE  Reported(a, b)'
      BY DEF Reported
    <3>1. p \in 1 .. Len(pairs') /\ pairs'[p] = <<permutation'[a], b>>
      BY <1>2, <1>6, <1>a
    <3> QED
      BY <3>1 DEF Reported
  <2>2. Len(pairs) + 1 \in 1 .. Len(pairs') /\ pairs'[Len(pairs) + 1] = <<permutation'[left], right>>
    BY <1>2, <1>6
  <2> SUFFICES ASSUME Ascending(encrypted), NEW a \in Index, NEW b \in 0 .. SetupSize - 1,
                      elements[a] = encrypted[b], Passed(a, b)' \/ SetupPassed(b)'
               PROVE  Reported(a, b)'
    BY <1>1, <1>2 DEF CoverInv
  <2>3. SetupPassed(b)' => SetupPassed(b)
    BY <1>1, <1>3 DEF SetupPassed
  <2>4. CASE a = left /\ b = right
    BY <2>2, <2>4 DEF Reported
  <2>5. CASE Passed(a, b) \/ SetupPassed(b)
    BY <2>1, <2>5 DEF IInv, CoverInv
  <2> QED
    BY <1>7, <2>3, <2>4, <2>5
<1> QED
  BY <1>2, <1>5, <1>8, <1>9 DEF IInv

LEMMA RepeatLeftInv ==
  ASSUME IInv, RepeatLeft
  PROVE  IInv'
<1>1. /\ at = "repeat" /\ left' = left + 1
      /\ \/ Repeats /\ right' = firstRight /\ at' = "pair"
         \/ ~ Repeats /\ right' = right /\ at' = "skip"
      /\ UNCHANGED <<sorting, encrypted, firstRight, firstEncrypted, pairs>>
  BY DEF RepeatLeft, RunStart
<1>2. SortInv' /\ SetupInv' /\ SetupSize' = SetupSize /\ UNCHANGED <<size, elements, pc>>
  BY <1>1, JoinKeeps
<1>3. InRun
  BY <1>1 DEF InRun
<1>4. /\ left \in Index /\ elements[left] = firstEncrypted
      /\ firstRight \in 0 .. SetupSize - 1 /\ firstRight < right /\ right <= SetupSize
      /\ \A b \in firstRight .. right - 1 : encrypted[b] = firstEncrypted
      /\ right < SetupSize => encrypted[right] # firstEncrypted
  BY <1>1, <1>3, Vectors DEF IInv, PlaceInv
<1>5. Repeats => left + 1 \in Index /\ elements[left + 1] = firstEncrypted
  BY <1>4, Vectors DEF Repeats
<1>6. PlaceInv'
  <2>1. CASE Repeats
    BY <1>1, <1>2, <1>4, <1>5, <2>1, Vectors DEF IInv, PlaceInv, InRun
  <2>2. CASE ~ Repeats
    BY <1>1, <1>2, <1>4, <2>2, Vectors DEF IInv, PlaceInv, InRun
  <2> QED
    BY <2>1, <2>2
<1>7. PairsInv'
  BY <1>1, Vectors, PairsKept DEF Passed
<1>8. ASSUME NEW a \in Index, NEW b \in 0 .. SetupSize - 1, Ascending(encrypted),
             (Passed(a, b) \/ SetupPassed(b))', ~ (Passed(a, b) \/ SetupPassed(b))
      PROVE  elements[a] # encrypted[b]
  <2>1. left <= a /\ firstRight <= b /\ (a = left => right <= b)
    BY <1>3, <1>8, Vectors DEF Passed, SetupPassed
  <2>2. CASE a = left
    <3>1. right \in 0 .. SetupSize - 1 /\ right - 1 \in 0 .. SetupSize - 1
      BY <1>4, <2>1, <2>2, Vectors
    <3>2. encrypted[right - 1] = firstEncrypted
      BY <1>4, Vectors
    <3>3. encrypted[right - 1] <= encrypted[right] /\ encrypted[right] <= encrypted[b]
      BY <1>8, <2>1, <2>2, <3>1, Vectors, SetupAscends
    <3> QED
      BY <1>4, <2>2, <3>1, <3>2, <3>3, Vectors
  <2>3. CASE a # left
    <3>1. ~ Repeats /\ b < right
      BY <1>1, <1>8, <2>1, <2>3, Vectors DEF Passed, SetupPassed, InRun
    <3>2. encrypted[b] = firstEncrypted
      BY <1>4, <2>1, <3>1, Vectors
    <3>3. left + 1 \in Index /\ left + 1 <= a
      BY <1>4, <2>1, <2>3, Vectors
    <3>4. elements[left + 1] # firstEncrypted
      BY <3>1, <3>3, Vectors DEF Repeats
    <3>5. elements[left] <= elements[left + 1] /\ elements[left + 1] <= elements[a]
      BY <1>1, <1>4, <3>3, Vectors, Sorted, SMTT(60)
    <3> QED
      BY <1>4, <3>2, <3>3, <3>4, <3>5, Vectors
  <2> QED
    BY <2>2, <2>3
<1>9. CoverInv'
  BY <1>1, <1>8, CoverKept
<1> QED
  BY <1>2, <1>6, <1>7, <1>9 DEF IInv

LEMMA SkipRightInv ==
  ASSUME IInv, SkipRight
  PROVE  IInv'
<1>1. /\ at = "read"
      /\ \/ elements[left] > encrypted[right] /\ right' = right + 1 /\ at' = "skip"
         \/ right' = right /\ at' = "outer"
      /\ UNCHANGED <<sorting, encrypted, left, firstRight, firstEncrypted, pairs>>
  BY DEF SkipRight, Skipped
<1>2. SortInv' /\ SetupInv' /\ SetupSize' = SetupSize /\ UNCHANGED <<size, elements, pc>>
  BY <1>1, JoinKeeps
<1>3. ~ InRun /\ ~ InRun'
  BY <1>1 DEF InRun
<1>4. left \in Index /\ right \in 0 .. SetupSize - 1
  BY <1>1, Vectors DEF IInv, PlaceInv
<1>5. PlaceInv'
  BY <1>1, <1>2, <1>3, <1>4, Vectors DEF IInv, PlaceInv, InRun
<1>6. PairsInv'
  BY <1>1, <1>3, PairsKept DEF Passed
<1>7. ASSUME NEW a \in Index, NEW b \in 0 .. SetupSize - 1, Ascending(encrypted),
             (Passed(a, b) \/ SetupPassed(b))', ~ (Passed(a, b) \/ SetupPassed(b))
      PROVE  elements[a] # encrypted[b]
  <2>1. b = right /\ left <= a /\ elements[left] > encrypted[right]
    BY <1>1, <1>3, <1>7, Vectors DEF Passed, SetupPassed
  <2>2. elements[left] <= elements[a]
    BY <1>1, <1>4, <2>1, Sorted
  <2> QED
    BY <1>4, <2>1, <2>2, Vectors
<1>8. CoverInv'
  BY <1>1, <1>7, CoverKept
<1> QED
  BY <1>2, <1>5, <1>6, <1>8 DEF IInv

LEMMA SortPhaseInv ==
  ASSUME IInv, SortPhase
  PROVE  IInv'
<1>1. at = "sort"
  BY DEF IInv, PlaceInv, SortPhase, SortStep, SkipVisited, BeginCycle, FollowCycle, CloseCycle, FinishSort
<1>2. left' = 0 /\ right' = 0 /\ pairs' = << >> /\ UNCHANGED <<encrypted, firstRight, firstEncrypted>>
  BY <1>1 DEF IInv, PlaceInv, SortPhase, join
<1>3. SortInv'
  BY NextSort DEF IInv, SortPhase
<1>4. SetupInv' /\ SetupSize' = SetupSize
  BY <1>2 DEF IInv, SetupInv, SetupSize
<1>5. size' \in Nat
  BY <1>3, RawSortAssumption DEF SortInv, SortTypeOK
<1>6. \/ at' = "sort"
      \/ at' = "outer" /\ pc' = "sorted"
  BY <1>1 DEF SortPhase, join, sorting
<1>7. PlaceInv'
  BY <1>2, <1>4, <1>5, <1>6, Vectors DEF IInv, PlaceInv, InRun
<1>8. PairsInv'
  BY <1>2 DEF PairsInv
<1>9. CoverInv'
  BY <1>2, <1>5, <1>6 DEF CoverInv, Passed, SetupPassed, InRun, Index
<1> QED
  BY <1>3, <1>4, <1>7, <1>8, <1>9 DEF IInv

LEMMA Invariance == Spec => []IInv
<1>1. IInv /\ Next => IInv'
  BY SortPhaseInv, TestInv, AdvanceLeftInv, CompareInv, AddPairInv, RepeatLeftInv, SkipRightInv
  DEF Next, JoinStep
<1>2. IInv /\ UNCHANGED vars => IInv'
  <2> SUFFICES ASSUME IInv, UNCHANGED vars PROVE IInv'
    OBVIOUS
  <2>1. UNCHANGED <<sorting, encrypted, left, right, firstRight, firstEncrypted, pairs, at>>
    BY DEF vars, join
  <2>2. SortInv' /\ SetupInv' /\ SetupSize' = SetupSize /\ UNCHANGED <<size, elements, pc>>
    BY <2>1, JoinKeeps
  <2>3. PlaceInv'
    BY <2>1, <2>2 DEF IInv, PlaceInv, InRun
  <2>4. PairsInv'
    BY <2>1, PairsKept DEF Passed, InRun
  <2>5. CoverInv'
    BY <2>1, CoverKept DEF Passed, SetupPassed, InRun
  <2> QED
    BY <2>2, <2>3, <2>4, <2>5 DEF IInv
<1> QED
  BY <1>1, <1>2, InitInv, PTL DEF Spec

\* Whatever the lengths of the response and the setup and whatever the setup's
\* order, the join reads inside its vectors.
THEOREM NoReadOutOfBounds == Spec => []ReadsInBounds
<1>1. IInv => ReadsInBounds
  BY DEF IInv, PlaceInv, ReadsInBounds, InRun, LeftRemains, RightRemains
<1> QED
  BY <1>1, Invariance, PTL

-----------------------------------------------------------------------------
LEMMA Onto ==
  ASSUME IInv
  PROVE  \A c \in Index : \E a \in Index : permutation[a] = c
<1>1. size \in Nat /\ permutation \in [0 .. size - 1 -> 0 .. size - 1]
  BY Vectors DEF IInv, SortInv, SortTypeOK
<1>2. \A a, b \in 0 .. size - 1 : permutation[a] = permutation[b] => a = b
  BY DEF IInv, SortInv, PermutationInv, Index
<1> QED
  BY <1>1, <1>2, InjectiveIsOnto DEF Index

LEMMA TableFromInv ==
  ASSUME IInv
  PROVE  TableIsExact
<1> DEFINE equal == EqualPairs(input, encrypted)
<1>1. at # "sort" => \A a \in Index : elements[a] = input[permutation[a]]
  BY SortedWhenDone DEF IInv, PlaceInv, SortedByPermutation
<1>2. DOMAIN input = Index /\ DOMAIN encrypted = 0 .. SetupSize - 1
  BY DEF IInv, SortInv, SortTypeOK, SetupInv
<1>3. \A p \in 1 .. Len(pairs) : pairs[p] \in equal
  <2> SUFFICES ASSUME NEW p \in 1 .. Len(pairs) PROVE pairs[p] \in equal
    OBVIOUS
  <2>1. at # "sort"
    BY DEF IInv, PlaceInv
  <2>2. PICK a \in Index, b \in 0 .. SetupSize - 1 :
          pairs[p] = <<permutation[a], b>> /\ elements[a] = encrypted[b]
    BY DEF IInv, PairsInv
  <2>3. permutation[a] \in Index /\ input[permutation[a]] = encrypted[b]
    BY <1>1, <2>1, <2>2, Vectors
  <2> QED
    BY <1>2, <2>2, <2>3 DEF EqualPairs
<1>4. ASSUME at = "joined", Ascending(encrypted)
      PROVE  {pairs[p] : p \in 1 .. Len(pairs)} = equal
  <2> SUFFICES ASSUME NEW e \in equal PROVE \E p \in 1 .. Len(pairs) : pairs[p] = e
    BY <1>3
  <2>1. PICK c \in Index, b \in 0 .. SetupSize - 1 : e = <<c, b>> /\ input[c] = encrypted[b]
    BY <1>2 DEF EqualPairs
  <2>2. PICK a \in Index : permutation[a] = c
    BY Onto
  <2>3. elements[a] = encrypted[b]
    BY <1>1, <1>4, <2>1, <2>2
  <2>4. Passed(a, b) \/ SetupPassed(b)
    BY <1>4, Vectors DEF IInv, PlaceInv, Passed, SetupPassed, InRun
  <2>5. Reported(a, b)
    BY <1>4, <2>3, <2>4 DEF IInv, CoverInv
  <2> QED
    BY <2>1, <2>2, <2>5 DEF Reported
<1>5. Cardinality({pairs[p] : p \in 1 .. Len(pairs)}) = Len(pairs)
  BY Counting DEF IInv, PairsInv
<1> HIDE DEF equal
<1>6. at = "joined" /\ Ascending(encrypted) =>
        {pairs[p] : p \in 1 .. Len(pairs)} = equal /\ Len(pairs) = Cardinality(equal)
  BY <1>4, <1>5
<1> QED
  BY <1>3, <1>6 DEF TableIsExact, equal

\* For a response and a setup of any length: no false pair is ever reported, and
\* over an ascending setup the table is exactly the equal pairs, each once.
THEOREM TableCorrect == Spec => []TableIsExact
  BY TableFromInv, Invariance, PTL
=============================================================================
