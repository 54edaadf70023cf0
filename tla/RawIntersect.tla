---------------------------- MODULE RawIntersect ----------------------------
(***************************************************************************)
(* Raw::Intersect (cpp/datastructure/raw.cpp:190-211): the decrypted       *)
(* response is sorted with its positions and merged with the setup by      *)
(* custom_set_intersection (39-53).  Each action is one round of the merge.*)
(*                                                                         *)
(* encrypted_ comes from the server's message and may be in any order.     *)
(***************************************************************************)
EXTENDS RawResults, Sequences

CONSTANTS
  Value,      \* the elements, which the code only compares
  Sizes,      \* the lengths of the response ...
  SetupSizes  \* ... and of the setup

ASSUME RawIntersectAssumption ==
  Value \subseteq Int /\ Sizes \subseteq Nat /\ SetupSizes \subseteq Nat

VARIABLES
  size,           \* elements.size()
  elements,       \* the decrypted response, in the order it came
  encrypted,      \* encrypted_
  sorted,         \* vp after std::sort: the position of its k-th pair
  first1, first2, \* the iterators
  res,            \* what the merge has written
  done

vars == <<size, elements, encrypted, sorted, first1, first2, res, done>>

Index == 0 .. size - 1
SetupSize == Cardinality(DOMAIN encrypted)

\* std::pair order: by element, then by position, so that no two are equal.
PairLess(f, a, b) == f[a] < f[b] \/ (f[a] = f[b] /\ a < b)

\* The one order std::sort can leave vp in.
SortedPairs(f, n) ==
  CHOOSE p \in [0 .. n - 1 -> 0 .. n - 1] :
    \A a, b \in 0 .. n - 1 : a < b => PairLess(f, p[a], p[b])

Init ==
  /\ size \in Sizes /\ elements \in [Index -> Value]
  /\ \E m \in SetupSizes : encrypted \in [0 .. m - 1 -> Value]
  /\ sorted = SortedPairs(elements, size)
  /\ first1 = 0 /\ first2 = 0 /\ res = << >> /\ done = FALSE

-----------------------------------------------------------------------------
InBoth == first1 < size /\ first2 < SetupSize

Front == elements[sorted[first1]]

AdvanceFirst ==
  /\ InBoth /\ Front < encrypted[first2]
  /\ first1' = first1 + 1
  /\ UNCHANGED <<size, elements, encrypted, sorted, first2, res, done>>

\* Mutant: the setup's element is not used up.
SameSetup == first2

NextSetup == first2 + 1

PositionOfFront == sorted[first1]

TakeBoth ==
  /\ InBoth /\ Front = encrypted[first2]
  /\ res' = Append(res, PositionOfFront)
  /\ first1' = first1 + 1
  /\ first2' = NextSetup
  /\ UNCHANGED <<size, elements, encrypted, sorted, done>>

Passed == first2 + 1

AdvanceSecond ==
  /\ InBoth /\ Front > encrypted[first2]
  /\ first2' = Passed
  /\ UNCHANGED <<size, elements, encrypted, sorted, first1, res, done>>

Finish ==
  /\ ~ InBoth /\ ~ done
  /\ done' = TRUE
  /\ UNCHANGED <<size, elements, encrypted, sorted, first1, first2, res>>

Next == AdvanceFirst \/ TakeBoth \/ AdvanceSecond \/ Finish

Spec == Init /\ [][Next]_vars

-----------------------------------------------------------------------------
\* No position of an element outside of the setup, and none twice, whatever the
\* setup's order: nothing sorts it on the client.
NoFalsePosition ==
  /\ \A p \in 1 .. Len(res) :
       \E b \in DOMAIN encrypted : elements[res[p]] = encrypted[b]
  /\ \A p, q \in 1 .. Len(res) : p # q => res[p] # res[q]

\* No position is false; over an ascending setup the result is the common positions, and over a
\* strictly ascending one there are as many as a streamed match counts
\* (psi_match.h:39-41).
IntersectionIsExact ==
  /\ NoFalsePosition
  /\ done /\ Ascending(encrypted) =>
       {res[p] : p \in 1 .. Len(res)} = CommonPositions(elements, encrypted)
  /\ done /\ StrictlyAscending(encrypted) =>
       Len(res) = Cardinality(HitPositions(elements, encrypted))
=============================================================================
