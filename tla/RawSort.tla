------------------------------ MODULE RawSort ------------------------------
(***************************************************************************)
(* The sort that Raw::Create and Raw::GetAssociationTable share            *)
(* (cpp/datastructure/raw.cpp:73-95 and 121-143): std::sort orders a       *)
(* permutation of the indices, then the elements are moved into place      *)
(* along the cycles of that permutation, one cycle per unvisited index.    *)
(*                                                                         *)
(* Elements are integers: the code only compares and copies them.          *)
(***************************************************************************)
EXTENDS Integers

CONSTANTS
  Value,   \* the elements
  Sizes    \* the lengths of the vector to sort

ASSUME RawSortAssumption == Value \subseteq Int /\ Sizes \subseteq Nat

VARIABLES
  size,         \* elements.size()
  input,        \* history: the elements as they were given
  elements,
  permutation,  \* (sorting_)permutation
  visited,      \* index_visited, the set of its true positions
  i, j, value,  \* the loops' variables
  pc

sorting == <<size, input, elements, permutation, visited, i, j, value, pc>>

Index == 0 .. size - 1

Bijections(n) ==
  {p \in [0 .. n - 1 -> 0 .. n - 1] :
     \A a, b \in 0 .. n - 1 : p[a] = p[b] => a = b}

\* Whatever std::sort may leave behind: equal elements come in any order.
SortingPermutations(f, n) ==
  {p \in Bijections(n) : \A a, b \in 0 .. n - 1 : a < b => f[p[a]] <= f[p[b]]}

Init ==
  /\ size \in Sizes
  /\ input \in [Index -> Value] /\ elements = input
  /\ permutation \in SortingPermutations(input, size)
  /\ visited = {} /\ i = 0 /\ j = 0 /\ value \in Value
  /\ pc = "scan"

-----------------------------------------------------------------------------
\* Mutant: no index counts as visited.
NeverVisited(a) == FALSE

Visited(a) == a \in visited

SkipVisited ==
  /\ pc = "scan" /\ i < size /\ Visited(i)
  /\ i' = i + 1
  /\ UNCHANGED <<size, input, elements, permutation, visited, j, value, pc>>

BeginCycle ==
  /\ pc = "scan" /\ i < size /\ ~ Visited(i)
  /\ j' = permutation[i]
  /\ value' = elements[permutation[i]]
  /\ pc' = "cycle"
  /\ UNCHANGED <<size, input, elements, permutation, visited, i>>

\* Mutant: the position left behind is not marked.
FollowUnmarked ==
  /\ pc = "cycle" /\ j # i
  /\ elements' = [elements EXCEPT ![j] = elements[permutation[j]]]
  /\ j' = permutation[j]
  /\ UNCHANGED <<size, input, permutation, visited, i, value, pc>>

FollowCycle ==
  /\ pc = "cycle" /\ j # i
  /\ elements' = [elements EXCEPT ![j] = elements[permutation[j]]]
  /\ visited' = visited \cup {j}
  /\ j' = permutation[j]
  /\ UNCHANGED <<size, input, permutation, i, value, pc>>

CloseCycle ==
  /\ pc = "cycle" /\ j = i
  /\ elements' = [elements EXCEPT ![i] = value]
  /\ i' = i + 1
  /\ pc' = "scan"
  /\ UNCHANGED <<size, input, permutation, visited, j, value>>

FinishSort ==
  /\ pc = "scan" /\ i >= size
  /\ pc' = "sorted"
  /\ UNCHANGED <<size, input, elements, permutation, visited, i, j, value>>

SortStep ==
  SkipVisited \/ BeginCycle \/ FollowCycle \/ CloseCycle \/ FinishSort

SortSpec == Init /\ [][SortStep]_sorting

-----------------------------------------------------------------------------
\* Every variable keeps its type.
SortTypeOK ==
  /\ size \in Sizes
  /\ input \in [Index -> Value] /\ elements \in [Index -> Value]
  /\ permutation \in [Index -> Index]
  /\ visited \subseteq Index
  /\ i \in Nat /\ j \in Nat /\ value \in Value
  /\ pc \in {"scan", "cycle", "sorted"}

\* The vector ends up ascending, and the permutation still says where each of
\* its elements was given: the server's application maps the positions of an
\* association back to its own rows by it (raw.cpp:59-98).
SortedByPermutation ==
  pc = "sorted" =>
    /\ \A a, b \in Index : a <= b => elements[a] <= elements[b]
    /\ \A a \in Index : elements[a] = input[permutation[a]]

\* An element moved into place is never moved again: the vector is only sound
\* once, since the permutation still describes it as it was given.
InPlaceOnce ==
  [][\A a \in Index :
       (a < i \/ a \in visited) => elements'[a] = elements[a]]_sorting
=============================================================================
