--------------------------- MODULE RawAssociation ---------------------------
(***************************************************************************)
(* Raw::GetAssociationTable (cpp/datastructure/raw.cpp:117-188): the       *)
(* decrypted response is sorted, as RawSort does, and joined with the      *)
(* setup's elements.  Each action of the join is one test of one of its    *)
(* nested loops.                                                           *)
(*                                                                         *)
(* encrypted_ comes from the server's message: the code sorts it nowhere   *)
(* on the client, so it may be in any order.                               *)
(***************************************************************************)
EXTENDS RawSort, RawResults, Sequences

CONSTANT SetupSizes   \* the numbers of elements a setup may have

ASSUME SetupSizesAssumption == SetupSizes \subseteq Nat

VARIABLES
  encrypted,       \* encrypted_
  left, right,     \* the join's i and j
  firstRight,      \* first_j
  firstEncrypted,  \* first_encrypted
  pairs,           \* decrypted_permutation and encrypted_permutation, zipped
  at               \* which loop of the join is running

join == <<left, right, firstRight, firstEncrypted, pairs, at>>
vars == <<sorting, encrypted, join>>

SetupSize == Cardinality(DOMAIN encrypted)

InitJoin ==
  /\ Init
  /\ \E m \in SetupSizes : encrypted \in [0 .. m - 1 -> Value]
  /\ left = 0 /\ right = 0 /\ firstRight = 0 /\ firstEncrypted \in Value
  /\ pairs = << >> /\ at = "sort"

-----------------------------------------------------------------------------
SortPhase ==
  \/ SortStep /\ UNCHANGED <<encrypted, join>>
  \/ /\ pc = "sorted" /\ at = "sort"
     /\ at' = "outer"
     /\ UNCHANGED <<sorting, encrypted, left, right, firstRight, firstEncrypted, pairs>>

LeftRemains  == left < size
RightRemains == right < SetupSize

\* while (i < decrypted.size() && j < encrypted_.size())
Outer ==
  /\ at = "outer"
  /\ at' = IF LeftRemains /\ RightRemains THEN "advance" ELSE "joined"
  /\ UNCHANGED <<sorting, encrypted, left, right, firstRight, firstEncrypted, pairs>>

\* Advance decrypted until it is no longer behind the setup.
AdvanceLeft ==
  /\ at = "advance" /\ LeftRemains /\ elements[left] < encrypted[right]
  /\ left' = left + 1
  /\ UNCHANGED <<sorting, encrypted, right, firstRight, firstEncrypted, pairs, at>>

LeftExhausted ==
  /\ at = "advance" /\ ~ LeftRemains
  /\ at' = "joined"
  /\ UNCHANGED <<sorting, encrypted, left, right, firstRight, firstEncrypted, pairs>>

Compare ==
  /\ at = "advance" /\ LeftRemains /\ elements[left] >= encrypted[right]
  /\ firstRight' = right /\ firstEncrypted' = encrypted[right]
  /\ at' = IF elements[left] = encrypted[right] THEN "pair" ELSE "skip"
  /\ UNCHANGED <<sorting, encrypted, left, right, pairs>>

\* One round of the do-while: the element at left pairs with each equal one.
AddPair ==
  /\ at = "pair"
  /\ pairs' = Append(pairs, <<permutation[left], right>>)
  /\ right' = right + 1
  /\ at' = IF right + 1 < SetupSize /\ elements[left] = encrypted[right + 1]
           THEN "pair" ELSE "repeat"
  /\ UNCHANGED <<sorting, encrypted, left, firstRight, firstEncrypted>>

RunStart(r) == r

\* Mutant: an element of the response that repeats is not looked for.
NeverRepeats == FALSE

Repeats == left + 1 < size /\ elements[left + 1] = firstEncrypted

\* The next element of the response, if it is equal, pairs with the same run.
RepeatLeft ==
  /\ at = "repeat"
  /\ left' = left + 1
  /\ IF Repeats
     THEN right' = RunStart(firstRight) /\ at' = "pair"
     ELSE at' = "skip" /\ UNCHANGED right
  /\ UNCHANGED <<sorting, encrypted, firstRight, firstEncrypted, pairs>>

\* Mutant: the left index is not tested.
MayReadUnguarded == RightRemains

\* The bounds that guard the last loop's comparison (raw.cpp:177-182).
MayRead == RightRemains /\ LeftRemains

SkipTest ==
  /\ at = "skip"
  /\ at' = IF MayRead THEN "read" ELSE "outer"
  /\ UNCHANGED <<sorting, encrypted, left, right, firstRight, firstEncrypted, pairs>>

\* Mutant: the setup's index stays where it is.
NotSkipped == right

Skipped == right + 1

SkipRight ==
  /\ at = "read"
  /\ IF elements[left] > encrypted[right]
     THEN right' = Skipped /\ at' = "skip"
     ELSE at' = "outer" /\ UNCHANGED right
  /\ UNCHANGED <<sorting, encrypted, left, firstRight, firstEncrypted, pairs>>

JoinStep ==
  \/ Outer
  \/ AdvanceLeft
  \/ LeftExhausted
  \/ Compare
  \/ AddPair
  \/ RepeatLeft
  \/ SkipTest
  \/ SkipRight

Next == SortPhase \/ JoinStep

\* The call runs on one thread to its end.
Spec == InitJoin /\ [][Next]_vars /\ WF_vars(Next)

-----------------------------------------------------------------------------
\* Wherever the next step reads an element, the index is inside its vector, in
\* whatever order the setup came: the read that raw.cpp:177-181 guards, "benign
\* in the 32-bit WASM heap but a segfault on native".
ReadsInBounds ==
  /\ at \in {"pair", "read"} => LeftRemains
  /\ at \in {"advance", "pair", "read"} => RightRemains

\* No pair of unequal elements is ever reported, whatever the setup's order; over
\* an ascending setup the table is exactly the equal pairs, each once, repeats on
\* either side included, by the positions the response came in.
TableIsExact ==
  LET equal == EqualPairs(input, encrypted)
  IN  /\ \A p \in 1 .. Len(pairs) : pairs[p] \in equal
      /\ at = "joined" /\ Ascending(encrypted) =>
           /\ {pairs[p] : p \in 1 .. Len(pairs)} = equal
           /\ Len(pairs) = Cardinality(equal)

\* The join ends, whatever the setup's order.
JoinEnds == <>(at = "joined")
=============================================================================
