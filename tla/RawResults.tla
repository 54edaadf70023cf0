----------------------------- MODULE RawResults -----------------------------
(***************************************************************************)
(* What a Raw container promises of its two results (datastructure.h and   *)
(* psi_client.h:132-168), said of the whole vectors at once: the reference *)
(* for the loops of RawAssociation and RawIntersect, and what PsiProtocol  *)
(* takes Raw to return.                                                    *)
(*                                                                         *)
(* decrypted and encrypted are vectors: functions from 0 .. n - 1 and from *)
(* 0 .. m - 1.                                                             *)
(***************************************************************************)
EXTENDS Integers, FiniteSets

\* Every pair of equal elements, by position.
EqualPairs(decrypted, encrypted) ==
  {ab \in (DOMAIN decrypted) \X (DOMAIN encrypted) : decrypted[ab[1]] = encrypted[ab[2]]}

Occurrences(v, vector) == {a \in DOMAIN vector : vector[a] = v}

\* The earlier occurrences of the element at position a.
Earlier(a, vector) == {b \in Occurrences(vector[a], vector) : b < a}

\* Of each value as many positions as both vectors have, the first ones of
\* decrypted: a position per setup element hit when the setup has no repeats.
CommonPositions(decrypted, encrypted) ==
  {a \in DOMAIN decrypted :
     Cardinality(Earlier(a, decrypted)) < Cardinality(Occurrences(decrypted[a], encrypted))}

Ascending(vector) ==
  \A a, b \in DOMAIN vector : a <= b => vector[a] <= vector[b]
StrictlyAscending(vector) ==
  \A a, b \in DOMAIN vector : a < b => vector[a] < vector[b]

\* The setup positions hit: what a streamed match counts (psi_match.h:39-42).
HitPositions(decrypted, encrypted) ==
  {b \in DOMAIN encrypted : \E a \in DOMAIN decrypted : decrypted[a] = encrypted[b]}
=============================================================================
