---------------------------- MODULE PsiProtocol ----------------------------
(***************************************************************************)
(* PsiClient and PsiServer of cpp/psi_client.{h,cpp} and                   *)
(* cpp/psi_server.{h,cpp}, with an application that carries their messages *)
(* around: late, twice, out of order or not at all, and across objects     *)
(* that were deleted and created again, with a new key or with a kept one. *)
(*                                                                         *)
(* Once created, an object never changes: every call computes a message or *)
(* a result from the key, the reveal flag and what it is given.  What a    *)
(* Raw container returns is taken from RawResults, which RawAssociation    *)
(* and RawIntersect show its loops to compute; positions count from 1.     *)
(*                                                                         *)
(* A point of the curve is the item it was hashed from and the exponent    *)
(* each secret key has in it: raising to a key adds one, undoing it takes  *)
(* one away.  That is all the ECCommutativeCipher of the library           *)
(* private_join_and_compute is used for.                                   *)
(***************************************************************************)
EXTENDS RawResults, Sequences

CONSTANTS
  Item,          \* the strings the parties may hold
  ClientKey, ServerKey,
  ClientInputs,  \* the vectors of items a request may be made of
  ServerInputs,  \* ... and a setup
  Orders,        \* the orders the points' bytes may happen to be in
  MaxSetups, MaxRequests, MaxResponses   \* bounds: messages carried

Key == ClientKey \cup ServerKey

ASSUME PsiProtocolAssumption ==
  /\ ClientKey \cap ServerKey = {}
  /\ ClientInputs \subseteq Seq(Item) /\ ServerInputs \subseteq Seq(Item)
  /\ Orders \subseteq [Item -> Nat]
  /\ \A o \in Orders : \A x, y \in Item : o[x] = o[y] => x = y
  /\ MaxSetups \in Nat /\ MaxRequests \in Nat /\ MaxResponses \in Nat

VARIABLES
  client, server,  \* the object each party holds: [key, reveal]
  setups,          \* the messages made so far, each with the inputs, keys and
  requests,        \*   flag it was made with, which the code does not see
  responses,
  last,            \* what the last call returned to the client
  byteOrder        \* the order of the points of equal exponents

vars == <<client, server, setups, requests, responses, last, byteOrder>>

-----------------------------------------------------------------------------
(***************************************************************************)
(* Points.                                                                 *)
(***************************************************************************)
Encrypt(x, k)   == [item |-> x, power |-> [q \in Key |-> IF q = k THEN 1 ELSE 0]]
Decrypt(p, k)   == [item |-> p.item, power |-> [p.power EXCEPT ![k] = @ - 1]]
ReEncrypt(p, k) == [item |-> p.item, power |-> [p.power EXCEPT ![k] = @ + 1]]

EncryptAll(xs, k)   == [a \in DOMAIN xs |-> Encrypt(xs[a], k)]
ReEncryptAll(ps, k) == [a \in DOMAIN ps |-> ReEncrypt(ps[a], k)]
DecryptAll(ps, k)   == [a \in DOMAIN ps |-> Decrypt(ps[a], k)]

\* Points compared by their bytes; only points of equal exponents ever are,
\* where the order matters.
NotAfter(p, q) == byteOrder[p.item] <= byteOrder[q.item]

\* The permutations std::sort may leave behind.
SortingPermutations(ps) ==
  {f \in [DOMAIN ps -> DOMAIN ps] :
     /\ \A a, b \in DOMAIN ps : f[a] = f[b] => a = b
     /\ \A a, b \in DOMAIN ps : a < b => NotAfter(ps[f[a]], ps[f[b]])}

Permuted(ps, f) == [a \in DOMAIN ps |-> ps[f[a]]]

PointsOf(xs, k) == {Encrypt(xs[a], k) : a \in DOMAIN xs}

-----------------------------------------------------------------------------
\* A GCS and a Bloom filter promise the same and are refused in the same places:
\* "filter" is either.
Container == {"raw", "filter"}

\* A ServerSetup whose oneof is not set: what an empty message parses to.
EmptySetup ==
  [ds |-> "none", elements |-> << >>, accepts |-> {}, permutation |-> << >>,
   key |-> "none", inputs |-> << >>]

NoResult == [call |-> "none"]
Nothing  == "nothing"

Init ==
  /\ client \in [key : ClientKey, reveal : BOOLEAN]
  /\ server \in [key : ServerKey, reveal : BOOLEAN]
  /\ setups = {EmptySetup} /\ requests = {} /\ responses = {}
  /\ last = NoResult
  /\ byteOrder \in Orders

\* CreateWithNewKey and CreateFromKey: the old object is gone, the messages
\* made with it are not.
CreateClient(k, reveal) ==
  /\ client' = [key |-> k, reveal |-> reveal]
  /\ last' = NoResult
  /\ UNCHANGED <<server, setups, requests, responses, byteOrder>>

CreateServer(k, reveal) ==
  /\ server' = [key |-> k, reveal |-> reveal]
  /\ last' = NoResult
  /\ UNCHANGED <<client, setups, requests, responses, byteOrder>>

-----------------------------------------------------------------------------
(***************************************************************************)
(* The server.                                                             *)
(***************************************************************************)
\* What a filter made of xs answers yes to: never less than was
\* put in, and nothing at all if nothing was.
Accepted(xs, k, collisions) ==
  IF xs = << >> THEN {} ELSE PointsOf(xs, k) \cup collisions

\* Where the corrected rate, fpr / num_client_inputs, lies: zero client inputs put
\* it outside (0, 1), and with a rate of zero too make it a NaN.
CorrectedRate == {"inside", "outside", "nan"}

\* A filter's creation tests the rate.  A NaN passes the test, but converts to no
\* usable size: to a negative one, with which allocation fails, or to zero, by
\* which the hash of an element cannot be reduced.
SetupFails(ds, rate) == ds # "raw" /\ rate # "inside"

\* Of no elements a filter of size zero can be made.
FilterMade(ds, rate, xs) ==
  /\ ds # "raw"
  /\ \/ rate = "inside"
     \/ rate = "nan" /\ xs = << >>

\* Mutant: the permutation is not the one the elements were sorted by.
IdentityPermutation(f) == [a \in DOMAIN f |-> a]

\* sorting_permutation, as the caller of CreateSetupMessage receives it.
ReturnedPermutation(f) == f

CreateSetupMessage(xs, ds, rate, collisions) ==
  /\ Cardinality(setups) <= MaxSetups /\ last' = NoResult
  /\ \/ SetupFails(ds, rate) /\ UNCHANGED setups
     \/ /\ ds = "raw"
        /\ LET points == EncryptAll(xs, server.key) IN
           \E f \in SortingPermutations(points) :
             setups' = setups \cup
               {[ds |-> ds, elements |-> Permuted(points, f),
                 accepts |-> {}, permutation |-> ReturnedPermutation(f),
                 key |-> server.key, inputs |-> xs]}
     \/ /\ FilterMade(ds, rate, xs)
        /\ setups' = setups \cup
             {[ds |-> ds, elements |-> << >>,
               accepts |-> Accepted(xs, server.key, collisions),
               permutation |-> << >>, key |-> server.key, inputs |-> xs]}
  /\ UNCHANGED <<client, server, requests, responses, byteOrder>>

\* Mutants: the request's flag is not compared; the response is never sorted.
RevealAnything(q) == TRUE
NeverSorted(ps)   == {ps}

RevealAgreed(q) == q.reveal = server.reveal

\* In size-only mode the response does not keep the order of the request.
InResponseOrder(ps) ==
  IF server.reveal THEN {ps} ELSE {Permuted(ps, f) : f \in SortingPermutations(ps)}

ProcessRequest(q) ==
  /\ Cardinality(responses) < MaxResponses /\ last' = NoResult
  /\ IF RevealAgreed(q)
     THEN \E ps \in InResponseOrder(ReEncryptAll(q.elements, server.key)) :
            responses' = responses \cup
              {[elements |-> ps, request |-> q, key |-> server.key]}
     ELSE UNCHANGED responses
  /\ UNCHANGED <<client, server, setups, requests, byteOrder>>

-----------------------------------------------------------------------------
(***************************************************************************)
(* The client.                                                             *)
(***************************************************************************)
CreateRequest(xs) ==
  /\ Cardinality(requests) < MaxRequests /\ last' = NoResult
  /\ requests' = requests \cup
       {[reveal |-> client.reveal, elements |-> EncryptAll(xs, client.key),
         key |-> client.key, inputs |-> xs]}
  /\ UNCHANGED <<client, server, setups, responses, byteOrder>>

\* Container::Intersect over the decrypted response.
Intersect(m, ps) ==
  IF m.ds = "raw" THEN CommonPositions(ps, m.elements)
  ELSE {a \in DOMAIN ps : ps[a] \in m.accepts}

\* GetIntersection and GetAssociationTable are refused before anything else.
MayLearnPositions == client.reveal

Return(call, m, r, ok, value) ==
  /\ last' = [call |-> call, setup |-> m, response |-> r, client |-> client,
              ok |-> ok, value |-> IF ok THEN value ELSE Nothing]
  /\ UNCHANGED <<client, server, setups, requests, responses, byteOrder>>

\* Mutant: the response is decrypted with the key of the request.
DecryptedForAny(r) == DecryptAll(r.elements, r.request.key)

Decrypted(r) == DecryptAll(r.elements, client.key)

GetIntersection(m, r) ==
  Return("GetIntersection", m, r, MayLearnPositions /\ m.ds # "none",
         Intersect(m, Decrypted(r)))

GetIntersectionSize(m, r) ==
  Return("GetIntersectionSize", m, r, m.ds # "none",
         Cardinality(Intersect(m, Decrypted(r))))

GetAssociationTable(m, r) ==
  Return("GetAssociationTable", m, r, MayLearnPositions /\ m.ds = "raw",
         EqualPairs(Decrypted(r), m.elements))

\* Mutant: a setup with repeats is let in.
SealableRaw(m) == m.ds = "raw"

\* A setup that PsiMatch seals: Raw and without a repeat (psi_match.h:67-72).
Sealable(m) ==
  m.ds = "raw" /\ \A a, b \in DOMAIN m.elements : m.elements[a] = m.elements[b] => a = b

\* Mutant: a match records its pairs whatever the client's flag.
RecordsAlways == TRUE

RecordsPairs == client.reveal

\* CreateMatch, all of the setup, all of the response and Finish.
StreamedMatch(m, r) ==
  Return("PsiMatch", m, r, Sealable(m),
         [size  |-> Cardinality(HitPositions(Decrypted(r), m.elements)),
          pairs |-> IF RecordsPairs THEN EqualPairs(Decrypted(r), m.elements) ELSE {}])

-----------------------------------------------------------------------------
ServerCall ==
  \/ \E k \in ServerKey, reveal \in BOOLEAN : CreateServer(k, reveal)
  \/ \E xs \in ServerInputs, ds \in Container, rate \in CorrectedRate :
       \E collisions \in {{}, {Encrypt(x, server.key) : x \in Item}} :
         CreateSetupMessage(xs, ds, rate, collisions)
  \/ \E q \in requests : ProcessRequest(q)

ClientCall ==
  \/ \E k \in ClientKey, reveal \in BOOLEAN : CreateClient(k, reveal)
  \/ \E xs \in ClientInputs : CreateRequest(xs)
  \/ \E m \in setups, r \in responses :
       \/ GetIntersection(m, r)
       \/ GetIntersectionSize(m, r)
       \/ GetAssociationTable(m, r)
       \/ StreamedMatch(m, r)

Next == ServerCall \/ ClientCall

\* Nothing makes either party call.
Spec == Init /\ [][Next]_vars

-----------------------------------------------------------------------------
\* The three parts of what the last call was given belong together.
Done(call) == last # NoResult /\ last.call = call /\ last.ok
KeysMatch ==
  /\ last.setup.key = last.response.key
  /\ last.client.key = last.response.request.key
Asked   == last.response.request.inputs
Offered == last.setup.inputs

\* The positions of the request whose items the server had offered.
SharedPositions == {a \in DOMAIN Asked : Occurrences(Asked[a], Offered) # {}}

\* What GetIntersection and GetIntersectionSize tell a client is true of the two
\* sets, whatever was created, re-sent or answered in between: the common inputs
\* from a Raw setup, at least those from a filter; the size in both modes, though
\* in size-only mode the response comes in another order than the request
\* (psi_client.h:132-147, :159-168, psi_server.h:81-85).
IntersectionIsTrue ==
    /\ Done("GetIntersection") /\ KeysMatch /\ last.response.request.reveal =>
         IF last.setup.ds = "raw" THEN last.value = CommonPositions(Asked, Offered)
         ELSE SharedPositions \subseteq last.value
    /\ Done("GetIntersectionSize") /\ KeysMatch =>
         LET common == Cardinality(CommonPositions(Asked, Offered))
         IN  IF last.setup.ds = "raw" THEN last.value = common ELSE last.value >= common

\* Followed back through the server's sorting permutation, the association
\* table relates the rows both parties gave (psi_client.h:149-157, raw.cpp:57-81).
TableLeadsBack ==
  Done("GetAssociationTable") /\ KeysMatch /\ last.response.request.reveal =>
    {<<p[1], last.setup.permutation[p[2]]>> : p \in last.value} = EqualPairs(Asked, Offered)

\* A streamed match that is accepted tells what the one-shot calls tell
\* (psi_match.h:39-46).
MatchAgrees ==
  Done("PsiMatch") =>
    LET plain == DecryptAll(last.response.elements, last.client.key) IN
    /\ last.value.size = Cardinality(Intersect(last.setup, plain))
    /\ last.client.reveal => last.value.pairs = EqualPairs(plain, last.setup.elements)

\* A setup, a response and a client that do not belong together (a server that
\* came back with a new key, a client that did, an answer to an older request)
\* never look like an intersection.
TellsNothing ==
  CASE last.call \in {"GetIntersection", "GetAssociationTable"} -> last.value = {}
    [] last.call = "GetIntersectionSize" -> last.value = 0
    [] last.call = "PsiMatch" -> last.value = [size |-> 0, pairs |-> {}]
StrangersShareNothing ==
  last # NoResult /\ last.ok /\ ~ KeysMatch /\ last.setup.ds = "raw" => TellsNothing

\* A client created for the size only never learns a position, by any call.
SizeOnlyLearnsSize ==
  last # NoResult /\ last.ok /\ ~ last.client.reveal =>
    \/ last.call = "GetIntersectionSize"
    \/ last.call = "PsiMatch" /\ last.value.pairs = {}

\* The answer to a request for the size tells nothing of the order of the
\* request: two requests of the same items get the same answer, whatever mode
\* the server was created in meanwhile (psi_server.h:103-106).
SameItems(xs, ys) ==
  \A x \in Item : Cardinality(Occurrences(x, xs)) = Cardinality(Occurrences(x, ys))
OrderIsHidden ==
  \A r, t \in responses :
    ( /\ ~ r.request.reveal /\ ~ t.request.reveal
      /\ r.key = t.key /\ r.request.key = t.request.key
      /\ SameItems(r.request.inputs, t.request.inputs) )
    => r.elements = t.elements
=============================================================================
