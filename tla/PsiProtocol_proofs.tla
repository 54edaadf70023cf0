------------------------- MODULE PsiProtocol_proofs -------------------------
(***************************************************************************)
(* Proofs about PsiProtocol for any items, keys, inputs and number of      *)
(* messages carried.                                                       *)
(*                                                                         *)
(* The invariant says of each message made so far what its points are,     *)
(* whatever was created anew since.  What a call returns then follows from *)
(* when two points of a setup and of a decrypted response are equal.       *)
(***************************************************************************)
EXTENDS PsiProtocol, FiniteSetTheorems, NaturalsInduction, WellFoundedInduction, TLAPS

Permutes(f, D) == f \in [D -> D] /\ \A a, b \in D : f[a] = f[b] => a = b
Onto(f, D)     == \A c \in D : \E b \in D : f[b] = c

SetupInv(m) ==
  m.ds = "raw" =>
    /\ m.key \in ServerKey /\ m.inputs \in Seq(Item)
    /\ Permutes(m.permutation, DOMAIN m.inputs)
    /\ m.elements = [a \in DOMAIN m.inputs |-> Encrypt(m.inputs[m.permutation[a]], m.key)]

FilterInv(m) ==
  m.ds \notin {"raw", "none"} =>
    /\ m.key \in ServerKey
    /\ \A a \in DOMAIN m.inputs : Encrypt(m.inputs[a], m.key) \in m.accepts

RequestInv(q) ==
  /\ q.key \in ClientKey /\ q.inputs \in Seq(Item)
  /\ q.elements = EncryptAll(q.inputs, q.key)

\* An answer holds each point of the request once, in its order if positions
\* may be told.
ResponseInv(r) ==
  LET D == DOMAIN r.request.inputs IN
  /\ r.key \in ServerKey /\ RequestInv(r.request)
  /\ \E g :
       /\ Permutes(g, D)
       /\ r.elements =
            [a \in D |-> ReEncrypt(Encrypt(r.request.inputs[g[a]], r.request.key), r.key)]
       /\ r.request.reveal => \A a \in D : g[a] = a

IInv ==
  /\ client.key \in ClientKey /\ server.key \in ServerKey
  /\ \A m \in setups : SetupInv(m) /\ FilterInv(m)
  /\ \A q \in requests : RequestInv(q)
  /\ \A r \in responses : ResponseInv(r)

-----------------------------------------------------------------------------
\* A nonempty set of natural numbers has a least element: a property that fails
\* for some number fails for a least one.
LEMMA LeastElement ==
  ASSUME NEW S \in SUBSET Nat, S # {}
  PROVE  \E m \in S : \A i \in S : m <= i
<1> DEFINE R == {ss \in Nat \X Nat : ss[1] < ss[2]}
<1>1. IsWellFoundedOn(R, Nat)
  BY NatLessThanWellFounded DEF OpToRel
<1>2. \A i, m \in Nat : <<i, m>> \notin R => m <= i
  OBVIOUS
<1> HIDE DEF R
<1> QED
  BY <1>1, <1>2, WFMin

-----------------------------------------------------------------------------
\* A point of a response that the client has decrypted is one of a setup only
\* if the keys of all three belong together, and then if the items are equal.
LEMMA EqualPoints ==
  ASSUME NEW c \in ClientKey, NEW d \in ClientKey, NEW s \in ServerKey, NEW t \in ServerKey,
         NEW x, NEW y
  PROVE  /\ Decrypt(ReEncrypt(Encrypt(x, c), s), d) = Encrypt(y, t) => c = d /\ s = t
         /\ Decrypt(ReEncrypt(Encrypt(x, c), s), c) = Encrypt(x, s)
         /\ Encrypt(x, s) = Encrypt(y, s) <=> x = y
<1> DEFINE start == [q \in Key |-> IF q = c THEN 1 ELSE 0]
<1> DEFINE both == [start EXCEPT ![s] = @ + 1]
<1> DEFINE left == [both EXCEPT ![d] = @ - 1]
<1> DEFINE known == [q \in Key |-> IF q = t THEN 1 ELSE 0]
<1>1. /\ Decrypt(ReEncrypt(Encrypt(x, c), s), d) = [item |-> x, power |-> left]
      /\ Encrypt(y, t) = [item |-> y, power |-> known]
  BY DEF Decrypt, ReEncrypt, Encrypt
<1>2. c \in Key /\ d \in Key /\ s \in Key /\ t \in Key /\ s # c /\ s # d /\ t # c /\ t # d
  BY PsiProtocolAssumption DEF Key
<1>3. \A q \in Key : left[q] =
        (IF q = c THEN 1 ELSE 0) + (IF q = s THEN 1 ELSE 0) - (IF q = d THEN 1 ELSE 0)
  BY <1>2
<1>4. ASSUME left = known PROVE c = d /\ s = t
  <2>1. left[s] = known[s] /\ left[c] = known[c]
    BY <1>4
  <2> HIDE DEF left
  <2> QED
    BY <1>2, <1>3, <2>1
<1>5. Decrypt(ReEncrypt(Encrypt(x, c), s), d) = Encrypt(y, t) => left = known
  <2> HIDE DEF left, known
  <2> QED
    BY <1>1
<1>6. Decrypt(ReEncrypt(Encrypt(x, c), s), c) = Encrypt(x, s)
  <2>1. [[start EXCEPT ![s] = @ + 1] EXCEPT ![c] = @ - 1] = [q \in Key |-> IF q = s THEN 1 ELSE 0]
    BY <1>2
  <2> QED
    BY <2>1 DEF Decrypt, ReEncrypt, Encrypt
<1>7. Encrypt(x, s) = Encrypt(y, s) <=> x = y
  BY DEF Encrypt
<1> QED
  BY <1>4, <1>5, <1>6, <1>7

-----------------------------------------------------------------------------
LEMMA InitInv == Init => IInv
BY DEF Init, IInv, SetupInv, FilterInv, EmptySetup

LEMMA CreateSetupInv ==
  ASSUME IInv, NEW xs \in ServerInputs, NEW ds \in Container, NEW rate, NEW collisions,
         CreateSetupMessage(xs, ds, rate, collisions)
  PROVE  IInv'
<1>1. UNCHANGED <<client, server, requests, responses>>
  BY DEF CreateSetupMessage
<1>2. \A m \in setups' : SetupInv(m) /\ FilterInv(m)
  <2>1. CASE UNCHANGED setups
    BY <2>1 DEF IInv
  <2>2. ASSUME ds # "raw",
               setups' = setups \cup
                 {[ds |-> ds, elements |-> << >>,
                   accepts |-> Accepted(xs, server.key, collisions),
                   permutation |-> << >>, key |-> server.key, inputs |-> xs]}
        PROVE  \A m \in setups' : SetupInv(m) /\ FilterInv(m)
    <3> DEFINE new == [ds |-> ds, elements |-> << >>,
                       accepts |-> Accepted(xs, server.key, collisions),
                       permutation |-> << >>, key |-> server.key, inputs |-> xs]
    <3>1. xs \in Seq(Item) /\ server.key \in ServerKey
      BY PsiProtocolAssumption DEF IInv
    <3>2. \A a \in DOMAIN xs : Encrypt(xs[a], server.key) \in Accepted(xs, server.key, collisions)
      BY <3>1 DEF Accepted, PointsOf
    <3>3. SetupInv(new) /\ FilterInv(new)
      BY <2>2, <3>1, <3>2 DEF SetupInv, FilterInv
    <3> QED
      BY <2>2, <3>3 DEF IInv
  <2>3. ASSUME ds = "raw", NEW f \in SortingPermutations(EncryptAll(xs, server.key)),
               setups' = setups \cup
                 {[ds |-> ds, elements |-> Permuted(EncryptAll(xs, server.key), f),
                   accepts |-> {}, permutation |-> ReturnedPermutation(f),
                   key |-> server.key, inputs |-> xs]}
        PROVE  \A m \in setups' : SetupInv(m) /\ FilterInv(m)
    <3> DEFINE new == [ds |-> ds, elements |-> Permuted(EncryptAll(xs, server.key), f),
                       accepts |-> {}, permutation |-> ReturnedPermutation(f),
                       key |-> server.key, inputs |-> xs]
    <3>1. /\ f \in [DOMAIN xs -> DOMAIN xs]
          /\ \A a, b \in DOMAIN xs : f[a] = f[b] => a = b
      BY <2>3 DEF SortingPermutations, EncryptAll
    <3>2. xs \in Seq(Item) /\ server.key \in ServerKey
      BY PsiProtocolAssumption DEF IInv
    <3>3. Permuted(EncryptAll(xs, server.key), f) =
            [a \in DOMAIN xs |-> Encrypt(xs[f[a]], server.key)]
      BY <3>1 DEF Permuted, EncryptAll
    <3>4. SetupInv(new) /\ FilterInv(new)
      BY <2>3, <3>1, <3>2, <3>3 DEF SetupInv, FilterInv, Permutes, ReturnedPermutation
    <3> QED
      BY <2>3, <3>4 DEF IInv
  <2> QED
    BY <2>1, <2>2, <2>3 DEF CreateSetupMessage, FilterMade
<1> QED
  BY <1>1, <1>2 DEF IInv

LEMMA ProcessRequestInv ==
  ASSUME IInv, NEW q \in requests, ProcessRequest(q)
  PROVE  IInv'
<1>1. UNCHANGED <<client, server, setups, requests>>
  BY DEF ProcessRequest
<1>2. \A r \in responses' : ResponseInv(r)
  <2>1. CASE UNCHANGED responses
    BY <2>1 DEF IInv
  <2>2. ASSUME RevealAgreed(q), NEW ps \in InResponseOrder(ReEncryptAll(q.elements, server.key)),
               responses' = responses \cup {[elements |-> ps, request |-> q, key |-> server.key]}
        PROVE  \A r \in responses' : ResponseInv(r)
    <3> DEFINE all == ReEncryptAll(q.elements, server.key)
    <3>1. /\ q.key \in ClientKey /\ q.inputs \in Seq(Item) /\ q.elements = EncryptAll(q.inputs, q.key)
          /\ server.key \in ServerKey
      BY DEF IInv, RequestInv
    <3>2. all = [a \in DOMAIN q.inputs |-> ReEncrypt(Encrypt(q.inputs[a], q.key), server.key)]
      BY <3>1 DEF ReEncryptAll, EncryptAll
    <3>3. \A a \in DOMAIN q.inputs : q.inputs[a] \in Item
      BY <3>1
    <3>4. \E g :
            /\ Permutes(g, DOMAIN q.inputs)
            /\ ps = [a \in DOMAIN q.inputs |->
                       ReEncrypt(Encrypt(q.inputs[g[a]], q.key), server.key)]
            /\ q.reveal => \A a \in DOMAIN q.inputs : g[a] = a
      <4>1. CASE ps = all
        <5> DEFINE id == [a \in DOMAIN q.inputs |-> a]
        <5>1. Permutes(id, DOMAIN q.inputs) /\ \A a \in DOMAIN q.inputs : id[a] = a
          BY DEF Permutes
        <5>2. ps = [a \in DOMAIN q.inputs |->
                      ReEncrypt(Encrypt(q.inputs[id[a]], q.key), server.key)]
          BY <3>2, <4>1
        <5> HIDE DEF id
        <5> QED
          BY <5>1, <5>2
      <4>2. ASSUME NEW f \in SortingPermutations(all), ps = Permuted(all, f), ~ server.reveal
            PROVE  \E g :
                     /\ Permutes(g, DOMAIN q.inputs)
                     /\ ps = [a \in DOMAIN q.inputs |->
                                ReEncrypt(Encrypt(q.inputs[g[a]], q.key), server.key)]
                     /\ q.reveal => \A a \in DOMAIN q.inputs : g[a] = a
        <5>1. DOMAIN all = DOMAIN q.inputs
          BY <3>2
        <5>2. Permutes(f, DOMAIN q.inputs)
          BY <5>1 DEF SortingPermutations, Permutes
        <5>3. ps = [a \in DOMAIN q.inputs |->
                      ReEncrypt(Encrypt(q.inputs[f[a]], q.key), server.key)]
          BY <3>2, <4>2, <5>2 DEF Permuted, Permutes
        <5>4. ~ q.reveal
          BY <2>2, <4>2 DEF RevealAgreed
        <5> QED
          BY <5>2, <5>3, <5>4
      <4> QED
        BY <2>2, <4>1, <4>2 DEF InResponseOrder
    <3>5. ResponseInv([elements |-> ps, request |-> q, key |-> server.key])
      BY <3>1, <3>4 DEF ResponseInv, RequestInv
    <3> QED
      BY <2>2, <3>5 DEF IInv
  <2> QED
    BY <2>1, <2>2 DEF ProcessRequest
<1> QED
  BY <1>1, <1>2 DEF IInv

LEMMA CreateRequestInv ==
  ASSUME IInv, NEW xs \in ClientInputs, CreateRequest(xs)
  PROVE  IInv'
<1>1. RequestInv([reveal |-> client.reveal, elements |-> EncryptAll(xs, client.key),
                  key |-> client.key, inputs |-> xs])
  BY PsiProtocolAssumption DEF IInv, RequestInv
<1> QED
  BY <1>1 DEF IInv, CreateRequest

LEMMA Invariance == Spec => []IInv
<1>1. ASSUME IInv, Next PROVE IInv'
  <2>1. CASE ServerCall
    <3>1. ASSUME NEW k \in ServerKey, NEW reveal, CreateServer(k, reveal) PROVE IInv'
      BY <1>1, <3>1 DEF IInv, CreateServer
    <3> QED
      BY <1>1, <2>1, <3>1, CreateSetupInv, ProcessRequestInv DEF ServerCall
  <2>2. CASE ClientCall
    <3>1. ASSUME NEW k \in ClientKey, NEW reveal, CreateClient(k, reveal) PROVE IInv'
      BY <1>1, <3>1 DEF IInv, CreateClient
    <3>2. ASSUME NEW m, NEW r,
                 GetIntersection(m, r) \/ GetIntersectionSize(m, r)
                 \/ GetAssociationTable(m, r) \/ StreamedMatch(m, r)
          PROVE  IInv'
      BY <1>1, <3>2
      DEF IInv, GetIntersection, GetIntersectionSize, GetAssociationTable, StreamedMatch, Return
    <3> QED
      BY <1>1, <2>2, <3>1, <3>2, CreateRequestInv DEF ClientCall
  <2> QED
    BY <1>1, <2>1, <2>2 DEF Next
<1>2. IInv /\ UNCHANGED vars => IInv'
  BY DEF IInv, vars
<1> QED
  BY <1>1, <1>2, InitInv, PTL DEF Spec

-----------------------------------------------------------------------------
(***************************************************************************)
(* What a call returns.                                                    *)
(***************************************************************************)
Learned(m, r) ==
  \/ GetIntersection(m, r)
  \/ GetIntersectionSize(m, r)
  \/ GetAssociationTable(m, r)
  \/ StreamedMatch(m, r)

LEMMA CallsAndResults ==
  Next => last' = NoResult \/ \E m \in setups, r \in responses : Learned(m, r)
BY DEF Next, ServerCall, ClientCall, Learned, CreateServer, CreateSetupMessage, ProcessRequest,
       CreateClient, CreateRequest

\* A client created for the size only never learns a position: the calls that
\* return positions are refused first, and a match records no pair
\* (psi_client.cpp, psi_match.cpp), in every run with any inputs and keys.
THEOREM PositionsStaySecret == Spec => []SizeOnlyLearnsSize
<1>1. Init => SizeOnlyLearnsSize
  BY DEF Init, SizeOnlyLearnsSize
<1>2. ASSUME Next PROVE SizeOnlyLearnsSize'
  <2>1. CASE last' = NoResult
    BY <2>1 DEF SizeOnlyLearnsSize, NoResult
  <2>2. ASSUME NEW m \in setups, NEW r \in responses, Learned(m, r)
        PROVE  SizeOnlyLearnsSize'
    <3>1. CASE GetIntersection(m, r)
      BY <3>1 DEF GetIntersection, Return, MayLearnPositions, SizeOnlyLearnsSize
    <3>2. CASE GetIntersectionSize(m, r)
      BY <3>2 DEF GetIntersectionSize, Return, SizeOnlyLearnsSize
    <3>3. CASE GetAssociationTable(m, r)
      BY <3>3 DEF GetAssociationTable, Return, MayLearnPositions, SizeOnlyLearnsSize
    <3>4. CASE StreamedMatch(m, r)
      BY <3>4 DEF StreamedMatch, Return, RecordsPairs, SizeOnlyLearnsSize
    <3> QED
      BY <2>2, <3>1, <3>2, <3>3, <3>4 DEF Learned
  <2> QED
    BY <1>2, <2>1, <2>2, CallsAndResults
<1>3. SizeOnlyLearnsSize /\ UNCHANGED vars => SizeOnlyLearnsSize'
  BY DEF SizeOnlyLearnsSize, vars
<1> QED
  BY <1>1, <1>2, <1>3, PTL DEF Spec

-----------------------------------------------------------------------------
LEMMA NoEqualsNoResults ==
  ASSUME NEW ps, NEW es, IsFiniteSet(DOMAIN ps),
         \A a \in DOMAIN ps, b \in DOMAIN es : ps[a] # es[b]
  PROVE  EqualPairs(ps, es) = {} /\ CommonPositions(ps, es) = {} /\ HitPositions(ps, es) = {}
<1>1. EqualPairs(ps, es) = {} /\ HitPositions(ps, es) = {}
  BY DEF EqualPairs, HitPositions
<1>2. ASSUME NEW a \in DOMAIN ps
      PROVE  ~ (Cardinality(Earlier(a, ps)) < Cardinality(Occurrences(ps[a], es)))
  <2>1. Occurrences(ps[a], es) = {}
    BY DEF Occurrences
  <2>2. Earlier(a, ps) \in SUBSET DOMAIN ps
    BY DEF Earlier, Occurrences
  <2>3. Cardinality(Earlier(a, ps)) \in Nat
    BY <2>2, FS_Subset, FS_CardinalityType
  <2> QED
    BY <2>1, <2>3, FS_EmptySet
<1> QED
  BY <1>1, <1>2 DEF CommonPositions

\* What the client has after decrypting, with whatever key it has by now.
LEMMA DecryptedPoints ==
  ASSUME IInv, NEW r \in responses
  PROVE  LET D == DOMAIN r.request.inputs IN
         /\ D = 1 .. Len(r.request.inputs) /\ D \in SUBSET Nat /\ IsFiniteSet(D)
         /\ DOMAIN Decrypted(r) = D
         /\ \E g :
              /\ Permutes(g, D)
              /\ r.request.reveal => \A a \in D : g[a] = a
              /\ \A a \in D : Decrypted(r)[a] =
                   Decrypt(ReEncrypt(Encrypt(r.request.inputs[g[a]], r.request.key), r.key),
                           client.key)
<1> DEFINE D == DOMAIN r.request.inputs
<1>1. ResponseInv(r)
  BY DEF IInv
<1>2. PICK g :
        /\ Permutes(g, D)
        /\ r.elements =
             [a \in D |-> ReEncrypt(Encrypt(r.request.inputs[g[a]], r.request.key), r.key)]
        /\ r.request.reveal => \A a \in D : g[a] = a
  BY <1>1 DEF ResponseInv
<1>3. r.request.inputs \in Seq(Item)
  BY <1>1 DEF ResponseInv, RequestInv
<1>4. D = 1 .. Len(r.request.inputs) /\ Len(r.request.inputs) \in Nat
  BY <1>3
<1>5. D \in SUBSET Nat /\ IsFiniteSet(D)
  BY <1>4, FS_Interval
<1>6. /\ DOMAIN Decrypted(r) = D
      /\ \A a \in D : Decrypted(r)[a] =
           Decrypt(ReEncrypt(Encrypt(r.request.inputs[g[a]], r.request.key), r.key), client.key)
  BY <1>2 DEF Decrypted, DecryptAll
<1> QED
  BY <1>2, <1>4, <1>5, <1>6

LEMMA StrangePoints ==
  ASSUME IInv, NEW m \in setups, NEW r \in responses, m.ds = "raw",
         ~ (m.key = r.key /\ client.key = r.request.key)
  PROVE  /\ IsFiniteSet(DOMAIN Decrypted(r))
         /\ \A a \in DOMAIN Decrypted(r), b \in DOMAIN m.elements :
              Decrypted(r)[a] # m.elements[b]
<1>1. SetupInv(m) /\ ResponseInv(r) /\ client.key \in ClientKey
  BY DEF IInv
<1>2. IsFiniteSet(DOMAIN Decrypted(r))
  BY DecryptedPoints
<1>3. ASSUME NEW a \in DOMAIN Decrypted(r), NEW b \in DOMAIN m.elements
      PROVE  Decrypted(r)[a] # m.elements[b]
  <2>1. PICK x : Decrypted(r)[a] = Decrypt(ReEncrypt(Encrypt(x, r.request.key), r.key), client.key)
    BY DecryptedPoints
  <2>2. m.elements[b] = Encrypt(m.inputs[m.permutation[b]], m.key) /\ m.key \in ServerKey
    BY <1>1 DEF SetupInv
  <2>3. r.key \in ServerKey /\ r.request.key \in ClientKey
    BY <1>1 DEF ResponseInv, RequestInv
  <2>4. Decrypt(ReEncrypt(Encrypt(x, r.request.key), r.key), client.key)
          # Encrypt(m.inputs[m.permutation[b]], m.key)
    BY <1>1, <2>2, <2>3, EqualPoints
  <2> QED
    BY <2>1, <2>2, <2>4
<1> QED
  BY <1>2, <1>3

\* A Raw setup, a response and a client whose keys do not belong together never
\* look like an intersection, by any of the four calls, whatever the inputs, the
\* keys and the number of messages carried (psi_client.cpp, psi_server.cpp).
THEOREM StrangersNeverMatch == Spec => []StrangersShareNothing
<1>1. Init => StrangersShareNothing
  BY DEF Init, StrangersShareNothing
<1>2. ASSUME IInv, Next PROVE StrangersShareNothing'
  <2>1. CASE last' = NoResult
    BY <2>1 DEF StrangersShareNothing, NoResult
  <2>2. ASSUME NEW m \in setups, NEW r \in responses, Learned(m, r)
        PROVE  StrangersShareNothing'
    <3>1. /\ last'.setup = m /\ last'.response = r /\ last'.client = client
      BY <2>2 DEF Learned, GetIntersection, GetIntersectionSize, GetAssociationTable,
                  StreamedMatch, Return
    <3>2. SUFFICES ASSUME last'.ok, ~ KeysMatch', m.ds = "raw"
                   PROVE  TellsNothing'
      BY <3>1 DEF StrangersShareNothing
    <3>3. ~ (m.key = r.key /\ client.key = r.request.key)
      BY <3>1, <3>2 DEF KeysMatch
    <3>4. /\ EqualPairs(Decrypted(r), m.elements) = {}
          /\ CommonPositions(Decrypted(r), m.elements) = {}
          /\ HitPositions(Decrypted(r), m.elements) = {}
      BY <1>2, <3>2, <3>3, StrangePoints, NoEqualsNoResults
    <3>5. Intersect(m, Decrypted(r)) = {}
      BY <3>2, <3>4 DEF Intersect
    <3>6. CASE GetIntersection(m, r)
      BY <3>2, <3>5, <3>6 DEF GetIntersection, Return, TellsNothing
    <3>7. CASE GetIntersectionSize(m, r)
      BY <3>2, <3>5, <3>7, FS_EmptySet DEF GetIntersectionSize, Return, TellsNothing
    <3>8. CASE GetAssociationTable(m, r)
      BY <3>2, <3>4, <3>8 DEF GetAssociationTable, Return, TellsNothing
    <3>9. CASE StreamedMatch(m, r)
      BY <3>2, <3>4, <3>9, FS_EmptySet DEF StreamedMatch, Return, TellsNothing
    <3> QED
      BY <2>2, <3>6, <3>7, <3>8, <3>9 DEF Learned
  <2> QED
    BY <1>2, <2>1, <2>2, CallsAndResults
<1>3. StrangersShareNothing /\ UNCHANGED vars => StrangersShareNothing'
  BY DEF StrangersShareNothing, KeysMatch, TellsNothing, vars
<1> QED
  BY <1>1, <1>2, <1>3, Invariance, PTL DEF Spec

-----------------------------------------------------------------------------
\* A permutation of a finite set is onto.
LEMMA PermutationsAreOnto ==
  ASSUME NEW D, IsFiniteSet(D), NEW f, Permutes(f, D)
  PROVE  Onto(f, D)
<1>1. f \in Injection(D, D)
  BY DEF Permutes, Injection, IsInjective
<1>2. f \in Surjection(D, D)
  BY <1>1, FS_Injection
<1> QED
  BY <1>2 DEF Surjection, Onto

\* A permutation of a setup leaves out no row of it.
LEMMA EveryRowIsPlaced ==
  ASSUME NEW m, SetupInv(m), m.ds = "raw", NEW c \in DOMAIN m.inputs
  PROVE  \E b \in DOMAIN m.inputs : m.permutation[b] = c
<1>1. DOMAIN m.inputs = 1 .. Len(m.inputs) /\ Len(m.inputs) \in Nat
  BY DEF SetupInv
<1>2. IsFiniteSet(DOMAIN m.inputs)
  BY <1>1, FS_Interval
<1> QED
  BY <1>2, PermutationsAreOnto DEF SetupInv, Onto

\* When the keys belong together, points are equal where items are.
LEMMA BelongingPoints ==
  ASSUME IInv, NEW m \in setups, NEW r \in responses, m.ds = "raw",
         m.key = r.key, client.key = r.request.key
  PROVE  LET asked == r.request.inputs
             offered == m.inputs IN
         /\ DOMAIN Decrypted(r) = DOMAIN asked
         /\ DOMAIN asked \in SUBSET Nat /\ IsFiniteSet(DOMAIN asked)
         /\ DOMAIN m.elements = DOMAIN offered
         /\ DOMAIN offered \in SUBSET Nat /\ IsFiniteSet(DOMAIN offered)
         /\ \E g :
              /\ Permutes(g, DOMAIN asked)
              /\ r.request.reveal => \A a \in DOMAIN asked : g[a] = a
              /\ \A a, b \in DOMAIN asked :
                   Decrypted(r)[a] = Decrypted(r)[b] <=> asked[g[a]] = asked[g[b]]
              /\ \A a \in DOMAIN asked, b \in DOMAIN offered :
                   Decrypted(r)[a] = m.elements[b] <=> asked[g[a]] = offered[m.permutation[b]]
<1> DEFINE asked == r.request.inputs
<1> DEFINE offered == m.inputs
<1>1. SetupInv(m) /\ ResponseInv(r) /\ client.key \in ClientKey
  BY DEF IInv
<1>2. m.key \in ServerKey
  BY <1>1 DEF SetupInv
<1>3. /\ DOMAIN Decrypted(r) = DOMAIN asked
      /\ DOMAIN asked \in SUBSET Nat /\ IsFiniteSet(DOMAIN asked)
  BY DecryptedPoints
<1>4. PICK g :
        /\ Permutes(g, DOMAIN asked)
        /\ r.request.reveal => \A a \in DOMAIN asked : g[a] = a
        /\ \A a \in DOMAIN asked : Decrypted(r)[a] =
             Decrypt(ReEncrypt(Encrypt(asked[g[a]], r.request.key), r.key), client.key)
  BY DecryptedPoints
<1>5. \A a \in DOMAIN asked : Decrypted(r)[a] = Encrypt(asked[g[a]], m.key)
  <2>1. \A x : Decrypt(ReEncrypt(Encrypt(x, client.key), m.key), client.key) = Encrypt(x, m.key)
    BY <1>1, <1>2, EqualPoints
  <2> QED
    BY <1>4, <2>1
<1>6. /\ DOMAIN m.elements = DOMAIN offered
      /\ \A b \in DOMAIN offered : m.elements[b] = Encrypt(offered[m.permutation[b]], m.key)
  BY <1>1 DEF SetupInv
<1>7. DOMAIN offered \in SUBSET Nat /\ IsFiniteSet(DOMAIN offered)
  <2>1. DOMAIN offered = 1 .. Len(offered) /\ Len(offered) \in Nat
    BY <1>1 DEF SetupInv
  <2> QED
    BY <2>1, FS_Interval
<1>8. \A x, y : Encrypt(x, m.key) = Encrypt(y, m.key) <=> x = y
  BY <1>1, <1>2, EqualPoints
<1>9. \A a, b \in DOMAIN asked :
        Decrypted(r)[a] = Decrypted(r)[b] <=> asked[g[a]] = asked[g[b]]
  BY <1>5, <1>8
<1>10. \A a \in DOMAIN asked, b \in DOMAIN offered :
         Decrypted(r)[a] = m.elements[b] <=> asked[g[a]] = offered[m.permutation[b]]
  BY <1>5, <1>6, <1>8
<1> QED
  BY <1>3, <1>4, <1>6, <1>7, <1>9, <1>10

\* Followed back through the permutation the server was given, the association
\* table relates the rows both parties gave, whatever the inputs, their
\* repeats and the order of the points (psi_client.h:149-157, raw.cpp:57-81).
THEOREM TableRelatesRows == Spec => []TableLeadsBack
<1>1. Init => TableLeadsBack
  BY DEF Init, TableLeadsBack, Done
<1>2. ASSUME IInv, Next PROVE TableLeadsBack'
  <2>1. CASE last' = NoResult
    BY <2>1 DEF TableLeadsBack, Done, NoResult
  <2>2. ASSUME NEW m \in setups, NEW r \in responses, Learned(m, r)
        PROVE  TableLeadsBack'
    <3>1. CASE GetAssociationTable(m, r)
      <4> DEFINE asked == r.request.inputs
      <4> DEFINE offered == m.inputs
      <4> DEFINE table == EqualPairs(Decrypted(r), m.elements)
      <4>1. /\ last'.setup = m /\ last'.response = r /\ last'.client = client
            /\ last'.ok => m.ds = "raw" /\ last'.value = table
        BY <3>1 DEF GetAssociationTable, Return
      <4>2. ASSUME m.ds = "raw", r.request.reveal, m.key = r.key, client.key = r.request.key
            PROVE  {<<p[1], m.permutation[p[2]]>> : p \in table} = EqualPairs(asked, offered)
        <5>1. table = {ab \in (DOMAIN asked) \X (DOMAIN offered) :
                         asked[ab[1]] = offered[m.permutation[ab[2]]]}
          <6>1. /\ DOMAIN Decrypted(r) = DOMAIN asked /\ DOMAIN m.elements = DOMAIN offered
                /\ \A a \in DOMAIN asked, b \in DOMAIN offered :
                     Decrypted(r)[a] = m.elements[b] <=> asked[a] = offered[m.permutation[b]]
            BY <1>2, <4>2, BelongingPoints
          <6> QED
            BY <6>1 DEF EqualPairs
        <5>2. SetupInv(m) /\ m.permutation \in [DOMAIN offered -> DOMAIN offered]
          BY <1>2, <4>2 DEF IInv, SetupInv, Permutes
        <5>3. ASSUME NEW p \in table
              PROVE  <<p[1], m.permutation[p[2]]>> \in EqualPairs(asked, offered)
          BY <5>1, <5>2, <5>3 DEF EqualPairs
        <5>4. ASSUME NEW ac \in EqualPairs(asked, offered)
              PROVE  \E p \in table : ac = <<p[1], m.permutation[p[2]]>>
          <6>1. /\ ac = <<ac[1], ac[2]>>
                /\ ac[1] \in DOMAIN asked /\ ac[2] \in DOMAIN offered
                /\ asked[ac[1]] = offered[ac[2]]
            BY <5>4 DEF EqualPairs
          <6>2. PICK b \in DOMAIN offered : m.permutation[b] = ac[2]
            BY <4>2, <5>2, <6>1, EveryRowIsPlaced
          <6>3. <<ac[1], b>> \in table
            BY <5>1, <6>1, <6>2
          <6> HIDE DEF table
          <6> QED
            BY <6>1, <6>2, <6>3
        <5> HIDE DEF table
        <5> QED
          BY <5>3, <5>4
      <4> HIDE DEF table
      <4> QED
        BY <4>1, <4>2 DEF TableLeadsBack, Done, KeysMatch, Asked, Offered
    <3>2. CASE ~ GetAssociationTable(m, r)
      BY <2>2, <3>2 DEF Learned, GetIntersection, GetIntersectionSize, StreamedMatch, Return,
                        TableLeadsBack, Done
    <3> QED
      BY <3>1, <3>2
  <2> QED
    BY <1>2, <2>1, <2>2, CallsAndResults
<1>3. TableLeadsBack /\ UNCHANGED vars => TableLeadsBack'
  BY DEF TableLeadsBack, Done, KeysMatch, Asked, Offered, vars
<1> QED
  BY <1>1, <1>2, <1>3, Invariance, PTL DEF Spec

-----------------------------------------------------------------------------
(***************************************************************************)
(* Counting.  Of each value both vectors have, CommonPositions takes as    *)
(* many positions as they share, so neither the order of the response nor  *)
(* that of the setup changes how many there are.                           *)
(***************************************************************************)

\* The members of a finite set of numbers have the ranks from 0 on, each once.
LEMMA Ranks ==
  ASSUME NEW S \in SUBSET Nat, IsFiniteSet(S)
  PROVE  /\ \A a, b \in S :
              Cardinality({x \in S : x < a}) = Cardinality({x \in S : x < b}) => a = b
         /\ \A n \in 0 .. Cardinality(S) - 1 :
              \E a \in S : Cardinality({x \in S : x < a}) = n
         /\ \A a \in S : Cardinality({x \in S : x < a}) \in 0 .. Cardinality(S) - 1
<1> DEFINE Below(a) == {x \in S : x < a}
<1> DEFINE n == Cardinality(S)
<1>1. n \in Nat /\ \A a \in S : IsFiniteSet(Below(a)) /\ Cardinality(Below(a)) \in Nat
  BY FS_Subset, FS_CardinalityType
<1>2. ASSUME NEW a \in S, NEW b \in S, a < b
      PROVE  Cardinality(Below(a)) # Cardinality(Below(b))
  <2> USE <1>2
  <2>1. a \in Below(b)
    OBVIOUS
  <2>2. a \in Nat /\ b \in Nat /\ \A x \in S : x \in Nat
    OBVIOUS
  <2>3. a \notin Below(a)
    BY <2>2
  <2>4. \A x \in S : x < a => x < b
    BY <2>2
  <2>5. Below(a) \in SUBSET Below(b)
    BY <2>4
  <2> HIDE DEF Below
  <2> QED
    BY <1>1, <2>1, <2>3, <2>5, FS_Subset
<1>3. \A a, b \in S : Cardinality(Below(a)) = Cardinality(Below(b)) => a = b
  <2> HIDE DEF Below
  <2> QED
    BY <1>2
<1>4. \A a \in S : Cardinality(Below(a)) \in 0 .. n - 1
  <2> SUFFICES ASSUME NEW a \in S PROVE Cardinality(Below(a)) \in 0 .. n - 1
    OBVIOUS
  <2>1. Below(a) \in SUBSET S /\ a \notin Below(a)
    OBVIOUS
  <2> HIDE DEF Below
  <2>2. Cardinality(Below(a)) <= n /\ Cardinality(Below(a)) # n
    BY <1>1, <2>1, FS_Subset
  <2> HIDE DEF n
  <2> QED
    BY <1>1, <2>2
<1> DEFINE rank == [a \in S |-> Cardinality(Below(a))]
<1>5. rank \in Injection(S, 0 .. n - 1)
  <2> HIDE DEF Below, n
  <2> QED
    BY <1>3, <1>4 DEF Injection, IsInjective
<1>6. IsFiniteSet(0 .. n - 1) /\ Cardinality(0 .. n - 1) = n
  <2> HIDE DEF n
  <2> QED
    BY <1>1, FS_Interval
<1>7. rank \in Surjection(S, 0 .. n - 1)
  <2> HIDE DEF rank
  <2> QED
    BY <1>5, <1>6, FS_Injection
<1>8. \A k \in 0 .. n - 1 : \E a \in S : Cardinality(Below(a)) = k
  <2> HIDE DEF Below, n
  <2> QED
    BY <1>7 DEF Surjection
<1> QED
  BY <1>3, <1>4, <1>8

LEMMA FiniteOccurrences ==
  ASSUME NEW vector, DOMAIN vector \in SUBSET Nat, IsFiniteSet(DOMAIN vector), NEW v
  PROVE  /\ Occurrences(v, vector) \in SUBSET Nat
         /\ IsFiniteSet(Occurrences(v, vector)) /\ Cardinality(Occurrences(v, vector)) \in Nat
         /\ \A a \in DOMAIN vector :
              IsFiniteSet(Earlier(a, vector)) /\ Cardinality(Earlier(a, vector)) \in Nat
<1>1. Occurrences(v, vector) \in SUBSET DOMAIN vector
  BY DEF Occurrences
<1>2. \A a \in DOMAIN vector : Earlier(a, vector) \in SUBSET DOMAIN vector
  BY DEF Earlier, Occurrences
<1> QED
  BY <1>1, <1>2, FS_Subset, FS_CardinalityType

\* The value v is in es where the value x is in ys, but for the permutation f.
Follows(v, es, x, ys, f) ==
  /\ DOMAIN es = DOMAIN ys /\ Permutes(f, DOMAIN ys)
  /\ \A b \in DOMAIN ys : es[b] = v <=> ys[f[b]] = x

LEMMA SameOccurrences ==
  ASSUME NEW v, NEW es, NEW x, NEW ys, NEW f, Follows(v, es, x, ys, f), IsFiniteSet(DOMAIN ys)
  PROVE  Cardinality(Occurrences(v, es)) = Cardinality(Occurrences(x, ys))
<1> DEFINE S == Occurrences(v, es)
<1> DEFINE T == Occurrences(x, ys)
<1> DEFINE h == [b \in S |-> f[b]]
<1>1. \A b \in S : b \in DOMAIN ys /\ f[b] \in T
  BY DEF Occurrences, Follows, Permutes
<1>2. \A c \in T : \E b \in S : f[b] = c
  <2> SUFFICES ASSUME NEW c \in T PROVE \E b \in S : f[b] = c
    OBVIOUS
  <2>1. c \in DOMAIN ys /\ ys[c] = x
    BY DEF Occurrences
  <2>2. PICK b \in DOMAIN ys : f[b] = c
    BY <2>1, PermutationsAreOnto DEF Follows, Onto
  <2> QED
    BY <2>1, <2>2 DEF Occurrences, Follows
<1>3. h \in Surjection(S, T)
  <2> HIDE DEF S, T
  <2> QED
    BY <1>1, <1>2 DEF Surjection
<1>4. h \in Injection(S, T)
  <2> HIDE DEF S, T
  <2> QED
    BY <1>1 DEF Injection, IsInjective, Follows, Permutes
<1>5. IsFiniteSet(S)
  BY <1>1, FS_Subset
<1> HIDE DEF h, S, T
<1>6. Cardinality(T) = Cardinality(S)
  BY <1>3, <1>4, <1>5, FS_Surjection
<1> QED
  BY <1>6 DEF S, T

\* The ranks among equal elements, with the counts, make a position common.
LEMMA CommonByRank ==
  ASSUME NEW xs, NEW ys, NEW v, NEW b \in Occurrences(v, xs)
  PROVE  b \in CommonPositions(xs, ys) <=>
           Cardinality({x \in Occurrences(v, xs) : x < b}) < Cardinality(Occurrences(v, ys))
<1>1. b \in DOMAIN xs /\ xs[b] = v
  BY DEF Occurrences
<1>2. Earlier(b, xs) = {x \in Occurrences(v, xs) : x < b}
  BY <1>1 DEF Earlier
<1> QED
  BY <1>1, <1>2 DEF CommonPositions

\* The number of common positions is the same in any order of both vectors.
LEMMA SameCommon ==
  ASSUME NEW D \in SUBSET Nat, IsFiniteSet(D), NEW E \in SUBSET Nat, IsFiniteSet(E),
         NEW g, Permutes(g, D), NEW f, Permutes(f, E),
         NEW xs, NEW ps, DOMAIN xs = D, DOMAIN ps = D,
         NEW ys, NEW es, DOMAIN ys = E, DOMAIN es = E,
         \A a, b \in D : ps[a] = ps[b] <=> xs[g[a]] = xs[g[b]],
         \A a \in D, b \in E : ps[a] = es[b] <=> xs[g[a]] = ys[f[b]]
  PROVE  Cardinality(CommonPositions(ps, es)) = Cardinality(CommonPositions(xs, ys))
<1> DEFINE S(a) == Occurrences(ps[a], ps)
<1> DEFINE T(a) == Occurrences(xs[g[a]], xs)
<1> DEFINE RankS(a, b) == Cardinality({x \in S(a) : x < b})
<1> DEFINE RankT(a, b) == Cardinality({x \in T(a) : x < b})
<1> DEFINE P == CommonPositions(ps, es)
<1> DEFINE X == CommonPositions(xs, ys)
<1>1. \A a \in D : g[a] \in D
  BY DEF Permutes
<1>2. ASSUME NEW a \in D
      PROVE  /\ S(a) \in SUBSET Nat /\ IsFiniteSet(S(a))
             /\ T(a) \in SUBSET Nat /\ IsFiniteSet(T(a))
             /\ Cardinality(S(a)) = Cardinality(T(a))
             /\ Cardinality(Occurrences(ps[a], es)) = Cardinality(Occurrences(xs[g[a]], ys))
             /\ a \in S(a) /\ g[a] \in T(a) /\ S(a) \subseteq D /\ T(a) \subseteq D
  <2>1. /\ S(a) \in SUBSET Nat /\ IsFiniteSet(S(a))
        /\ T(a) \in SUBSET Nat /\ IsFiniteSet(T(a))
    BY FiniteOccurrences
  <2>2. Follows(ps[a], ps, xs[g[a]], xs, g)
    BY <1>2 DEF Follows
  <2>3. Cardinality(S(a)) = Cardinality(T(a))
    BY <2>2, SameOccurrences
  <2>4. Follows(ps[a], es, xs[g[a]], ys, f)
    BY <1>2 DEF Follows
  <2>5. Cardinality(Occurrences(ps[a], es)) = Cardinality(Occurrences(xs[g[a]], ys))
    BY <2>4, SameOccurrences
  <2>6. a \in S(a) /\ g[a] \in T(a) /\ S(a) \subseteq D /\ T(a) \subseteq D
    BY <1>1, <1>2 DEF Occurrences
  <2> QED
    BY <2>1, <2>3, <2>5, <2>6
<1>3. \A a \in D, b \in D : b \in S(a) => S(b) = S(a) /\ T(b) = T(a)
  BY DEF Occurrences
<1>4. \A a, b \in D : T(a) = T(b) => S(a) = S(b)
  <2> SUFFICES ASSUME NEW a \in D, NEW b \in D, T(a) = T(b) PROVE S(a) = S(b)
    OBVIOUS
  <2>1. g[a] \in T(b)
    BY <1>2
  <2>2. xs[g[a]] = xs[g[b]]
    BY <2>1 DEF Occurrences
  <2>3. ps[a] = ps[b]
    BY <2>2
  <2> QED
    BY <2>3
<1>5. ASSUME NEW a \in D, NEW b \in S(a)
      PROVE  b \in P <=> RankS(a, b) < Cardinality(Occurrences(ps[a], es))
  BY <1>5, CommonByRank
<1>6. ASSUME NEW a \in D, NEW b \in T(a)
      PROVE  b \in X <=> RankT(a, b) < Cardinality(Occurrences(ps[a], es))
  BY <1>1, <1>2, <1>6, CommonByRank
<1>7. ASSUME NEW a \in D
      PROVE  /\ \A b \in S(a) : \E c \in T(a) : RankT(a, c) = RankS(a, b)
             /\ \A c \in T(a) : \E b \in S(a) : RankT(a, c) = RankS(a, b)
             /\ \A b, c \in S(a) : RankS(a, b) = RankS(a, c) => b = c
             /\ \A b, c \in T(a) : RankT(a, b) = RankT(a, c) => b = c
  <2>1. /\ \A b \in S(a) : RankS(a, b) \in 0 .. Cardinality(S(a)) - 1
        /\ \A n \in 0 .. Cardinality(S(a)) - 1 : \E b \in S(a) : RankS(a, b) = n
        /\ \A b, c \in S(a) : RankS(a, b) = RankS(a, c) => b = c
    <3> HIDE DEF S
    <3> QED
      BY <1>2, <1>7, Ranks
  <2>2. /\ \A b \in T(a) : RankT(a, b) \in 0 .. Cardinality(T(a)) - 1
        /\ \A n \in 0 .. Cardinality(T(a)) - 1 : \E b \in T(a) : RankT(a, b) = n
        /\ \A b, c \in T(a) : RankT(a, b) = RankT(a, c) => b = c
    <3> HIDE DEF T
    <3> QED
      BY <1>2, <1>7, Ranks
  <2>3. Cardinality(S(a)) = Cardinality(T(a))
    BY <1>2, <1>7
  <2> HIDE DEF S, T, RankS, RankT
  <2> QED
    BY <2>1, <2>2, <2>3
<1>8. P \subseteq D /\ X \subseteq D
  BY DEF CommonPositions
<1> DEFINE h == [a \in P |-> CHOOSE c \in T(a) : RankT(a, c) = RankS(a, a)]
<1>9. ASSUME NEW a \in P
      PROVE  h[a] \in X /\ h[a] \in T(a) /\ RankT(a, h[a]) = RankS(a, a)
  <2>1. a \in D /\ a \in S(a)
    BY <1>2, <1>8, <1>9
  <2>2. \E c \in T(a) : RankT(a, c) = RankS(a, a)
    BY <1>7, <2>1, ZenonT(60)
  <2>3. RankS(a, a) < Cardinality(Occurrences(ps[a], es))
    BY <1>5, <1>9, <2>1
  <2>4. h[a] = CHOOSE c \in T(a) : RankT(a, c) = RankS(a, a)
    BY <1>9
  <2> HIDE DEF h, P, X, S, T, RankS, RankT
  <2>5. h[a] \in T(a) /\ RankT(a, h[a]) = RankS(a, a)
    BY <2>2, <2>4
  <2> QED
    BY <1>6, <2>1, <2>3, <2>5
<1>10. ASSUME NEW a \in P, NEW b \in P, h[a] = h[b] PROVE a = b
  <2>1. a \in D /\ b \in D
    BY <1>8, <1>10
  <2>2. xs[g[a]] = xs[g[b]]
    <3>1. h[a] \in T(a) /\ h[a] \in T(b)
      BY <1>9, <1>10
    <3> HIDE DEF h
    <3> QED
      BY <3>1 DEF Occurrences
  <2>3. ps[a] = ps[b]
    BY <2>1, <2>2
  <2>4. RankT(a, h[a]) = RankS(a, a) /\ RankT(b, h[b]) = RankS(b, b)
    BY <1>9, <1>10
  <2>5. RankS(a, a) = RankS(a, b)
    BY <1>10, <2>2, <2>3, <2>4
  <2>6. a \in S(a) /\ b \in S(a)
    BY <2>1, <2>3 DEF Occurrences
  <2> HIDE DEF h, P, S, T, RankS, RankT
  <2> QED
    BY <1>7, <2>1, <2>5, <2>6
<1>11. ASSUME NEW c \in X PROVE \E a \in P : h[a] = c
  <2>1. c \in D
    BY <1>8, <1>11
  <2>2. PICK d \in D : g[d] = c
    <3>1. Onto(g, D)
      BY PermutationsAreOnto
    <3> QED
      BY <2>1, <3>1 DEF Onto
  <2>3. c \in T(d)
    BY <1>2, <2>2
  <2>4. PICK a \in S(d) : RankT(d, c) = RankS(d, a)
    <3> HIDE DEF P, X, S, T, RankS, RankT
    <3> QED
      BY <1>7, <2>3
  <2>5. a \in D /\ S(a) = S(d) /\ T(a) = T(d)
    <3>1. a \in D
      BY <1>2, <2>4
    <3> QED
      BY <1>3, <2>4, <3>1
  <2>6. RankT(d, c) < Cardinality(Occurrences(ps[d], es))
    BY <1>6, <1>11, <2>3
  <2>7. a \in P
    <3> HIDE DEF P, X, S, T, RankS, RankT
    <3> QED
      BY <1>5, <2>4, <2>6
  <2>8. h[a] \in T(a) /\ RankT(a, h[a]) = RankS(a, a)
    BY <1>9, <2>7
  <2>9. RankT(a, c) = RankT(d, c) /\ RankS(a, a) = RankS(d, a)
    BY <2>5
  <2> HIDE DEF h, P, X, S, T, RankS, RankT
  <2>10. c \in T(a) /\ RankT(a, h[a]) = RankT(a, c)
    BY <2>3, <2>4, <2>5, <2>8, <2>9
  <2>11. h[a] = c
    BY <1>7, <2>5, <2>8, <2>10
  <2> QED
    BY <2>7, <2>11
<1>12. IsFiniteSet(P)
  BY <1>8, FS_Subset
<1>13. h \in [P -> X]
  <2>1. \A a \in P : h[a] = CHOOSE c \in T(a) : RankT(a, c) = RankS(a, a)
    OBVIOUS
  <2>2. \A a \in P : (CHOOSE c \in T(a) : RankT(a, c) = RankS(a, a)) \in X
    BY <1>9, <2>1
  <2> HIDE DEF P, X, S, T, RankS, RankT
  <2> QED
    BY <2>2
<1>14. h \in Injection(P, X) /\ h \in Surjection(P, X)
  <2> HIDE DEF h, P, X, S, T, RankS, RankT
  <2> QED
    BY <1>10, <1>11, <1>13 DEF Injection, IsInjective, Surjection
<1>15. Cardinality(X) = Cardinality(P)
  <2> HIDE DEF h, P, X, S, T, RankS, RankT
  <2> QED
    BY <1>12, <1>14, FS_Surjection
<1> QED
  BY <1>15

-----------------------------------------------------------------------------
\* Over a setup without repeats there are as many common positions as hits.
LEMMA HitsAreCommon ==
  ASSUME NEW ps, DOMAIN ps \in SUBSET Nat, IsFiniteSet(DOMAIN ps),
         NEW es, \A a, b \in DOMAIN es : es[a] = es[b] => a = b
  PROVE  Cardinality(HitPositions(ps, es)) = Cardinality(CommonPositions(ps, es))
<1> DEFINE C == CommonPositions(ps, es)
<1> DEFINE H == HitPositions(ps, es)
<1>1. ASSUME NEW a \in DOMAIN ps
      PROVE  a \in C <=> Earlier(a, ps) = {} /\ \E b \in DOMAIN es : es[b] = ps[a]
  <2>1. IsFiniteSet(Earlier(a, ps)) /\ Cardinality(Earlier(a, ps)) \in Nat
    BY FiniteOccurrences
  <2>2. Cardinality(Earlier(a, ps)) = 0 <=> Earlier(a, ps) = {}
    BY <2>1, FS_EmptySet
  <2>3. CASE \E b \in DOMAIN es : es[b] = ps[a]
    <3>1. PICK b \in DOMAIN es : es[b] = ps[a]
      BY <2>3
    <3>2. Occurrences(ps[a], es) = {b}
      BY <3>1 DEF Occurrences
    <3>3. Cardinality(Occurrences(ps[a], es)) = 1
      BY <3>2, FS_Singleton
    <3>4. a \in C <=> Cardinality(Earlier(a, ps)) < 1
      BY <3>3 DEF CommonPositions
    <3> HIDE DEF C
    <3> QED
      BY <2>1, <2>2, <2>3, <3>4
  <2>4. CASE ~ \E b \in DOMAIN es : es[b] = ps[a]
    <3>1. Occurrences(ps[a], es) = {}
      BY <2>4 DEF Occurrences
    <3>2. Cardinality(Occurrences(ps[a], es)) = 0
      BY <3>1, FS_EmptySet
    <3> QED
      BY <2>1, <2>4, <3>2 DEF CommonPositions
  <2> QED
    BY <2>3, <2>4
<1>2. C \subseteq DOMAIN ps
  BY DEF CommonPositions
<1> DEFINE h == [a \in C |-> CHOOSE b \in DOMAIN es : es[b] = ps[a]]
<1>3. ASSUME NEW a \in C
      PROVE  (CHOOSE b \in DOMAIN es : es[b] = ps[a]) \in H /\ es[h[a]] = ps[a] /\ h[a] \in DOMAIN es
  <2>1. a \in DOMAIN ps /\ \E b \in DOMAIN es : es[b] = ps[a]
    BY <1>1, <1>2, <1>3
  <2>2. h[a] = CHOOSE b \in DOMAIN es : es[b] = ps[a]
    BY <1>3
  <2> HIDE DEF h, C
  <2>3. h[a] \in DOMAIN es /\ es[h[a]] = ps[a]
    BY <2>1, <2>2
  <2> QED
    BY <2>1, <2>2, <2>3 DEF HitPositions
<1>4. h \in [C -> H]
  <2> HIDE DEF C, H
  <2> QED
    BY <1>3
<1>5. ASSUME NEW a \in C, NEW b \in C, h[a] = h[b] PROVE a = b
  <2>1. a \in DOMAIN ps /\ b \in DOMAIN ps /\ Earlier(a, ps) = {} /\ Earlier(b, ps) = {}
    BY <1>1, <1>2, <1>5
  <2>2. ps[a] = ps[b]
    BY <1>3, <1>5
  <2>3. ~ (a < b) /\ ~ (b < a) /\ a \in Nat /\ b \in Nat
    BY <2>1, <2>2 DEF Earlier, Occurrences
  <2> QED
    BY <2>3
<1>6. ASSUME NEW b \in H PROVE \E a \in C : h[a] = b
  <2> DEFINE S == Occurrences(es[b], ps)
  <2>1. b \in DOMAIN es /\ S # {}
    BY <1>6 DEF HitPositions, Occurrences
  <2>2. S \in SUBSET Nat
    BY FiniteOccurrences
  <2>3. PICK a \in S : \A i \in S : a <= i
    <3> HIDE DEF S
    <3> QED
      BY <2>1, <2>2, LeastElement
  <2>4. a \in DOMAIN ps /\ ps[a] = es[b] /\ a \in Nat
    BY <2>2, <2>3 DEF Occurrences
  <2>5. Earlier(a, ps) = {}
    <3>1. \A i \in Earlier(a, ps) : i \in S /\ i < a
      BY <2>4 DEF Earlier
    <3> HIDE DEF S
    <3> QED
      BY <2>2, <2>3, <2>4, <3>1
  <2>6. a \in C
    BY <1>1, <2>1, <2>4, <2>5
  <2>7. es[h[a]] = es[b] /\ h[a] \in DOMAIN es
    BY <1>3, <2>4, <2>6
  <2> HIDE DEF h, C, H, S
  <2> QED
    BY <2>1, <2>6, <2>7
<1>7. IsFiniteSet(C)
  BY <1>2, FS_Subset
<1> HIDE DEF h, C, H
<1>8. h \in Injection(C, H) /\ h \in Surjection(C, H)
  BY <1>4, <1>5, <1>6 DEF Injection, IsInjective, Surjection
<1>9. Cardinality(H) = Cardinality(C)
  BY <1>7, <1>8, FS_Surjection
<1> QED
  BY <1>9 DEF C, H

\* A streamed match that is accepted gives the size and the pairs that
\* GetIntersectionSize and GetAssociationTable give, for any setup without
\* repeats and any response (psi_match.h:39-46).
THEOREM MatchIsOneShot == Spec => []MatchAgrees
<1>1. Init => MatchAgrees
  BY DEF Init, MatchAgrees, Done
<1>2. ASSUME IInv, Next PROVE MatchAgrees'
  <2>1. CASE last' = NoResult
    BY <2>1 DEF MatchAgrees, Done, NoResult
  <2>2. ASSUME NEW m \in setups, NEW r \in responses, Learned(m, r)
        PROVE  MatchAgrees'
    <3>1. CASE StreamedMatch(m, r)
      <4>1. /\ last'.setup = m /\ last'.response = r /\ last'.client = client
            /\ last'.ok => Sealable(m)
            /\ last'.ok => last'.value.size = Cardinality(HitPositions(Decrypted(r), m.elements))
            /\ last'.ok => last'.value.pairs =
                 IF RecordsPairs THEN EqualPairs(Decrypted(r), m.elements) ELSE {}
        BY <3>1 DEF StreamedMatch, Return
      <4>2. Decrypted(r) = DecryptAll(r.elements, client.key)
        BY DEF Decrypted
      <4>3. Sealable(m) => Cardinality(HitPositions(Decrypted(r), m.elements))
                             = Cardinality(Intersect(m, Decrypted(r)))
        <5>1. DOMAIN Decrypted(r) \in SUBSET Nat /\ IsFiniteSet(DOMAIN Decrypted(r))
          BY <1>2, DecryptedPoints
        <5> QED
          BY <5>1, HitsAreCommon DEF Sealable, Intersect
      <4> QED
        BY <4>1, <4>2, <4>3 DEF MatchAgrees, Done, RecordsPairs
    <3>2. CASE ~ StreamedMatch(m, r)
      BY <2>2, <3>2 DEF Learned, GetIntersection, GetIntersectionSize, GetAssociationTable, Return,
                        MatchAgrees, Done
    <3> QED
      BY <3>1, <3>2
  <2> QED
    BY <1>2, <2>1, <2>2, CallsAndResults
<1>3. MatchAgrees /\ UNCHANGED vars => MatchAgrees'
  BY DEF MatchAgrees, Done, vars
<1> QED
  BY <1>1, <1>2, <1>3, Invariance, PTL DEF Spec

-----------------------------------------------------------------------------
LEMMA PositionsOfRaw ==
  ASSUME IInv, NEW m \in setups, NEW r \in responses, m.ds = "raw", r.request.reveal,
         m.key = r.key, client.key = r.request.key
  PROVE  CommonPositions(Decrypted(r), m.elements) = CommonPositions(r.request.inputs, m.inputs)
<1> DEFINE ps == Decrypted(r)
<1> DEFINE es == m.elements
<1> DEFINE asked == r.request.inputs
<1> DEFINE offered == m.inputs
<1>1. /\ DOMAIN ps = DOMAIN asked /\ DOMAIN es = DOMAIN offered /\ IsFiniteSet(DOMAIN offered)
      /\ \A a, b \in DOMAIN asked : ps[a] = ps[b] <=> asked[a] = asked[b]
      /\ \A a \in DOMAIN asked, b \in DOMAIN offered :
           ps[a] = es[b] <=> asked[a] = offered[m.permutation[b]]
  BY BelongingPoints
<1>2. Permutes(m.permutation, DOMAIN offered)
  BY DEF IInv, SetupInv
<1> HIDE DEF ps, es, asked, offered
<1>3. ASSUME NEW a \in DOMAIN asked
      PROVE  /\ Earlier(a, ps) = Earlier(a, asked)
             /\ Cardinality(Occurrences(ps[a], es)) = Cardinality(Occurrences(asked[a], offered))
  <2>1. Earlier(a, ps) = Earlier(a, asked)
    BY <1>1, <1>3 DEF Earlier, Occurrences
  <2>2. Follows(ps[a], es, asked[a], offered, m.permutation)
    BY <1>1, <1>2, <1>3 DEF Follows
  <2> QED
    BY <1>1, <2>1, <2>2, SameOccurrences
<1>4. CommonPositions(ps, es) = CommonPositions(asked, offered)
  BY <1>1, <1>3 DEF CommonPositions
<1> QED
  BY <1>4 DEF ps, es, asked, offered

LEMMA SizeOfRaw ==
  ASSUME IInv, NEW m \in setups, NEW r \in responses, m.ds = "raw",
         m.key = r.key, client.key = r.request.key
  PROVE  Cardinality(CommonPositions(Decrypted(r), m.elements))
           = Cardinality(CommonPositions(r.request.inputs, m.inputs))
<1> DEFINE ps == Decrypted(r)
<1> DEFINE es == m.elements
<1> DEFINE asked == r.request.inputs
<1> DEFINE offered == m.inputs
<1>1. /\ DOMAIN ps = DOMAIN asked /\ DOMAIN asked \in SUBSET Nat /\ IsFiniteSet(DOMAIN asked)
      /\ DOMAIN es = DOMAIN offered /\ DOMAIN offered \in SUBSET Nat /\ IsFiniteSet(DOMAIN offered)
  BY BelongingPoints
<1>2. PICK g :
        /\ Permutes(g, DOMAIN asked)
        /\ \A a, b \in DOMAIN asked : ps[a] = ps[b] <=> asked[g[a]] = asked[g[b]]
        /\ \A a \in DOMAIN asked, b \in DOMAIN offered :
             ps[a] = es[b] <=> asked[g[a]] = offered[m.permutation[b]]
  BY BelongingPoints
<1>3. Permutes(m.permutation, DOMAIN offered)
  BY DEF IInv, SetupInv
<1> HIDE DEF ps, es, asked, offered
<1>4. Cardinality(CommonPositions(ps, es)) = Cardinality(CommonPositions(asked, offered))
  BY <1>1, <1>2, <1>3, SameCommon, SMTT(60)
<1> QED
  BY <1>4 DEF ps, es, asked, offered

\* A filter answers yes to every item that both parties have, wherever the
\* response has put it.
LEMMA AnswersOfFilter ==
  ASSUME IInv, NEW m \in setups, NEW r \in responses, m.ds \notin {"raw", "none"},
         m.key = r.key, client.key = r.request.key
  PROVE  LET asked == r.request.inputs
             yes == {a \in DOMAIN Decrypted(r) : Decrypted(r)[a] \in m.accepts} IN
         /\ r.request.reveal =>
              {a \in DOMAIN asked : Occurrences(asked[a], m.inputs) # {}} \subseteq yes
         /\ Cardinality(yes) \in Nat /\ Cardinality(CommonPositions(asked, m.inputs)) \in Nat
         /\ Cardinality(CommonPositions(asked, m.inputs)) <= Cardinality(yes)
<1> DEFINE ps == Decrypted(r)
<1> DEFINE asked == r.request.inputs
<1> DEFINE offered == m.inputs
<1> DEFINE yes == {a \in DOMAIN ps : ps[a] \in m.accepts}
<1> DEFINE shared == {a \in DOMAIN asked : Occurrences(asked[a], offered) # {}}
<1> DEFINE C == CommonPositions(asked, offered)
<1>1. /\ m.key \in ServerKey /\ client.key \in ClientKey
      /\ \A b \in DOMAIN offered : Encrypt(offered[b], m.key) \in m.accepts
  BY DEF IInv, FilterInv
<1>2. /\ DOMAIN ps = DOMAIN asked /\ DOMAIN asked \in SUBSET Nat /\ IsFiniteSet(DOMAIN asked)
  BY DecryptedPoints
<1>3. PICK g :
        /\ Permutes(g, DOMAIN asked)
        /\ r.request.reveal => \A a \in DOMAIN asked : g[a] = a
        /\ \A a \in DOMAIN asked : ps[a] =
             Decrypt(ReEncrypt(Encrypt(asked[g[a]], r.request.key), r.key), client.key)
  BY DecryptedPoints
<1>4. \A a \in DOMAIN asked : ps[a] = Encrypt(asked[g[a]], m.key)
  <2>1. \A x : Decrypt(ReEncrypt(Encrypt(x, client.key), m.key), client.key) = Encrypt(x, m.key)
    BY <1>1, EqualPoints
  <2> QED
    BY <1>3, <2>1
<1>5. \A a \in DOMAIN asked : g[a] \in shared => a \in yes
  <2> HIDE DEF ps, asked, offered
  <2> QED
    BY <1>1, <1>2, <1>4 DEF Occurrences
<1>6. C \subseteq shared
  <2> HIDE DEF asked, offered
  <2>1. ASSUME NEW a \in C PROVE Occurrences(asked[a], offered) # {}
    <3>1. /\ a \in DOMAIN asked
          /\ Cardinality(Earlier(a, asked)) < Cardinality(Occurrences(asked[a], offered))
      BY <2>1 DEF CommonPositions
    <3>2. Cardinality(Earlier(a, asked)) \in Nat
      BY <1>2, <3>1, FiniteOccurrences
    <3> QED
      BY <3>1, <3>2, FS_EmptySet
  <2> QED
    BY <2>1 DEF CommonPositions
<1>7. yes \in SUBSET DOMAIN asked /\ C \in SUBSET DOMAIN asked
  BY <1>2 DEF CommonPositions
<1>8. IsFiniteSet(yes) /\ Cardinality(yes) \in Nat /\ Cardinality(C) \in Nat
  <2> HIDE DEF yes, C, asked
  <2> QED
    BY <1>2, <1>7, FS_Subset, FS_CardinalityType
<1> DEFINE from == {a \in DOMAIN asked : g[a] \in C}
<1> DEFINE h == [a \in from |-> g[a]]
<1>9. from \in SUBSET yes
  BY <1>5, <1>6
<1>10. h \in Surjection(from, C)
  <2>1. Onto(g, DOMAIN asked)
    <3> HIDE DEF asked
    <3> QED
      BY <1>2, <1>3, PermutationsAreOnto
  <2>2. \A c \in C : \E a \in from : g[a] = c
    <3> HIDE DEF C, asked
    <3> QED
      BY <1>7, <2>1 DEF Onto
  <2>3. \A a \in from : g[a] \in C
    OBVIOUS
  <2> HIDE DEF from, C
  <2> QED
    BY <2>2, <2>3 DEF Surjection
<1>11. Cardinality(C) <= Cardinality(yes)
  <2> HIDE DEF h, from, C, yes
  <2>1. IsFiniteSet(from) /\ Cardinality(from) <= Cardinality(yes) /\ Cardinality(from) \in Nat
    BY <1>8, <1>9, FS_Subset, FS_CardinalityType
  <2>2. Cardinality(C) <= Cardinality(from)
    BY <1>10, <2>1, FS_Surjection
  <2> QED
    BY <1>8, <2>1, <2>2
<1>12. r.request.reveal => shared \subseteq yes
  <2> HIDE DEF yes
  <2> QED
    BY <1>3, <1>5
<1> QED
  BY <1>8, <1>11, <1>12

\* What GetIntersection and GetIntersectionSize return is true of the two
\* vectors, with any repeats, in both modes and with either kind of container,
\* whenever the keys belong together (psi_client.h:132-147, :159-168).
THEOREM ResultsAreTrue == Spec => []IntersectionIsTrue
<1>1. Init => IntersectionIsTrue
  BY DEF Init, IntersectionIsTrue, Done
<1>2. ASSUME IInv, Next PROVE IntersectionIsTrue'
  <2>1. CASE last' = NoResult
    BY <2>1 DEF IntersectionIsTrue, Done, NoResult
  <2>2. ASSUME NEW m \in setups, NEW r \in responses, Learned(m, r)
        PROVE  IntersectionIsTrue'
    <3> DEFINE yes == {a \in DOMAIN Decrypted(r) : Decrypted(r)[a] \in m.accepts}
    <3> DEFINE common == CommonPositions(r.request.inputs, m.inputs)
    <3>1. /\ m.ds = "raw" => Intersect(m, Decrypted(r)) = CommonPositions(Decrypted(r), m.elements)
          /\ m.ds # "raw" => Intersect(m, Decrypted(r)) = yes
      BY DEF Intersect
    <3>2. CASE GetIntersection(m, r)
      <4>1. /\ last'.call = "GetIntersection"
            /\ last'.setup = m /\ last'.response = r /\ last'.client = client
            /\ last'.ok => m.ds # "none" /\ last'.value = Intersect(m, Decrypted(r))
        BY <3>2 DEF GetIntersection, Return
      <4>2. ASSUME last'.ok, m.key = r.key, client.key = r.request.key, r.request.reveal
            PROVE  IF m.ds = "raw" THEN last'.value = common
                   ELSE {a \in DOMAIN r.request.inputs :
                           Occurrences(r.request.inputs[a], m.inputs) # {}} \subseteq last'.value
        <5>1. CASE m.ds = "raw"
          BY <1>2, <3>1, <4>1, <4>2, <5>1, PositionsOfRaw
        <5>2. CASE m.ds # "raw"
          BY <1>2, <3>1, <4>1, <4>2, <5>2, AnswersOfFilter
        <5> QED
          BY <5>1, <5>2
      <4> HIDE DEF common
      <4> QED
        BY <4>1, <4>2 DEF IntersectionIsTrue, Done, KeysMatch, SharedPositions, Asked, Offered, common
    <3>3. CASE GetIntersectionSize(m, r)
      <4>1. /\ last'.call = "GetIntersectionSize"
            /\ last'.setup = m /\ last'.response = r /\ last'.client = client
            /\ last'.ok => m.ds # "none" /\ last'.value = Cardinality(Intersect(m, Decrypted(r)))
        BY <3>3 DEF GetIntersectionSize, Return
      <4>2. ASSUME last'.ok, m.key = r.key, client.key = r.request.key
            PROVE  IF m.ds = "raw" THEN last'.value = Cardinality(common)
                   ELSE last'.value >= Cardinality(common)
        <5>1. CASE m.ds = "raw"
          BY <1>2, <3>1, <4>1, <4>2, <5>1, SizeOfRaw
        <5>2. CASE m.ds # "raw"
          <6>1. /\ Cardinality(yes) \in Nat /\ Cardinality(common) \in Nat
                /\ Cardinality(common) <= Cardinality(yes)
            BY <1>2, <4>1, <4>2, <5>2, AnswersOfFilter
          <6>2. last'.value = Cardinality(yes)
            BY <3>1, <4>1, <4>2, <5>2
          <6> HIDE DEF yes, common
          <6> QED
            BY <5>2, <6>1, <6>2
        <5> QED
          BY <5>1, <5>2
      <4> QED
        BY <4>1, <4>2 DEF IntersectionIsTrue, Done, KeysMatch, Asked, Offered
    <3>4. CASE GetAssociationTable(m, r) \/ StreamedMatch(m, r)
      BY <3>4 DEF GetAssociationTable, StreamedMatch, Return, IntersectionIsTrue, Done
    <3> QED
      BY <2>2, <3>2, <3>3, <3>4 DEF Learned
  <2> QED
    BY <1>2, <2>1, <2>2, CallsAndResults
<1>3. IntersectionIsTrue /\ UNCHANGED vars => IntersectionIsTrue'
  BY DEF IntersectionIsTrue, Done, KeysMatch, SharedPositions, Asked, Offered, vars
<1> QED
  BY <1>1, <1>2, <1>3, Invariance, PTL DEF Spec

-----------------------------------------------------------------------------
(***************************************************************************)
(* The order of an answer.                                                 *)
(***************************************************************************)
OrderInv ==
  /\ byteOrder \in Orders
  /\ \A r \in responses :
       ~ r.request.reveal =>
         \A a, b \in DOMAIN r.elements : a < b => NotAfter(r.elements[a], r.elements[b])

LEMMA OrderInvariance == Spec => []OrderInv
<1>1. Init => OrderInv
  BY DEF Init, OrderInv
<1>2. ASSUME OrderInv, Next PROVE OrderInv'
  <2>1. CASE UNCHANGED <<responses, byteOrder>>
    BY <1>2, <2>1 DEF OrderInv, NotAfter
  <2>2. ASSUME NEW q \in requests, ProcessRequest(q) PROVE OrderInv'
    <3>1. UNCHANGED byteOrder
      BY <2>2 DEF ProcessRequest
    <3>2. CASE UNCHANGED responses
      BY <2>1, <3>1, <3>2
    <3>3. ASSUME RevealAgreed(q), NEW ps \in InResponseOrder(ReEncryptAll(q.elements, server.key)),
                 responses' = responses \cup {[elements |-> ps, request |-> q, key |-> server.key]}
          PROVE  OrderInv'
      <4>1. ~ q.reveal => \A a, b \in DOMAIN ps : a < b => NotAfter(ps[a], ps[b])
        <5>1. SUFFICES ASSUME ~ q.reveal
                       PROVE  \A a, b \in DOMAIN ps : a < b => NotAfter(ps[a], ps[b])
          OBVIOUS
        <5>2. PICK f \in SortingPermutations(ReEncryptAll(q.elements, server.key)) :
                ps = Permuted(ReEncryptAll(q.elements, server.key), f)
          BY <3>3, <5>1 DEF RevealAgreed, InResponseOrder
        <5> QED
          BY <5>2 DEF SortingPermutations, Permuted
      <4> QED
        BY <1>2, <3>1, <3>3, <4>1 DEF OrderInv, NotAfter
    <3> QED
      BY <2>2, <3>2, <3>3 DEF ProcessRequest
  <2> QED
    BY <1>2, <2>1, <2>2
    DEF Next, ServerCall, ClientCall, CreateServer, CreateSetupMessage, CreateClient, CreateRequest,
        GetIntersection, GetIntersectionSize, GetAssociationTable, StreamedMatch, Return
<1>3. OrderInv /\ UNCHANGED vars => OrderInv'
  BY DEF OrderInv, NotAfter, vars
<1> QED
  BY <1>1, <1>2, <1>3, PTL DEF Spec

Items(n, rs) == n \in Nat /\ rs \in [1 .. n -> Item]

Sorted(o, n, rs) == \A a, b \in 1 .. n : a < b => o[rs[a]] <= o[rs[b]]

\* h takes each position of rs to one of ts with the same item, no two to one.
MapsInto(h, n, rs, k, ts) ==
  h \in Injection(1 .. n, 1 .. k) /\ \A a \in 1 .. n : ts[h[a]] = rs[a]

\* Vectors that hold each item equally often map into one another.
LEMMA Rearranged ==
  ASSUME NEW n, NEW rs, Items(n, rs), NEW k, NEW ts, Items(k, ts), SameItems(rs, ts)
  PROVE  \E h : MapsInto(h, n, rs, k, ts)
<1>0. n \in Nat /\ rs \in [1 .. n -> Item] /\ k \in Nat /\ ts \in [1 .. k -> Item]
  BY DEF Items
<1> DEFINE S(a) == Occurrences(rs[a], rs)
<1> DEFINE T(a) == Occurrences(rs[a], ts)
<1> DEFINE RankS(a, b) == Cardinality({x \in S(a) : x < b})
<1> DEFINE RankT(a, b) == Cardinality({x \in T(a) : x < b})
<1> DEFINE h == [a \in 1 .. n |-> CHOOSE c \in T(a) : RankT(a, c) = RankS(a, a)]
<1>1. /\ DOMAIN rs \in SUBSET Nat /\ IsFiniteSet(DOMAIN rs)
      /\ DOMAIN ts \in SUBSET Nat /\ IsFiniteSet(DOMAIN ts)
  BY <1>0, FS_Interval
<1>2. ASSUME NEW a \in 1 .. n
      PROVE  /\ a \in S(a)
             /\ S(a) \in SUBSET Nat /\ IsFiniteSet(S(a))
             /\ T(a) \in SUBSET Nat /\ IsFiniteSet(T(a))
             /\ Cardinality(S(a)) = Cardinality(T(a))
  <2>1. a \in S(a)
    BY <1>0, <1>2 DEF Occurrences
  <2>2. /\ S(a) \in SUBSET Nat /\ IsFiniteSet(S(a))
        /\ T(a) \in SUBSET Nat /\ IsFiniteSet(T(a))
    BY <1>1, FiniteOccurrences
  <2>3. rs[a] \in Item
    BY <1>0, <1>2
  <2> QED
    BY <2>1, <2>2, <2>3 DEF SameItems
<1>3. ASSUME NEW a \in 1 .. n
      PROVE  h[a] \in T(a) /\ RankT(a, h[a]) = RankS(a, a)
  <2>1. RankS(a, a) \in 0 .. Cardinality(S(a)) - 1
    <3> HIDE DEF S
    <3> QED
      BY <1>2, <1>3, Ranks
  <2>2. \A i \in 0 .. Cardinality(T(a)) - 1 : \E c \in T(a) : RankT(a, c) = i
    <3> HIDE DEF T
    <3> QED
      BY <1>2, <1>3, Ranks
  <2>3. h[a] = CHOOSE c \in T(a) : RankT(a, c) = RankS(a, a)
    BY <1>3
  <2> HIDE DEF h, S, T, RankS, RankT
  <2>4. \E c \in T(a) : RankT(a, c) = RankS(a, a)
    BY <1>2, <1>3, <2>1, <2>2
  <2> QED
    BY <2>3, <2>4
<1>4. \A a \in 1 .. n : h[a] \in 1 .. k /\ ts[h[a]] = rs[a]
  <2> HIDE DEF h
  <2> QED
    BY <1>0, <1>3 DEF Occurrences
<1>5. ASSUME NEW a \in 1 .. n, NEW b \in 1 .. n, h[a] = h[b] PROVE a = b
  <2>1. rs[a] = rs[b]
    <3> HIDE DEF h
    <3> QED
      BY <1>4, <1>5
  <2>2. b \in S(a)
    BY <1>0, <1>5, <2>1 DEF Occurrences
  <2>3. RankS(a, a) = RankS(a, b)
    <3>1. RankT(a, h[a]) = RankS(a, a) /\ RankT(b, h[b]) = RankS(b, b)
      BY <1>3, <1>5
    <3> HIDE DEF h
    <3> QED
      BY <1>5, <2>1, <3>1
  <2>4. \A b1, b2 \in S(a) : RankS(a, b1) = RankS(a, b2) => b1 = b2
    <3> HIDE DEF S
    <3> QED
      BY <1>2, <1>5, Ranks
  <2> HIDE DEF h, S, RankS
  <2> QED
    BY <1>2, <1>5, <2>2, <2>3, <2>4
<1>6. h \in [1 .. n -> 1 .. k]
  <2>1. \A a \in 1 .. n : h[a] = CHOOSE c \in T(a) : RankT(a, c) = RankS(a, a)
    OBVIOUS
  <2>2. \A a \in 1 .. n : (CHOOSE c \in T(a) : RankT(a, c) = RankS(a, a)) \in 1 .. k
    BY <1>4, <2>1
  <2> HIDE DEF S, T, RankS, RankT
  <2> QED
    BY <2>2
<1> HIDE DEF h
<1>7. h \in Injection(1 .. n, 1 .. k)
  BY <1>5, <1>6 DEF Injection, IsInjective
<1> QED
  BY <1>4, <1>7 DEF MapsInto

\* An ascending vector that another maps into has nothing larger at any position.
LEMMA NothingLarger ==
  ASSUME NEW o \in [Item -> Nat], NEW n, NEW rs, Items(n, rs), Sorted(o, n, rs),
         NEW k, NEW ts, Items(k, ts), Sorted(o, k, ts),
         NEW h, MapsInto(h, n, rs, k, ts), NEW a \in 1 .. n, a \in 1 .. k
  PROVE  ~ (o[rs[a]] < o[ts[a]])
<1> SUFFICES ASSUME o[rs[a]] < o[ts[a]] PROVE FALSE
  OBVIOUS
<1>1. /\ \A b \in 1 .. n : h[b] \in 1 .. k
      /\ \A b, c \in 1 .. n : h[b] = h[c] => b = c
  BY DEF MapsInto, Injection, IsInjective
<1>2. /\ n \in Nat /\ \A b \in 1 .. n : rs[b] \in Item /\ o[rs[b]] \in Nat
      /\ k \in Nat /\ \A b \in 1 .. k : ts[b] \in Item /\ o[ts[b]] \in Nat
  BY DEF Items
<1>3. ASSUME NEW b \in 1 .. a PROVE b \in 1 .. n /\ h[b] \in 1 .. a - 1
  <2>1. b \in 1 .. n /\ (b < a \/ b = a)
    BY <1>2, <1>3
  <2>2. h[b] \in 1 .. k /\ o[ts[h[b]]] = o[rs[b]]
    BY <1>1, <2>1 DEF MapsInto
  <2>3. o[rs[b]] <= o[rs[a]]
    BY <1>2, <2>1 DEF Sorted
  <2>4. ~ (a < h[b]) /\ h[b] # a
    BY <1>2, <2>2, <2>3 DEF Sorted
  <2> QED
    BY <1>2, <2>1, <2>2, <2>4
<1> DEFINE low == [b \in 1 .. a |-> h[b]]
<1>4. low \in [1 .. a -> 1 .. a - 1]
  BY <1>3
<1>5. a \in Int /\ a >= 1 /\ a - 1 \in Int /\ 1 \in Int
  BY <1>2
<1>6. /\ Cardinality(1 .. a) = IF 1 > a THEN 0 ELSE a - 1 + 1
      /\ IsFiniteSet(1 .. a - 1)
      /\ Cardinality(1 .. a - 1) = IF 1 > a - 1 THEN 0 ELSE a - 1 - 1 + 1
  BY <1>5, FS_Interval
<1>7. low \in Injection(1 .. a, 1 .. a - 1)
  <2>1. \A b, c \in 1 .. a : low[b] = low[c] => b = c
    BY <1>1, <1>3
  <2> HIDE DEF low
  <2> QED
    BY <1>4, <2>1 DEF Injection, IsInjective
<1>8. Cardinality(1 .. a) <= Cardinality(1 .. a - 1)
  <2> HIDE DEF low
  <2> QED
    BY <1>6, <1>7, FS_Injection
<1> QED
  BY <1>5, <1>6, <1>8

LEMMA SortedIsUnique ==
  ASSUME NEW o \in [Item -> Nat], \A x, y \in Item : o[x] = o[y] => x = y,
         NEW n, NEW rs, Items(n, rs), Sorted(o, n, rs),
         NEW k, NEW ts, Items(k, ts), Sorted(o, k, ts), SameItems(rs, ts)
  PROVE  n = k /\ rs = ts
<1>1. PICK h : MapsInto(h, n, rs, k, ts)
  BY Rearranged
<1>2. SameItems(ts, rs)
  BY DEF SameItems
<1>3. PICK i : MapsInto(i, k, ts, n, rs)
  BY <1>2, Rearranged
<1>4. n = k
  <2>1. n \in Nat /\ k \in Nat
    BY DEF Items
  <2>2. /\ IsFiniteSet(1 .. n) /\ Cardinality(1 .. n) = n
        /\ IsFiniteSet(1 .. k) /\ Cardinality(1 .. k) = k
    BY <2>1, FS_Interval
  <2>3. n <= k
    BY <1>1, <2>2, FS_Injection DEF MapsInto
  <2>4. k <= n
    BY <1>3, <2>2, FS_Injection DEF MapsInto
  <2> QED
    BY <2>1, <2>3, <2>4
<1>5. ASSUME NEW a \in 1 .. n PROVE rs[a] = ts[a]
  <2>1. ~ (o[rs[a]] < o[ts[a]])
    BY <1>1, <1>4, NothingLarger
  <2>2. ~ (o[ts[a]] < o[rs[a]])
    BY <1>3, <1>4, NothingLarger
  <2>3. rs[a] \in Item /\ ts[a] \in Item /\ o[rs[a]] \in Nat /\ o[ts[a]] \in Nat
    BY <1>4 DEF Items
  <2> QED
    BY <2>1, <2>2, <2>3
<1> QED
  BY <1>4, <1>5 DEF Items

\* rs are the items of an answer, in its order.
ItemsOf(r, n, rs) ==
  /\ Items(n, rs) /\ Sorted(byteOrder, n, rs)
  /\ r.elements = [a \in 1 .. n |-> ReEncrypt(Encrypt(rs[a], r.request.key), r.key)]
  /\ \A x \in Item :
       Cardinality(Occurrences(x, rs)) = Cardinality(Occurrences(x, r.request.inputs))

LEMMA ItemsOfAnswer ==
  ASSUME IInv, OrderInv, NEW r \in responses, ~ r.request.reveal
  PROVE  \E n, rs : ItemsOf(r, n, rs)
<1> DEFINE D == DOMAIN r.request.inputs
<1>1. r.request.inputs \in Seq(Item)
  BY DEF IInv, ResponseInv, RequestInv
<1>2. PICK n \in Nat : D = 1 .. n
  BY <1>1
<1>3. PICK g :
        /\ Permutes(g, D)
        /\ r.elements =
             [a \in D |-> ReEncrypt(Encrypt(r.request.inputs[g[a]], r.request.key), r.key)]
  BY DEF IInv, ResponseInv
<1> DEFINE rs == [a \in D |-> r.request.inputs[g[a]]]
<1>4. rs \in [1 .. n -> Item]
  BY <1>1, <1>2, <1>3 DEF Permutes
<1>5. r.elements = [a \in 1 .. n |-> ReEncrypt(Encrypt(rs[a], r.request.key), r.key)]
  BY <1>2, <1>3
<1>6. \A a \in 1 .. n : r.elements[a].item = rs[a]
  <2> HIDE DEF rs
  <2> QED
    BY <1>5 DEF ReEncrypt, Encrypt
<1>7. DOMAIN r.elements = 1 .. n
  BY <1>5
<1>8. \A a, b \in 1 .. n : a < b => byteOrder[rs[a]] <= byteOrder[rs[b]]
  <2> HIDE DEF rs
  <2> QED
    BY <1>6, <1>7 DEF OrderInv, NotAfter
<1>9. ASSUME NEW x \in Item
      PROVE  Cardinality(Occurrences(x, rs)) = Cardinality(Occurrences(x, r.request.inputs))
  <2>1. Follows(x, rs, x, r.request.inputs, g)
    BY <1>3 DEF Follows
  <2>2. IsFiniteSet(DOMAIN r.request.inputs)
    BY <1>2, FS_Interval
  <2> HIDE DEF rs
  <2> QED
    BY <2>1, <2>2, SameOccurrences
<1> HIDE DEF rs
<1> QED
  BY <1>4, <1>5, <1>8, <1>9 DEF ItemsOf, Items, Sorted

\* Two answers under the same keys to requests for the size are equal whenever
\* the requests hold the same items, whatever their order, their number and the
\* servers created in between (psi_server.h:103-106).
THEOREM AnswersHideOrder == Spec => []OrderIsHidden
<1>1. IInv /\ OrderInv => OrderIsHidden
  <2> SUFFICES ASSUME IInv, OrderInv, NEW r \in responses, NEW t \in responses,
                      ~ r.request.reveal, ~ t.request.reveal,
                      r.key = t.key, r.request.key = t.request.key,
                      SameItems(r.request.inputs, t.request.inputs)
               PROVE  r.elements = t.elements
    BY DEF OrderIsHidden
  <2>1. PICK n, rs : ItemsOf(r, n, rs)
    BY ItemsOfAnswer
  <2>2. PICK k, ts : ItemsOf(t, k, ts)
    BY ItemsOfAnswer
  <2>3. SameItems(rs, ts)
    BY <2>1, <2>2 DEF SameItems, ItemsOf
  <2>4. byteOrder \in [Item -> Nat] /\ \A x, y \in Item : byteOrder[x] = byteOrder[y] => x = y
    BY PsiProtocolAssumption DEF OrderInv
  <2>5. n = k /\ rs = ts
    BY <2>1, <2>2, <2>3, <2>4, SortedIsUnique DEF ItemsOf
  <2> QED
    BY <2>1, <2>2, <2>5 DEF ItemsOf
<1> QED
  BY <1>1, Invariance, OrderInvariance, PTL
=============================================================================
