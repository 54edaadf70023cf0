---------------------------- MODULE BloomFilter ----------------------------
(***************************************************************************)
(* BloomFilter (cpp/datastructure/bloom_filter.{h,cpp}): the server makes  *)
(* a filter, adds to it and sends it; the client makes one from a message  *)
(* and asks it for its own elements.  A filter is its number of hash       *)
(* functions, its number of bytes and the bytes, each as the set of its    *)
(* bits that are 1.                                                        *)
(*                                                                         *)
(* A rate is log2(1 / fpr) in hundredths; one that is not positive stands  *)
(* for an fpr outside of (0, 1).  An fpr that is not a number is not among *)
(* them: of what CreateEmpty then converts nothing is defined.             *)
(***************************************************************************)
EXTENDS Bytes

CONSTANTS
  Element,
  Digests,       \* maps from elements to SHA256(1 || x) and SHA256(2 || x)
  Rates,
  MaxElements, ClientCounts,  \* max_elements, num_client_inputs
  Inputs         \* the vectors of elements of a call

ASSUME BloomFilterAssumption ==
  /\ Digests \subseteq [Element -> Nat \X Nat]
  /\ Rates \subseteq Int /\ MaxElements \subseteq Int /\ ClientCounts \subseteq Int
  /\ Inputs \subseteq Seq(Element)

VARIABLES
  digest,
  server, message, client,  \* the filters; of the message, what it encodes
  answer,                   \* what the client asked last, and was told
  aborted                   \* the filter whose zero bits ended the process, if one did

vars == <<digest, server, message, client, answer, aborted>>

\* The string of bits of a new filter.
Zeros(size) == [b \in 0 .. size - 1 |-> {}]

\* made and added are kept for the properties: what the filter was made for, and
\* what was put in.
NoFilter == [hashes |-> 0, size |-> 0, bytes |-> Zeros(0), made |-> -1, added |-> {}]
NoAnswer == [asked |-> << >>, added |-> {}, positions |-> << >>]

Init ==
  /\ digest \in Digests
  /\ server = NoFilter /\ message = NoFilter /\ client = NoFilter
  /\ answer = NoAnswer
  /\ aborted = {}

-----------------------------------------------------------------------------
\* Mutant: rounded down.
NumBytesFloor(rate, n) == (n * rate * 14427) \div (1000000 * CharSize)

\* ceil(n * log2(1 / fpr) / ln 2 / CharSize), with four digits of 1 / ln 2.
NumBytes(rate, n) == DivCeil(n * rate * 14427, 1000000 * CharSize)

Refused(rate, n) == rate <= 0 \/ n < 0

Empty(rate, n) ==
  LET size == NumBytes(rate, n)
  IN  [hashes |-> DivCeil(rate, 100), size |-> size, bytes |-> Zeros(size),
       made |-> n, added |-> {}]

\* Mutant: the multiples of the second digest are not reduced.
Unreduced(f, h1, h2, i) == h1 + i * h2

Index(f, h1, h2, i) == (h1 + i * h2) % (CharSize * f.size)

HashOf(x, f) ==
  LET numBits == CharSize * f.size
  IN  {Index(f, digest[x][1] % numBits, digest[x][2] % numBits, i) : i \in 0 .. f.hashes - 1}

\* A reduction modulo a number of bits that is zero.
Aborts(f, xs) == f.size = 0 /\ xs # << >>

\* Mutant: a byte that is written is written over.
WrittenOver(byte, mask) == IF mask = {} THEN byte ELSE mask

Ored(byte, mask) == byte \cup mask

\* Each index sets a bit of a byte.  A byte outside of the string would be one of
\* the process's memory all the same.  Ors commute: the order is left out.
SetBits(bytes, indices) ==
  LET touched == {i \div CharSize : i \in indices}
      Mask(b) == {i % CharSize : i \in {j \in indices : j \div CharSize = b}}
      Old(b)  == IF b \in DOMAIN bytes THEN bytes[b] ELSE {}
  IN  [b \in DOMAIN bytes \cup touched |-> Ored(Old(b), Mask(b))]

Elements(xs) == {xs[p] : p \in 1 .. Len(xs)}

\* Add of one element after the other.
AddAll(f, xs) ==
  [f EXCEPT !.bytes = SetBits(@, UNION {HashOf(x, f) : x \in Elements(xs)}),
            !.added = @ \cup Elements(xs)]

Check(x, f) == \A i \in HashOf(x, f) : i % CharSize \in f.bytes[i \div CharSize]

\* The positions, from 0, of the elements the filter says yes to.
Found(xs, f) == {p \in 0 .. Len(xs) - 1 : Check(xs[p + 1], f)}

\* Mutant: the answers are numbered among themselves.
RanksOf(xs, f) == [r \in 1 .. Cardinality(Found(xs, f)) |-> r - 1]

\* In the order the elements were asked for.
PositionsOf(xs, f) ==
  LET found == Found(xs, f)
      last  == Cardinality(found)
  IN  CHOOSE s \in [1 .. last -> found] : \A r, q \in 1 .. last : r < q => s[r] < s[q]

-----------------------------------------------------------------------------
CreateEmpty(rate, n) ==
  /\ ~ Refused(rate, n)
  /\ server' = Empty(rate, n)
  /\ UNCHANGED <<digest, message, client, answer, aborted>>

Create(rate, count, xs) ==
  LET n == FE!Max({count, Len(xs)})
  IN  /\ ~ Refused(rate, n)
      /\ IF Aborts(Empty(rate, n), xs)
         THEN aborted' = {Empty(rate, n)} /\ UNCHANGED server
         ELSE server' = AddAll(Empty(rate, n), xs) /\ UNCHANGED aborted
      /\ UNCHANGED <<digest, message, client, answer>>

Add(xs) ==
  /\ server # NoFilter
  /\ IF Aborts(server, xs)
     THEN aborted' = {server} /\ UNCHANGED server
     ELSE server' = AddAll(server, xs) /\ UNCHANGED aborted
  /\ UNCHANGED <<digest, message, client, answer>>

\* Of the messages the server may make, any one is followed.
ToProtobuf ==
  /\ server # NoFilter /\ message = NoFilter
  /\ message' = server
  /\ UNCHANGED <<digest, server, client, answer, aborted>>

\* IsInitialized holds of every ServerSetup.
CreateFromProtobuf ==
  /\ message # NoFilter
  /\ client' = message
  /\ UNCHANGED <<digest, server, message, answer, aborted>>

Intersect(xs) ==
  /\ client # NoFilter
  /\ IF Aborts(client, xs)
     THEN aborted' = {client} /\ UNCHANGED answer
     ELSE /\ answer' = [asked |-> xs, added |-> client.added,
                        positions |-> PositionsOf(xs, client)]
          /\ UNCHANGED aborted
  /\ UNCHANGED <<digest, server, message, client>>

Next ==
  /\ aborted = {}
  /\ \/ \E rate \in Rates, n \in MaxElements : CreateEmpty(rate, n)
     \/ \E rate \in Rates, count \in ClientCounts, xs \in Inputs : Create(rate, count, xs)
     \/ \E xs \in Inputs : Add(xs)
     \/ ToProtobuf
     \/ CreateFromProtobuf
     \/ \E xs \in Inputs : Intersect(xs)

Spec == Init /\ [][Next]_vars

-----------------------------------------------------------------------------
FilterType(f) ==
  /\ f.hashes \in Nat /\ f.size \in Nat
  /\ f.bytes \in [0 .. f.size - 1 -> SUBSET Bit]
  /\ f.made \in Int /\ f.added \subseteq Element

\* Types; no byte is written outside of a filter's (bloom_filter.cpp:86, :144).
TypeOK ==
  /\ digest \in Digests /\ \A f \in aborted : FilterType(f)
  /\ FilterType(server) /\ FilterType(message) /\ FilterType(client)

\* Whatever else was put in after or before it, in whatever bytes its bits share,
\* an element put in is found, in the server's filter and in the one the client
\* makes of an older message; and the client is told the position of every one of
\* its elements among them, repeats included, each once and in order.
NeverForgets ==
  LET told == {answer.positions[r] : r \in 1 .. Len(answer.positions)}
  IN  /\ \A f \in {server, message, client} : \A x \in f.added : Check(x, f)
      /\ {p \in 0 .. Len(answer.asked) - 1 : answer.asked[p + 1] \in answer.added} \subseteq told
      /\ told \subseteq 0 .. Len(answer.asked) - 1
      /\ \A r, s \in 1 .. Len(answer.positions) :
           r < s => answer.positions[r] < answer.positions[s]

\* The filter that ends the process in a division by zero was made for none: one
\* made for an element has a bit, whatever its rate (bloom_filter.cpp:59-60).
AbortsOnlyWhenMadeForNone == \A f \in aborted : f.made = 0

\* bloom_filter.h:63-64: "Returns INVALID_ARGUMENT if `num_hash_functions` is not
\* positive or if `bits` is empty."  CreateEmpty should not have made such a
\* filter either: "... or max_elements is not positive" (bloom_filter.h:55-56).
ParsedHasBits == client # NoFilter => client.hashes > 0 /\ client.size > 0
=============================================================================
