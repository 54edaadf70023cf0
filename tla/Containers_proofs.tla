------------------------- MODULE Containers_proofs -------------------------
(***************************************************************************)
(* The two compressed containers, for any elements, hashes, sizes and      *)
(* width of a byte: first BloomFilter, then Golomb.                        *)
(*                                                                         *)
(* A Bloom filter keeps the shape it was made with, so that the hashes of  *)
(* an element are the same bits whenever they are set or tested, in the    *)
(* server's filter, in its message and in the client's.                    *)
(*                                                                         *)
(* A Golomb string is a row of words, one for each hash written, and each  *)
(* of its bits belongs to the one word around it.  So whatever bytes the   *)
(* words lie across, the next one that is 1 ends a word's unary part.      *)
(***************************************************************************)
EXTENDS BloomFilter, Golomb, FiniteSetTheorems, TLAPS

-----------------------------------------------------------------------------
(***************************************************************************)
(* BloomFilter.                                                            *)
(***************************************************************************)
Filter ==
  [hashes : Nat, size : Nat, bytes : UNION {[0 .. n - 1 -> SUBSET Bit] : n \in Nat},
   made : Int, added : SUBSET Element]

\* What was put in is found; a filter made for somebody has bits.
FilterInv(f) ==
  /\ f \in Filter /\ FilterType(f)
  /\ \A x \in f.added : Check(x, f)
  /\ f # NoFilter => f.made >= 0
  /\ f.made > 0 => f.size > 0
  /\ f.added # {} => f.size > 0

Told(a) == {a.positions[r] : r \in 1 .. Len(a.positions)}

\* The answer names exactly once, in order, what it must name and no more.
AnswerInv(a) ==
  /\ {p \in 0 .. Len(a.asked) - 1 : a.asked[p + 1] \in a.added} \subseteq Told(a)
  /\ Told(a) \subseteq 0 .. Len(a.asked) - 1
  /\ \A r, s \in 1 .. Len(a.positions) : r < s => a.positions[r] < a.positions[s]

IInv ==
  /\ digest \in Digests /\ \A f \in aborted : FilterType(f)
  /\ FilterInv(server) /\ FilterInv(message) /\ FilterInv(client)
  /\ AnswerInv(answer)
  /\ AbortsOnlyWhenMadeForNone

-----------------------------------------------------------------------------
LEMMA ProductPositive ==
  ASSUME NEW a \in Nat \ {0}, NEW b \in Nat \ {0}
  PROVE  a * b \in Nat \ {0}
  BY SMT

LEMMA ProductNat ==
  ASSUME NEW a \in Nat, NEW b \in Nat
  PROVE  a * b \in Nat
  BY SMT

\* Rounding up leaves no positive number at zero.
LEMMA DivCeilBounds ==
  ASSUME NEW a \in Nat, NEW b \in Nat \ {0}
  PROVE  /\ DivCeil(a, b) \in Nat
         /\ a > 0 => DivCeil(a, b) > 0
<1>1. a + b - 1 \in Nat /\ (a > 0 => a + b - 1 >= b)
  OBVIOUS
<1>2. ASSUME NEW c \in Nat PROVE c \div b \in Nat /\ (c >= b => c \div b > 0)
  BY SMT
<1> QED
  BY <1>1, <1>2 DEF DivCeil

\* The size of a filter made for n elements: none only for none.
LEMMA NumBytesBounds ==
  ASSUME NEW rate \in Int, NEW n \in Int, rate > 0, n >= 0
  PROVE  /\ NumBytes(rate, n) \in Nat /\ DivCeil(rate, 100) \in Nat
         /\ n > 0 => NumBytes(rate, n) > 0
<1>1. rate \in Nat \ {0} /\ n \in Nat /\ CharSize \in Nat \ {0}
  BY BloomFilterAssumption, CharSizeAssumption
<1>2. 1000000 * CharSize \in Nat \ {0}
  BY <1>1
<1>3. n * rate \in Nat /\ (n > 0 => n * rate \in Nat \ {0})
  BY <1>1, ProductNat, ProductPositive
<1> DEFINE m == n * rate
<1> HIDE DEF m
<1>4. m * 14427 \in Nat /\ (n > 0 => m * 14427 > 0)
  BY <1>3 DEF m
<1>5. n * rate * 14427 = m * 14427
  BY DEF m
<1> QED
  BY <1>1, <1>2, <1>4, <1>5, DivCeilBounds DEF NumBytes

\* The hashes of an element are bits of the filter.
LEMMA HashInFilter ==
  ASSUME digest \in Digests, NEW f \in Filter, f.size > 0, NEW x \in Element
  PROVE  HashOf(x, f) \subseteq 0 .. CharSize * f.size - 1
<1> DEFINE numBits == CharSize * f.size
<1>1. numBits \in Nat \ {0}
  BY BloomFilterAssumption, CharSizeAssumption, ProductPositive DEF Filter
<1>2. digest[x][1] \in Nat /\ digest[x][2] \in Nat
  BY BloomFilterAssumption, CharSizeAssumption
<1> HIDE DEF numBits
<1>3. digest[x][1] % numBits \in Nat /\ digest[x][2] % numBits \in Nat
  BY <1>1, <1>2
<1>4. ASSUME NEW h1 \in Nat, NEW h2 \in Nat, NEW i \in 0 .. f.hashes - 1
      PROVE  (h1 + i * h2) % numBits \in 0 .. numBits - 1
  <2>1. i \in Nat
    BY DEF Filter
  <2>2. h1 + i * h2 \in Nat
    BY <2>1, ProductNat
  <2> QED
    BY <1>1, <2>2
<1> QED
  BY <1>3, <1>4 DEF HashOf, Index, numBits

\* The byte of a bit of the filter, and the bit within it.
LEMMA ByteOfBit ==
  ASSUME NEW n \in Nat, NEW i \in 0 .. CharSize * n - 1
  PROVE  i \div CharSize \in 0 .. n - 1 /\ i % CharSize \in Bit
<1>1. CharSize \in Nat \ {0}
  BY CharSizeAssumption
<1>2. CharSize * n \in Nat
  BY <1>1, ProductNat
<1>3. i \in Nat /\ i < CharSize * n
  BY <1>2
<1> DEFINE q == i \div CharSize
<1>4. q \in Nat /\ i % CharSize \in Bit /\ i = CharSize * q + (i % CharSize)
  BY <1>1, <1>3 DEF Bit
<1>5. q < n
  <2> SUFFICES ASSUME q >= n PROVE FALSE
    BY <1>4
  <2> HIDE DEF q
  <2>1. q - n \in Nat
    BY <1>4
  <2>2. CharSize * (q - n) \in Nat
    BY <1>1, <2>1, ProductNat
  <2>3. CharSize * q = CharSize * n + CharSize * (q - n)
    BY <1>1, <1>4, SMT
  <2>4. CharSize * q \in Nat /\ i % CharSize \in Nat
    BY <1>1, <1>4, ProductNat DEF Bit
  <2> QED
    BY <1>2, <1>3, <1>4, <2>2, <2>3, <2>4
<1> QED
  BY <1>4, <1>5

\* Setting bits of the filter leaves it its bytes, and every bit it had.
LEMMA SetBitsKeeps ==
  ASSUME NEW n \in Nat, NEW old \in [0 .. n - 1 -> SUBSET Bit],
         NEW indices \in SUBSET (0 .. CharSize * n - 1)
  PROVE  /\ SetBits(old, indices) \in [0 .. n - 1 -> SUBSET Bit]
         /\ \A b \in 0 .. n - 1 : old[b] \subseteq SetBits(old, indices)[b]
         /\ \A i \in indices : i % CharSize \in SetBits(old, indices)[i \div CharSize]
<1> DEFINE touched == {i \div CharSize : i \in indices}
           Mask(b) == {i % CharSize : i \in {j \in indices : j \div CharSize = b}}
           Old(b)  == IF b \in DOMAIN old THEN old[b] ELSE {}
           new       == [b \in DOMAIN old \cup touched |-> Old(b) \cup Mask(b)]
<1>1. \A i \in indices : i \div CharSize \in 0 .. n - 1 /\ i % CharSize \in Bit
  BY ByteOfBit
<1>2. DOMAIN old \cup touched = 0 .. n - 1
  BY <1>1
<1>3. SetBits(old, indices) = new
  BY DEF SetBits, Ored
<1>4. \A b \in 0 .. n - 1 : new[b] = old[b] \cup Mask(b) /\ Mask(b) \subseteq Bit
  BY <1>1, <1>2
<1>5. \A i \in indices : i % CharSize \in Mask(i \div CharSize)
  OBVIOUS
<1>6. new \in [0 .. n - 1 -> SUBSET Bit]
  <2>1. \A b \in 0 .. n - 1 : old[b] \in SUBSET Bit
    OBVIOUS
  <2>2. \A b \in 0 .. n - 1 : new[b] \in SUBSET Bit
    <3> HIDE DEF new, Mask
    <3> QED
      BY <1>4, <2>1
  <2>3. new = [b \in 0 .. n - 1 |-> new[b]]
    BY <1>2
  <2> HIDE DEF new
  <2> QED
    BY <2>2, <2>3
<1> HIDE DEF new, Mask
<1> QED
  BY <1>1, <1>3, <1>4, <1>5, <1>6

-----------------------------------------------------------------------------
\* Adding puts in what it is given, and keeps what was there.
LEMMA AddKeepsFilter ==
  ASSUME digest \in Digests, NEW f, FilterInv(f), NEW xs \in Inputs, ~ Aborts(f, xs)
  PROVE  /\ FilterInv(AddAll(f, xs))
         /\ f # NoFilter => AddAll(f, xs).made = f.made /\ AddAll(f, xs) # NoFilter
<1> DEFINE new == UNION {HashOf(x, f) : x \in Elements(xs)}
           g   == AddAll(f, xs)
<1>1. f \in Filter /\ FilterType(f) /\ xs \in Seq(Element)
  BY BloomFilterAssumption, CharSizeAssumption DEF FilterInv
<1>2. Elements(xs) \subseteq Element /\ (xs = << >> => Elements(xs) = {})
  BY <1>1 DEF Elements
<1>3. new \subseteq 0 .. CharSize * f.size - 1
  <2>1. CASE xs = << >>
    BY <1>2, <2>1
  <2>2. CASE f.size > 0
    BY <1>1, <1>2, <2>2, HashInFilter
  <2> QED
    BY <1>1, <2>1, <2>2 DEF Aborts, Filter
<1> HIDE DEF new
<1> DEFINE grown == SetBits(f.bytes, new)
<1>4. /\ g.hashes = f.hashes /\ g.size = f.size /\ g.made = f.made
      /\ g.bytes = grown /\ g.added = f.added \cup Elements(xs)
  BY <1>1 DEF AddAll, Filter, new
<1>5. f.size \in Nat /\ f.bytes \in [0 .. f.size - 1 -> SUBSET Bit]
  BY <1>1 DEF FilterType
<1>6. /\ grown \in [0 .. f.size - 1 -> SUBSET Bit]
      /\ \A b \in 0 .. f.size - 1 : f.bytes[b] \subseteq grown[b]
      /\ \A i \in new : i % CharSize \in grown[i \div CharSize]
  BY <1>3, <1>5, SetBitsKeeps
<1> HIDE DEF grown
<1>7. g \in Filter
  <2>1. f.added \cup Elements(xs) \in SUBSET Element
    BY <1>1, <1>2 DEF Filter
  <2>2. grown \in UNION {[0 .. n - 1 -> SUBSET Bit] : n \in Nat}
    BY <1>5, <1>6
  <2>3. g = [f EXCEPT !.bytes = grown, !.added = f.added \cup Elements(xs)]
    BY DEF AddAll, new, grown
  <2> QED
    BY <1>1, <2>1, <2>2, <2>3 DEF Filter
<1>8. \A x : HashOf(x, g) = HashOf(x, f)
  BY <1>4 DEF HashOf, Index
<1> HIDE DEF g
<1>9. FilterType(g)
  BY <1>1, <1>2, <1>4, <1>6 DEF FilterType
<1>10. ASSUME NEW x \in g.added PROVE Check(x, g)
  <2>1. CASE x \in f.added
    <3>1. f.size > 0 /\ x \in Element /\ Check(x, f)
      BY <1>1, <2>1 DEF FilterInv, FilterType
    <3>2. HashOf(x, f) \subseteq 0 .. CharSize * f.size - 1
      BY <1>1, <3>1, HashInFilter
    <3>3. \A i \in HashOf(x, f) : i \div CharSize \in 0 .. f.size - 1
      BY <1>5, <3>2, ByteOfBit
    <3> QED
      BY <1>4, <1>6, <1>8, <3>1, <3>3 DEF Check
  <2>2. CASE x \in Elements(xs)
    <3>1. HashOf(x, f) \subseteq new
      BY <2>2 DEF new
    <3> QED
      BY <1>4, <1>6, <1>8, <3>1 DEF Check
  <2> QED
    BY <1>4, <2>1, <2>2
<1>11. f # NoFilter => g.made = f.made /\ g # NoFilter
  BY <1>4 DEF FilterInv, NoFilter
<1>12. FilterInv(g)
  <2>1. f = NoFilter => xs = << >>
    BY DEF Aborts, NoFilter
  <2>2. g.added # {} => g.size > 0
    <3>1. xs = << >> \/ f.size > 0
      BY <1>5 DEF Aborts
    <3> QED
      BY <1>2, <1>4, <3>1 DEF FilterInv
  <2>3. f = NoFilter => g = NoFilter
    <3> SUFFICES ASSUME f = NoFilter PROVE g = NoFilter
      OBVIOUS
    <3>1. g.added = {} /\ g.hashes = 0 /\ g.size = 0 /\ g.made = -1
      BY <1>2, <1>4, <2>1 DEF NoFilter
    <3>2. g.bytes = Zeros(0)
      BY <1>4, <1>6, <3>1 DEF Zeros
    <3> QED
      BY <1>7, <3>1, <3>2 DEF NoFilter, Filter
  <2> QED
    BY <1>4, <1>7, <1>9, <1>10, <1>11, <2>2, <2>3 DEF FilterInv
<1> QED
  BY <1>11, <1>12 DEF g

LEMMA ZerosIs ==
  ASSUME NEW n \in Nat
  PROVE  Zeros(n) \in [0 .. n - 1 -> SUBSET Bit]
  BY DEF Zeros

LEMMA EmptyFilter ==
  ASSUME NEW rate \in Int, NEW n \in Int, ~ Refused(rate, n)
  PROVE  /\ FilterInv(Empty(rate, n)) /\ Empty(rate, n) # NoFilter
         /\ Empty(rate, n).made = n
<1>1. rate > 0 /\ n >= 0
  BY DEF Refused
<1> DEFINE f      == Empty(rate, n)
           number == NumBytes(rate, n)
           hashes == DivCeil(rate, 100)
<1>2. number \in Nat /\ hashes \in Nat /\ (n > 0 => number > 0)
  BY <1>1, NumBytesBounds
<1>3. f = [hashes |-> hashes, size |-> number, bytes |-> Zeros(number),
           made |-> n, added |-> {}]
  BY DEF Empty
<1>4. Zeros(number) \in [0 .. number - 1 -> SUBSET Bit]
  BY <1>2, ZerosIs
<1> HIDE DEF f, number, hashes
<1>5. Zeros(number) \in UNION {[0 .. m - 1 -> SUBSET Bit] : m \in Nat}
  BY <1>2, <1>4
<1>6. f \in Filter
  BY <1>2, <1>3, <1>5 DEF Filter
<1>7. FilterType(f)
  BY <1>2, <1>3, <1>4 DEF FilterType
<1>8. f.added = {} /\ f.made = n /\ f.size = number
  BY <1>3
<1>9. FilterInv(f)
  BY <1>1, <1>2, <1>6, <1>7, <1>8 DEF FilterInv
<1>10. f # NoFilter
  BY <1>1, <1>8 DEF NoFilter
<1> QED
  BY <1>8, <1>9, <1>10 DEF f

LEMMA NoFilterInv == FilterInv(NoFilter)
<1>1. Zeros(0) \in [0 .. 0 - 1 -> SUBSET Bit]
  BY ZerosIs
<1>2. Zeros(0) \in UNION {[0 .. n - 1 -> SUBSET Bit] : n \in Nat}
  BY <1>1
<1>3. NoFilter \in Filter
  BY <1>2 DEF NoFilter, Filter
<1>4. FilterType(NoFilter)
  BY <1>1 DEF NoFilter, FilterType
<1>5. NoFilter.added = {} /\ NoFilter.made = -1
  BY DEF NoFilter
<1> QED
  BY <1>3, <1>4, <1>5 DEF FilterInv

-----------------------------------------------------------------------------
(***************************************************************************)
(* The answer.  An ascending enumeration of what was found exists, since   *)
(* the rank of a position is a one-to-one map onto the initial segment;    *)
(* and every ascending enumeration reaches every position found, since it  *)
(* is one-to-one too.                                                      *)
(***************************************************************************)
LEMMA AscendingExists ==
  ASSUME NEW S \in SUBSET Nat, IsFiniteSet(S)
  PROVE  \E s \in [1 .. Cardinality(S) -> S] :
           \A r, q \in 1 .. Cardinality(S) : r < q => s[r] < s[q]
<1> DEFINE last    == Cardinality(S)
           Upto(x) == {y \in S : y <= x}
           rank    == [x \in S |-> Cardinality(Upto(x))]
<1>1. last \in Nat /\ IsFiniteSet(1 .. last) /\ Cardinality(1 .. last) = last
  <2>1. last \in Nat
    BY FS_CardinalityType
  <2> HIDE DEF last
  <2> QED
    BY <2>1, FS_Interval
<1>2. ASSUME NEW x \in S PROVE IsFiniteSet(Upto(x)) /\ Cardinality(Upto(x)) \in 1 .. last
  <2>1. Upto(x) \subseteq S /\ Upto(x) # {}
    OBVIOUS
  <2> HIDE DEF Upto
  <2>2. IsFiniteSet(Upto(x)) /\ Cardinality(Upto(x)) <= last
    BY <2>1, FS_Subset
  <2>3. Cardinality(Upto(x)) \in Nat /\ Cardinality(Upto(x)) # 0
    BY <2>1, <2>2, FS_CardinalityType, FS_EmptySet
  <2> QED
    BY <1>1, <2>2, <2>3
<1>3. ASSUME NEW x \in S, NEW y \in S, x < y PROVE rank[x] < rank[y]
  <2>1. Upto(x) \subseteq Upto(y) /\ y \in Upto(y) /\ y \notin Upto(x)
    <3>1. \A z \in S : z \in Int
      OBVIOUS
    <3>2. \A z \in S : z <= x => z <= y
      BY <1>3, <3>1
    <3>3. x \in Upto(x) /\ y \in Upto(y) /\ y \notin Upto(x)
      BY <1>3, <3>1
    <3>4. Upto(x) \subseteq Upto(y)
      BY <3>2
    <3> QED
      BY <3>3, <3>4
  <2>2. IsFiniteSet(Upto(y)) /\ Cardinality(Upto(x)) \in Int /\ Cardinality(Upto(y)) \in Int
    <3> HIDE DEF Upto, last
    <3> QED
      BY <1>1, <1>2
  <2> HIDE DEF Upto
  <2>3. /\ Cardinality(Upto(x)) <= Cardinality(Upto(y))
        /\ Cardinality(Upto(x)) # Cardinality(Upto(y))
    BY <2>1, <2>2, FS_Subset
  <2> QED
    BY <2>2, <2>3
<1>4. rank \in [S -> 1 .. last]
  BY <1>2
<1>5. ASSUME NEW x \in S, NEW y \in S, rank[x] = rank[y] PROVE x = y
  <2>1. rank[x] \in Int /\ rank[y] \in Int
    BY <1>1, <1>4
  <2> HIDE DEF rank, Upto
  <2> QED
    BY <1>3, <1>5, <2>1
<1>6. rank \in Injection(S, 1 .. last)
  <2> HIDE DEF rank, last
  <2> QED
    BY <1>4, <1>5 DEF Injection, IsInjective
<1>7. rank \in Surjection(S, 1 .. last)
  <2> HIDE DEF rank
  <2>1. Cardinality(S) = Cardinality(1 .. last)
    BY <1>1
  <2> HIDE DEF last
  <2> QED
    BY <1>1, <1>6, <2>1, FS_Injection
<1>8. \A k \in 1 .. last : \E x \in S : rank[x] = k
  <2> HIDE DEF rank, last
  <2> QED
    BY <1>7 DEF Surjection
<1> DEFINE s == [k \in 1 .. last |-> CHOOSE x \in S : rank[x] = k]
<1>9. \A k \in 1 .. last : s[k] \in S /\ rank[s[k]] = k
  <2> HIDE DEF rank, last
  <2> QED
    BY <1>8
<1>10. ASSUME NEW r \in 1 .. last, NEW q \in 1 .. last, r < q PROVE s[r] < s[q]
  <2>1. s[r] \in S /\ s[q] \in S /\ rank[s[r]] = r /\ rank[s[q]] = q
    BY <1>9
  <2> HIDE DEF rank, s, last, Upto
  <2>2. s[r] \in Int /\ s[q] \in Int /\ r \in Int /\ q \in Int
    <3>1. \A z \in S : z \in Int
      OBVIOUS
    <3>2. \A k \in 1 .. last : k \in Int
      BY <1>1
    <3> QED
      BY <2>1, <3>1, <3>2
  <2>3. s[r] # s[q] /\ ~ (s[q] < s[r])
    BY <1>3, <1>10, <2>1, <2>2
  <2> QED
    BY <2>2, <2>3
<1>11. s \in [1 .. last -> S]
  BY <1>9
<1> HIDE DEF s
<1> QED
  BY <1>10, <1>11

LEMMA AscendingReachesAll ==
  ASSUME NEW S \in SUBSET Nat, IsFiniteSet(S), NEW s \in [1 .. Cardinality(S) -> S],
         \A r, q \in 1 .. Cardinality(S) : r < q => s[r] < s[q]
  PROVE  {s[r] : r \in 1 .. Cardinality(S)} = S
<1> DEFINE last == Cardinality(S)
<1>1. last \in Nat /\ IsFiniteSet(1 .. last) /\ Cardinality(1 .. last) = last
  <2>1. last \in Nat
    BY FS_CardinalityType
  <2> HIDE DEF last
  <2> QED
    BY <2>1, FS_Interval
<1>2. \A r, q \in 1 .. last : s[r] = s[q] => r = q
  <2>1. s \in [1 .. last -> S]
    OBVIOUS
  <2> HIDE DEF last
  <2>2. ASSUME NEW r \in 1 .. last, NEW q \in 1 .. last, s[r] = s[q] PROVE r = q
    <3>1. r \in Int /\ q \in Int /\ s[r] \in Int /\ s[q] \in Int
      <4>1. \A z \in S : z \in Int
        OBVIOUS
      <4>2. s[r] \in S /\ s[q] \in S
        BY <2>1 DEF last
      <4>3. \A k \in 1 .. last : k \in Int
        BY <1>1
      <4> QED
        BY <4>1, <4>2, <4>3
    <3>2. ~ (r < q) /\ ~ (q < r)
      BY <2>2, <3>1 DEF last
    <3> QED
      BY <3>1, <3>2
  <2> QED
    BY <2>2
<1> HIDE DEF last
<1>3. s \in Injection(1 .. last, S)
  BY <1>2 DEF Injection, IsInjective, last
<1>4. s \in Surjection(1 .. last, S)
  BY <1>1, <1>3, FS_Injection DEF last
<1>5. \A x \in S : \E r \in 1 .. last : s[r] = x
  BY <1>4 DEF Surjection
<1> QED
  BY <1>5 DEF last

\* What Intersect answers of a filter that has all that was put in.
LEMMA AnswerOfFilter ==
  ASSUME NEW f, FilterInv(f), NEW xs \in Inputs
  PROVE  AnswerInv([asked |-> xs, added |-> f.added, positions |-> PositionsOf(xs, f)])
<1> DEFINE found == Found(xs, f)
           last  == Cardinality(found)
           s     == PositionsOf(xs, f)
<1>1. xs \in Seq(Element) /\ Len(xs) \in Nat
  BY BloomFilterAssumption, CharSizeAssumption
<1>2. found \subseteq 0 .. Len(xs) - 1 /\ found \in SUBSET Nat
  BY <1>1 DEF Found
<1>3. IsFiniteSet(found)
  <2>1. IsFiniteSet(0 .. Len(xs) - 1)
    BY <1>1, FS_Interval
  <2> HIDE DEF found
  <2> QED
    BY <1>2, <2>1, FS_Subset
<1>4. last \in Nat
  <2> HIDE DEF found
  <2> QED
    BY <1>3, FS_CardinalityType
<1>5. s \in [1 .. last -> found] /\ \A r, q \in 1 .. last : r < q => s[r] < s[q]
  <2>1. \E t \in [1 .. last -> found] : \A r, q \in 1 .. last : r < q => t[r] < t[q]
    <3> HIDE DEF found
    <3> QED
      BY <1>2, <1>3, AscendingExists
  <2>2. s = CHOOSE t \in [1 .. last -> found] : \A r, q \in 1 .. last : r < q => t[r] < t[q]
    BY DEF PositionsOf
  <2> HIDE DEF s, last, found
  <2> QED
    BY <2>1, <2>2
<1>6. {s[r] : r \in 1 .. last} = found
  <2> HIDE DEF s, found
  <2> QED
    BY <1>2, <1>3, <1>5, AscendingReachesAll
<1>7. {p \in 0 .. Len(xs) - 1 : xs[p + 1] \in f.added} \subseteq found
  BY DEF Found, FilterInv
<1> DEFINE a == [asked |-> xs, added |-> f.added, positions |-> s]
<1> HIDE DEF s, found, last
<1>8. Len(s) = last
  BY <1>4, <1>5
<1>9. Told(a) = found
  BY <1>6, <1>8 DEF Told
<1>10. AnswerInv(a)
  BY <1>2, <1>5, <1>7, <1>8, <1>9 DEF AnswerInv
<1> QED
  BY <1>10 DEF s

-----------------------------------------------------------------------------
(***************************************************************************)
(* The steps.                                                              *)
(***************************************************************************)
LEMMA InitInv == Init => IInv
<1> SUFFICES ASSUME Init PROVE IInv
  OBVIOUS
<1>1. AnswerInv(NoAnswer)
  BY DEF NoAnswer, AnswerInv, Told
<1> QED
  BY <1>1, NoFilterInv DEF Init, IInv, AbortsOnlyWhenMadeForNone

\* A filter that cannot take an element was made for none.
LEMMA AbortsMadeForNone ==
  ASSUME NEW f, FilterInv(f), f # NoFilter, NEW xs, Aborts(f, xs)
  PROVE  f.made = 0
  BY DEF FilterInv, Filter, Aborts

\* The digests stay: a filter after a step is as good as it was before it.
LEMMA NextIInv ==
  ASSUME IInv, UNCHANGED digest,
         FilterInv(server'), FilterInv(message'), FilterInv(client'), AnswerInv(answer'),
         \A f \in aborted' : FilterType(f) /\ f.made = 0
  PROVE  IInv'
<1>1. FilterInv(server)' /\ FilterInv(message)' /\ FilterInv(client)'
  BY DEF FilterInv, FilterType, Check, HashOf, Index
<1>2. AnswerInv(answer)'
  BY DEF AnswerInv, Told
<1>3. AbortsOnlyWhenMadeForNone' /\ (\A f \in aborted : FilterType(f))'
  BY DEF AbortsOnlyWhenMadeForNone, FilterType
<1> QED
  BY <1>1, <1>2, <1>3 DEF IInv

LEMMA CreateEmptyInv ==
  ASSUME IInv, aborted = {}, NEW rate \in Rates, NEW n \in MaxElements, CreateEmpty(rate, n)
  PROVE  IInv'
<1>1. FilterInv(Empty(rate, n))
  BY BloomFilterAssumption, CharSizeAssumption, EmptyFilter DEF CreateEmpty
<1>2. server' = Empty(rate, n) /\ UNCHANGED <<digest, message, client, answer, aborted>>
  BY DEF CreateEmpty
<1> QED
  BY <1>1, <1>2, NextIInv DEF IInv

\* Whatever the count it is told, Create makes the filter for all it will add.
LEMMA CreateInv ==
  ASSUME IInv, aborted = {}, NEW rate \in Rates, NEW count \in ClientCounts,
         NEW xs \in Inputs, Create(rate, count, xs)
  PROVE  IInv'
<1> DEFINE n == FE!Max({count, Len(xs)})
           f == Empty(rate, n)
<1>1. count \in Int /\ rate \in Int /\ xs \in Seq(Element) /\ Len(xs) \in Nat
  BY BloomFilterAssumption, CharSizeAssumption
<1>2. n \in Int /\ n >= Len(xs)
  <2>1. \E x \in {count, Len(xs)} : \A y \in {count, Len(xs)} : x >= y
    BY <1>1
  <2> QED
    BY <1>1, <2>1 DEF FE!Max
<1>3. ~ Refused(rate, n)
  BY DEF Create
<1> HIDE DEF n
<1>4. FilterInv(f) /\ f # NoFilter /\ f.made = n
  BY <1>1, <1>2, <1>3, EmptyFilter
<1>5. ~ Aborts(f, xs)
  <2>1. SUFFICES ASSUME Aborts(f, xs) PROVE FALSE
    OBVIOUS
  <2>2. n = 0
    <3> HIDE DEF f
    <3> QED
      BY <1>4, <2>1, AbortsMadeForNone
  <2>3. xs # << >>
    BY <2>1 DEF Aborts
  <2> QED
    BY <1>1, <1>2, <2>2, <2>3
<1>6. /\ server' = AddAll(f, xs)
      /\ UNCHANGED <<digest, message, client, answer, aborted>>
  BY <1>5 DEF Create, n
<1> HIDE DEF f
<1>7. FilterInv(AddAll(f, xs))
  BY <1>4, <1>5, AddKeepsFilter DEF IInv
<1> QED
  BY <1>6, <1>7, NextIInv DEF IInv

LEMMA AddInv ==
  ASSUME IInv, aborted = {}, NEW xs \in Inputs, Add(xs)
  PROVE  IInv'
<1>1. CASE Aborts(server, xs)
  <2>1. aborted' = {server} /\ UNCHANGED <<digest, server, message, client, answer>>
    BY <1>1 DEF Add
  <2>2. server.made = 0 /\ FilterType(server)
    BY <1>1, AbortsMadeForNone DEF IInv, Add, FilterInv
  <2> QED
    BY <2>1, <2>2, NextIInv DEF IInv
<1>2. CASE ~ Aborts(server, xs)
  <2>1. /\ server' = AddAll(server, xs)
        /\ UNCHANGED <<digest, message, client, answer, aborted>>
    BY <1>2 DEF Add
  <2>2. FilterInv(AddAll(server, xs))
    BY <1>2, AddKeepsFilter DEF IInv
  <2> QED
    BY <2>1, <2>2, NextIInv DEF IInv
<1> QED
  BY <1>1, <1>2

LEMMA ToProtobufInv ==
  ASSUME IInv, aborted = {}, ToProtobuf
  PROVE  IInv'
  BY NextIInv DEF ToProtobuf, IInv

LEMMA CreateFromProtobufInv ==
  ASSUME IInv, aborted = {}, CreateFromProtobuf
  PROVE  IInv'
  BY NextIInv DEF CreateFromProtobuf, IInv

LEMMA IntersectInv ==
  ASSUME IInv, aborted = {}, NEW xs \in Inputs, Intersect(xs)
  PROVE  IInv'
<1>1. CASE Aborts(client, xs)
  <2>1. aborted' = {client} /\ UNCHANGED <<digest, server, message, client, answer>>
    BY <1>1 DEF Intersect
  <2>2. client.made = 0 /\ FilterType(client)
    BY <1>1, AbortsMadeForNone DEF IInv, Intersect, FilterInv
  <2> QED
    BY <2>1, <2>2, NextIInv DEF IInv
<1>2. CASE ~ Aborts(client, xs)
  <2> DEFINE a == [asked |-> xs, added |-> client.added, positions |-> PositionsOf(xs, client)]
  <2>1. answer' = a /\ UNCHANGED <<digest, server, message, client, aborted>>
    BY <1>2 DEF Intersect
  <2>2. AnswerInv(a)
    BY AnswerOfFilter DEF IInv
  <2> HIDE DEF a
  <2> QED
    BY <2>1, <2>2, NextIInv DEF IInv
<1> QED
  BY <1>1, <1>2

LEMMA StutterInv ==
  ASSUME IInv, UNCHANGED vars
  PROVE  IInv'
  BY NextIInv DEF vars, IInv, AbortsOnlyWhenMadeForNone

LEMMA Invariance == Spec => []IInv
<1>1. IInv /\ [Next]_vars => IInv'
  BY CreateEmptyInv, CreateInv, AddInv, ToProtobufInv, CreateFromProtobufInv,
     IntersectInv, StutterInv DEF Next
<1> QED
  BY <1>1, InitInv, PTL DEF Spec

-----------------------------------------------------------------------------
\* No call sets a bit outside of the bytes the filter was made with, in any of
\* the three filters (bloom_filter.cpp:86, :144).
THEOREM FilterTypesHold == Spec => []TypeOK
<1>1. IInv => TypeOK
  BY DEF IInv, FilterInv, TypeOK
<1> QED
  BY <1>1, Invariance, PTL

\* Whatever the digests, an element put in is found from then on, in the
\* server's filter and in the client's copy; and an answer names the position of
\* each of the client's elements among them, once and in order.
THEOREM NothingIsForgotten == Spec => []NeverForgets
<1>1. IInv => NeverForgets
  BY DEF IInv, FilterInv, AnswerInv, Told, NeverForgets
<1> QED
  BY <1>1, Invariance, PTL

\* Only a filter made for no element makes the process end in a reduction modulo
\* zero: for any rate and any positive number, the size rounds up to a byte.
THEOREM NonemptyFiltersNeverAbort == Spec => []AbortsOnlyWhenMadeForNone
<1>1. IInv => AbortsOnlyWhenMadeForNone
  BY DEF IInv
<1> QED
  BY <1>1, Invariance, PTL

-----------------------------------------------------------------------------
(***************************************************************************)
(* Golomb.  First powers of two: the provers know nothing of them but that *)
(* a set of n elements has 2^n subsets.                                    *)
(***************************************************************************)
LEMMA Subsets ==
  ASSUME NEW n \in Nat
  PROVE  IsFiniteSet(SUBSET (1 .. n)) /\ Cardinality(SUBSET (1 .. n)) = 2^n
<1>1. IsFiniteSet(1 .. n) /\ Cardinality(1 .. n) = n
  <2>1. 1 \in Int /\ n \in Int /\ n - 1 + 1 = n
    OBVIOUS
  <2> QED
    BY <2>1, FS_Interval
<1> QED
  BY <1>1, FS_SUBSET, Zenon

LEMMA Power ==
  ASSUME NEW n \in Nat
  PROVE  2^n \in Nat \ {0}
<1>1. Cardinality(SUBSET (1 .. n)) \in Nat
  BY Subsets, FS_CardinalityType
<1>2. SUBSET (1 .. n) # {}
  OBVIOUS
<1>3. Cardinality(SUBSET (1 .. n)) # 0
  BY <1>2, Subsets, FS_EmptySet
<1> QED
  BY <1>1, <1>3, Subsets

LEMMA PowerGrows ==
  ASSUME NEW n \in Nat, NEW m \in Nat, n <= m
  PROVE  2^n <= 2^m
<1>1. SUBSET (1 .. n) \in SUBSET (SUBSET (1 .. m))
  OBVIOUS
<1>2. Cardinality(SUBSET (1 .. n)) <= Cardinality(SUBSET (1 .. m))
  BY <1>1, Subsets, FS_Subset
<1> QED
  BY <1>2, Subsets

LEMMA PowerNext ==
  ASSUME NEW n \in Nat
  PROVE  2^(n + 1) = 2 * 2^n
<1> DEFINE A == SUBSET (1 .. n)
           f == [s \in A |-> s \cup {n + 1}]
           B == {s \cup {n + 1} : s \in A}
<1>1. ExistsBijection(A, B)
  <2>1. \A s, t \in A : f[s] = f[t] => s = t
    <3>1. \A s \in A : n + 1 \notin s
      OBVIOUS
    <3>2. ASSUME NEW s \in A, NEW t \in A, s \cup {n + 1} = t \cup {n + 1}
          PROVE  s = t
      <4>1. \A x : x \in s <=> x \in s \cup {n + 1} /\ x # n + 1
        BY <3>1
      <4>2. \A x : x \in t <=> x \in t \cup {n + 1} /\ x # n + 1
        BY <3>1
      <4> QED
        BY <3>2, <4>1, <4>2
    <3> QED
      BY <3>2
  <2>2. f \in [A -> B] /\ \A b \in B : \E s \in A : f[s] = b
    OBVIOUS
  <2>3. f \in Bijection(A, B)
    <3> HIDE DEF A, B, f
    <3> QED
      BY <2>1, <2>2 DEF Bijection, Injection, Surjection, IsInjective
  <2> QED
    BY <2>3 DEF ExistsBijection
<1>2. SUBSET (1 .. n + 1) = A \cup B
  <2>1. ASSUME NEW s \in SUBSET (1 .. n + 1) PROVE s \in A \/ s \in B
    <3>1. \A x \in 1 .. n + 1 : x # n + 1 => x \in 1 .. n
      OBVIOUS
    <3>2. s \ {n + 1} \in A
      BY <3>1
    <3>3. n + 1 \in s => s = (s \ {n + 1}) \cup {n + 1}
      OBVIOUS
    <3>4. n + 1 \notin s => s = s \ {n + 1}
      OBVIOUS
    <3> QED
      BY <3>2, <3>3, <3>4, Zenon
  <2>2. \A s \in A : s \in SUBSET (1 .. n + 1) /\ s \cup {n + 1} \in SUBSET (1 .. n + 1)
    OBVIOUS
  <2>3. \A b \in B : b \in SUBSET (1 .. n + 1)
    BY <2>2, Zenon
  <2> HIDE DEF A, B
  <2> QED
    BY <2>1, <2>2, <2>3, Zenon
<1>3. A \cap B = {}
  <2>1. \A s \in A : n + 1 \notin s
    OBVIOUS
  <2>2. \A b \in B : n + 1 \in b
    OBVIOUS
  <2> QED
    BY <2>1, <2>2
<1>4. IsFiniteSet(A) /\ Cardinality(A) = 2^n /\ Cardinality(A) \in Nat
  BY Subsets, FS_CardinalityType
<1>5. Cardinality(SUBSET (1 .. n + 1)) = 2^(n + 1)
  <2>1. n + 1 \in Nat
    OBVIOUS
  <2> QED
    BY <2>1, Subsets
<1> HIDE DEF A, B
<1>6. IsFiniteSet(B) /\ Cardinality(B) = Cardinality(A)
  BY <1>1, <1>4, FS_Bijection
<1>7. Cardinality(A \cup B) = Cardinality(A) + Cardinality(B) - Cardinality(A \cap B)
  BY <1>4, <1>6, FS_Union
<1>8. Cardinality(A \cap B) = 0
  BY <1>3, FS_EmptySet
<1>9. Cardinality(A \cup B) = 2^n + 2^n
  BY <1>4, <1>6, <1>7, <1>8
<1>10. 2^(n + 1) = 2^n + 2^n
  BY <1>2, <1>5, <1>9, Zenon
<1>11. 2^n \in Nat
  BY Power
<1> QED
  BY <1>10, <1>11

-----------------------------------------------------------------------------
(***************************************************************************)
(* Division, by the one quotient and remainder there are.                  *)
(***************************************************************************)
LEMMA Division ==
  ASSUME NEW a \in Nat, NEW b \in Nat \ {0}
  PROVE  /\ a \div b \in Nat
         /\ a % b \in 0 .. b - 1
         /\ a = b * (a \div b) + (a % b)
  BY SMT

LEMMA Products ==
  ASSUME NEW a \in Nat, NEW b \in Nat
  PROVE  a * b \in Nat
  BY SMT

LEMMA QuotientIs ==
  ASSUME NEW b \in Nat \ {0}, NEW q \in Nat, NEW r \in 0 .. b - 1
  PROVE  (b * q + r) \div b = q /\ (b * q + r) % b = r
<1> DEFINE a == b * q + r
<1>1. a \in Nat /\ b * q \in Nat
  BY Products
<1>2. a \div b \in Nat /\ a % b \in 0 .. b - 1 /\ a = b * (a \div b) + (a % b)
  <2> HIDE DEF a
  <2> QED
    BY <1>1, Division
<1> DEFINE p == a \div b
           s == a % b
<1>3. p \in Nat /\ s \in 0 .. b - 1 /\ b * p + s = b * q + r
  BY <1>2
<1> HIDE DEF a, p, s
<1>4. p = q
  <2>1. ASSUME p < q PROVE FALSE
    <3>1. b * (q - p) >= b
      BY <1>3, <2>1, SMT
    <3>2. b * q = b * p + b * (q - p)
      BY <1>3, SMT
    <3> QED
      BY <1>1, <1>3, <3>1, <3>2, Products
  <2>2. ASSUME q < p PROVE FALSE
    <3>1. b * (p - q) >= b
      BY <1>3, <2>2, SMT
    <3>2. b * p = b * q + b * (p - q)
      BY <1>3, SMT
    <3> QED
      BY <1>1, <1>3, <3>1, <3>2, Products
  <2> QED
    BY <1>3, <2>1, <2>2
<1>5. s = r
  BY <1>1, <1>3, <1>4
<1> QED
  BY <1>4, <1>5 DEF p, s, a

-----------------------------------------------------------------------------
(***************************************************************************)
(* The bits of a number.                                                   *)
(***************************************************************************)
LEMMA NoHighBits ==
  ASSUME NEW x \in Nat, NEW n \in Nat, x < 2^n, NEW i \in Nat, n <= i
  PROVE  ~ BitOf(x, i)
<1> DEFINE p == 2^i
<1>1. p \in Nat \ {0}
  BY Power
<1>2. x \in 0 .. p - 1
  <2>1. 2^n <= p /\ 2^n \in Nat
    BY Power, PowerGrows
  <2> HIDE DEF p
  <2> QED
    BY <1>1, <2>1
<1> HIDE DEF p
<1>3. p * 0 + x = x
  BY <1>1
<1>4. x \div p = 0
  <2>1. (p * 0 + x) \div p = 0
    BY <1>1, <1>2, QuotientIs
  <2> QED
    BY <1>3, <2>1
<1>5. 0 % 2 # 1
  OBVIOUS
<1>6. x \div 2^i = 0
  BY <1>4 DEF p
<1> QED
  BY <1>5, <1>6, Zenon DEF BitOf

LEMMA OneMoreBit ==
  ASSUME NEW x \in Nat, NEW k \in Nat
  PROVE  x % 2^(k + 1) = (x % 2^k) + (IF BitOf(x, k) THEN 2^k ELSE 0)
<1> DEFINE p == 2^k
           q == x \div p
           r == x % p
           a == q \div 2
           c == q % 2
<1>1. p \in Nat \ {0} /\ 2^(k + 1) = 2 * p
  BY Power, PowerNext
<1> HIDE DEF p
<1>2. q \in Nat /\ r \in 0 .. p - 1 /\ x = p * q + r
  BY <1>1, Division
<1> HIDE DEF q, r
<1>3. a \in Nat /\ c \in 0 .. 1 /\ q = 2 * a + c
  BY <1>2, Division
<1> HIDE DEF a, c
<1>4. p * q = (2 * p) * a + p * c
  BY <1>1, <1>3, SMT
<1>5. p * c = IF c = 1 THEN p ELSE 0
  BY <1>1, <1>3
<1>6. p * c + r \in 0 .. 2 * p - 1 /\ 2 * p \in Nat \ {0} /\ p * c \in Nat
  BY <1>1, <1>2, <1>3, <1>5
<1>7. x = (2 * p) * a + (p * c + r)
  <2>1. (2 * p) * a \in Nat
    BY <1>3, <1>6, Products
  <2> QED
    BY <1>2, <1>4, <1>6, <2>1
<1>8. x % (2 * p) = p * c + r
  BY <1>3, <1>6, <1>7, QuotientIs
<1>9. BitOf(x, k) <=> c = 1
  BY Zenon DEF BitOf, c, q, p
<1>10. x % 2^(k + 1) = p * c + r
  BY <1>1, <1>8, Zenon
<1>11. x % 2^(k + 1) = r + (IF BitOf(x, k) THEN p ELSE 0)
  BY <1>1, <1>2, <1>5, <1>9, <1>10
<1>12. r = x % 2^k /\ p = 2^k
  BY Zenon DEF r, p
<1> QED
  BY <1>11, <1>12, Zenon

-----------------------------------------------------------------------------
(***************************************************************************)
(* Sums over finite sets, as FiniteSetsExt folds them: f[s] is the sum of  *)
(* w over s, for each subset s of S.                                       *)
(***************************************************************************)
LEMMA LeastElement ==
  ASSUME NEW S \in SUBSET Nat, S # {}
  PROVE  \E m \in S : \A i \in S : m <= i
<1> DEFINE R == {ss \in Nat \X Nat : ss[1] < ss[2]}
<1>1. IsWellFoundedOn(R, Nat)
  BY NatLessThanWellFounded DEF OpToRel
<1>2. \A i, m \in Nat : <<i, m>> \notin R => m <= i
  OBVIOUS
<1> HIDE DEF R
<1> QED
  BY <1>1, <1>2, WFMin

Picked(s) == CHOOSE x \in s : TRUE

Step(f, w, s) == IF s = {} THEN 0 ELSE w[Picked(s)] + f[s \ {Picked(s)}]

IsTotal(f, w, S) == f = [s \in SUBSET S |-> Step(f, w, s)]

LEMMA PickedSmaller ==
  ASSUME NEW s, IsFiniteSet(s), s # {}
  PROVE  /\ Picked(s) \in s /\ IsFiniteSet(s \ {Picked(s)})
         /\ Cardinality(s) \in Nat /\ Cardinality(s \ {Picked(s)}) = Cardinality(s) - 1
<1>1. Picked(s) \in s
  BY DEF Picked
<1> QED
  BY <1>1, FS_RemoveElement, FS_CardinalityType

LEMMA TotalExists ==
  ASSUME NEW S, IsFiniteSet(S), NEW w
  PROVE  \E f : IsTotal(f, w, S)
<1> DEFINE Small(k) == {s \in SUBSET S : Cardinality(s) <= k}
           Good(k)  == \E f : \A s \in Small(k) : f[s] = Step(f, w, s)
           Failing  == {k \in Nat : ~ Good(k)}
<1>1. \A s \in SUBSET S :
        IsFiniteSet(s) /\ Cardinality(s) \in Nat /\ Cardinality(s) <= Cardinality(S)
  BY FS_Subset, FS_CardinalityType
<1>2. ASSUME NEW k \in Nat, \E g : \A s \in SUBSET S : Cardinality(s) < k => g[s] = Step(g, w, s)
      PROVE  Good(k)
  <2>1. PICK g : \A s \in SUBSET S : Cardinality(s) < k => g[s] = Step(g, w, s)
    BY <1>2
  <2> DEFINE f == [s \in SUBSET S |-> IF Cardinality(s) < k THEN g[s] ELSE Step(g, w, s)]
  <2>2. ASSUME NEW s \in Small(k) PROVE f[s] = Step(f, w, s)
    <3>1. f[s] = Step(g, w, s)
      BY <2>1
    <3>2. CASE s = {}
      BY <3>1, <3>2 DEF Step
    <3>3. CASE s # {}
      <4> DEFINE t == s \ {Picked(s)}
      <4>1. t \in SUBSET S /\ Cardinality(t) < k
        BY <1>1, <3>3, PickedSmaller
      <4>2. f[t] = g[t]
        BY <4>1
      <4> HIDE DEF f
      <4> QED
        BY <3>1, <3>3, <4>2 DEF Step
    <3> QED
      BY <3>2, <3>3
  <2> QED
    BY <2>2
<1>3. ASSUME Failing # {} PROVE FALSE
  <2>1. PICK m \in Failing : \A i \in Failing : m <= i
    <3> HIDE DEF Failing
    <3> QED
      BY <1>3, LeastElement DEF Failing
  <2>2. m \in Nat /\ ~ Good(m)
    BY <2>1
  <2>3. CASE m = 0
    <3>1. \A s \in SUBSET S : ~ (Cardinality(s) < 0)
      BY <1>1
    <3> QED
      BY <1>2, <2>2, <2>3, <3>1
  <2>4. CASE m # 0
    <3>1. m - 1 \in Nat /\ ~ (m <= m - 1)
      BY <2>2, <2>4
    <3>2. Good(m - 1)
      BY <2>1, <3>1
    <3>3. PICK g : \A s \in Small(m - 1) : g[s] = Step(g, w, s)
      BY <3>2
    <3>4. \A s \in SUBSET S : Cardinality(s) < m => s \in Small(m - 1)
      BY <1>1, <2>2
    <3>5. \A s \in SUBSET S : Cardinality(s) < m => g[s] = Step(g, w, s)
      BY <3>3, <3>4
    <3> QED
      BY <1>2, <2>2, <3>5
  <2> QED
    BY <2>3, <2>4
<1>4. Cardinality(S) \in Nat
  BY FS_CardinalityType
<1>5. Good(Cardinality(S))
  BY <1>3, <1>4
<1>6. PICK g : \A s \in SUBSET S : g[s] = Step(g, w, s)
  BY <1>1, <1>5
<1> DEFINE f == [s \in SUBSET S |-> g[s]]
<1>7. ASSUME NEW s \in SUBSET S PROVE f[s] = Step(f, w, s)
  <2>1. s # {} => s \ {Picked(s)} \in SUBSET S
    OBVIOUS
  <2>2. s # {} => f[s \ {Picked(s)}] = g[s \ {Picked(s)}]
    BY <2>1
  <2>3. f[s] = Step(g, w, s)
    BY <1>6
  <2> HIDE DEF f
  <2> QED
    BY <2>2, <2>3 DEF Step
<1>8. f = [s \in SUBSET S |-> f[s]]
  OBVIOUS
<1> HIDE DEF f
<1>9. f = [s \in SUBSET S |-> Step(f, w, s)]
  BY <1>7, <1>8
<1> QED
  BY <1>9 DEF IsTotal

LEMMA TotalUnfolds ==
  ASSUME NEW S, NEW w, NEW f, IsTotal(f, w, S), NEW s \in SUBSET S
  PROVE  f[s] = Step(f, w, s)
BY DEF IsTotal

\* The sum does not depend on the order.
Weighs(w, S) == \A x \in S : w[x] \in Nat

AddsUp(f, w, S) ==
  \A s \in SUBSET S : f[s] \in Nat /\ \A x \in S \ s : f[s \cup {x}] = f[s] + w[x]

LEMMA TotalAdds ==
  ASSUME NEW S, IsFiniteSet(S), NEW w, Weighs(w, S), NEW f, IsTotal(f, w, S)
  PROVE  AddsUp(f, w, S)
<1> USE DEF Weighs
<1> DEFINE Fine(s) == f[s] \in Nat /\ \A x \in S \ s : f[s \cup {x}] = f[s] + w[x]
           Failing == {k \in Nat : \E s \in SUBSET S : Cardinality(s) = k /\ ~ Fine(s)}
<1>1. \A s \in SUBSET S : IsFiniteSet(s) /\ Cardinality(s) \in Nat
  BY FS_Subset, FS_CardinalityType
<1>2. ASSUME Failing # {} PROVE FALSE
  <2>1. PICK m \in Failing : \A i \in Failing : m <= i
    <3> HIDE DEF Failing
    <3> QED
      BY <1>2, LeastElement DEF Failing
  <2>2. PICK s \in SUBSET S : Cardinality(s) = m /\ ~ Fine(s)
    BY <2>1
  <2>3. ASSUME NEW t \in SUBSET S, Cardinality(t) < m PROVE Fine(t)
    BY <1>1, <2>1, <2>3
  <2>4. f[s] \in Nat
    <3>0. f[s] = Step(f, w, s)
      BY TotalUnfolds
    <3>1. CASE s = {}
      BY <3>0, <3>1 DEF Step
    <3>2. CASE s # {}
      <4> DEFINE t == s \ {Picked(s)}
      <4>1. t \in SUBSET S /\ Cardinality(t) < m /\ Picked(s) \in S
        BY <1>1, <2>2, <3>2, PickedSmaller
      <4>2. f[t] \in Nat /\ w[Picked(s)] \in Nat
        <5>1. Fine(t)
          BY <2>3, <4>1
        <5> QED
          BY <4>1, <5>1
      <4>3. f[s] = w[Picked(s)] + f[t]
        BY <3>0, <3>2 DEF Step
      <4> QED
        BY <4>2, <4>3
    <3> QED
      BY <3>1, <3>2
  <2>5. ASSUME NEW x \in S \ s PROVE f[s \cup {x}] = f[s] + w[x]
    <3> DEFINE u == s \cup {x}
               y == Picked(u)
    <3>1. u \in SUBSET S /\ u # {} /\ IsFiniteSet(u)
      BY <1>1
    <3>2. y \in u
      BY <3>1, PickedSmaller
    <3>3. f[u] = w[y] + f[u \ {y}]
      <4>1. f[u] = Step(f, w, u)
        BY <3>1, TotalUnfolds
      <4> QED
        BY <3>1, <4>1 DEF Step
    <3>4. CASE y = x
      <4>1. u \ {y} = s
        BY <3>4
      <4>2. f[u] = w[x] + f[s]
        BY <3>3, <3>4, <4>1, Zenon
      <4>3. w[x] \in Nat
        OBVIOUS
      <4> QED
        BY <2>4, <4>2, <4>3
    <3>5. CASE y # x
      <4> DEFINE t == s \ {y}
      <4>1. y \in s
        BY <3>2, <3>5
      <4>2. t \in SUBSET S /\ Cardinality(t) = m - 1 /\ m \in Nat
        BY <1>1, <2>2, <4>1, FS_RemoveElement
      <4>3. Fine(t)
        <5>1. Cardinality(t) < m
          BY <4>2
        <5> QED
          BY <2>3, <4>2, <5>1
      <4>4. x \in S \ t /\ y \in S \ t
        BY <4>1
      <4>5. u \ {y} = t \cup {x} /\ s = t \cup {y}
        BY <3>5, <4>1
      <4>6. f[t \cup {x}] = f[t] + w[x] /\ f[t \cup {y}] = f[t] + w[y] /\ f[t] \in Nat
        BY <4>3, <4>4
      <4>7. w[x] \in Nat /\ w[y] \in Nat
        BY <4>4
      <4>8. f[u] = w[y] + (f[t] + w[x]) /\ f[s] = f[t] + w[y]
        BY <3>3, <4>5, <4>6, Zenon
      <4> HIDE DEF t, u, y
      <4>9. f[u] = f[s] + w[x]
        BY <4>6, <4>7, <4>8
      <4> QED
        BY <4>9 DEF u
    <3> QED
      BY <3>4, <3>5
  <2> QED
    BY <2>2, <2>4, <2>5
<1>3. ASSUME NEW s \in SUBSET S PROVE Fine(s)
  BY <1>1, <1>2
<1> QED
  BY <1>3 DEF AddsUp

LEMMA TotalEmpty ==
  ASSUME NEW S, NEW w, NEW f, IsTotal(f, w, S)
  PROVE  f[{}] = 0
BY TotalUnfolds DEF Step

\* The sum over s is the same wherever it is taken.
LEMMA TotalLocal ==
  ASSUME NEW S, NEW T, S \subseteq T, IsFiniteSet(T), NEW v, NEW w, \A x \in S : v[x] = w[x],
         NEW f, IsTotal(f, v, S), NEW g, IsTotal(g, w, T)
  PROVE  \A s \in SUBSET S : f[s] = g[s]
<1> DEFINE Failing == {k \in Nat : \E s \in SUBSET S : Cardinality(s) = k /\ f[s] # g[s]}
<1>1. \A s \in SUBSET S : IsFiniteSet(s) /\ Cardinality(s) \in Nat /\ s \in SUBSET T
  BY FS_Subset, FS_CardinalityType
<1>2. ASSUME Failing # {} PROVE FALSE
  <2>1. PICK m \in Failing : \A i \in Failing : m <= i
    <3> HIDE DEF Failing
    <3> QED
      BY <1>2, LeastElement DEF Failing
  <2>2. PICK s \in SUBSET S : Cardinality(s) = m /\ f[s] # g[s]
    BY <2>1
  <2>3. f[s] = Step(f, v, s) /\ g[s] = Step(g, w, s)
    BY <1>1, TotalUnfolds
  <2>4. CASE s = {}
    BY <2>2, <2>3, <2>4 DEF Step
  <2>5. CASE s # {}
    <3> DEFINE t == s \ {Picked(s)}
    <3>1. t \in SUBSET S /\ Cardinality(t) = m - 1 /\ m \in Nat /\ Picked(s) \in S
      BY <1>1, <2>2, <2>5, PickedSmaller
    <3>2. f[t] = g[t]
      BY <1>1, <2>1, <3>1
    <3> QED
      BY <2>2, <2>3, <2>5, <3>1, <3>2 DEF Step
  <2> QED
    BY <2>4, <2>5
<1> QED
  BY <1>1, <1>2

Within(S, T) == S \subseteq T

LEMMA TotalSame ==
  ASSUME NEW S, NEW T, Within(S, T), IsFiniteSet(T), NEW w,
         NEW f, IsTotal(f, w, S), NEW g, IsTotal(g, w, T)
  PROVE  f[S] = g[S]
<1>1. \A s \in SUBSET S : f[s] = g[s]
  BY TotalLocal DEF Within
<1> QED
  BY <1>1

-----------------------------------------------------------------------------
(***************************************************************************)
(* The words: each written hash has one, and they follow each other.       *)
(***************************************************************************)
Pos(k, b) == k * CharSize + b

\* The word of h: where it begins, its one, and what its last bits say.
Delta(h) == h - Before(h)
Start(h) == EndOf(h) - WordLength(Delta(h))
One(h)   == Start(h) + Delta(h) \div 2^div
Rest(h)  == Delta(h) % 2^div

InputsInv ==
  /\ div \in Nat /\ serverSize \in Nat /\ clientSize \in Nat
  /\ serverHashes \in Ascending(serverSize) /\ clientHashes \in Ascending(clientSize)

LEMMA WrittenFinite ==
  ASSUME InputsInv
  PROVE  Written \in SUBSET Nat /\ IsFiniteSet(Written)
<1>1. \A a \in 0 .. serverSize - 1 : serverHashes[a] \in Hash
  BY DEF InputsInv, Ascending
<1>2. Written \in SUBSET Nat
  BY <1>1, GolombAssumption DEF Written
<1> DEFINE f == [a \in 0 .. serverSize - 1 |-> serverHashes[a]]
<1>3. f \in Surjection(0 .. serverSize - 1, Written)
  BY DEF Surjection, Written
<1>4. IsFiniteSet(0 .. serverSize - 1)
  <2>1. 0 \in Int /\ serverSize - 1 \in Int
    BY DEF InputsInv
  <2> QED
    BY <2>1, FS_Interval
<1> HIDE DEF f
<1>5. IsFiniteSet(Written)
  BY <1>3, <1>4, FS_Surjection
<1> QED
  BY <1>2, <1>5

LEMMA Greatest ==
  ASSUME NEW S \in SUBSET Nat, S # {}, NEW b \in Nat, \A i \in S : i <= b
  PROVE  FE!Max(S) \in S /\ \A i \in S : i <= FE!Max(S)
<1> DEFINE Bounds == {c \in Nat : \A i \in S : i <= c}
<1>1. PICK c \in Bounds : \A d \in Bounds : c <= d
  <2>1. Bounds \in SUBSET Nat /\ Bounds # {}
    OBVIOUS
  <2> HIDE DEF Bounds
  <2> QED
    BY <2>1, LeastElement
<1>2. c \in S
  <2> SUFFICES ASSUME c \notin S PROVE FALSE
    OBVIOUS
  <2>1. \A i \in S : i < c
    BY <1>1
  <2>2. c # 0
    <3>1. PICK i \in S : TRUE
      OBVIOUS
    <3>2. i \in Nat /\ i < c
      BY <2>1
    <3> QED
      BY <3>2
  <2>3. c - 1 \in Bounds
    BY <2>1, <2>2, <1>1
  <2> QED
    BY <1>1, <2>3
<1>3. \E m \in S : \A i \in S : m >= i
  BY <1>1, <1>2
<1>4. FE!Max(S) \in S /\ \A i \in S : FE!Max(S) >= i
  BY <1>3, Zenon DEF FE!Max
<1> QED
  BY <1>4

LEMMA Smallest ==
  ASSUME NEW S \in SUBSET Nat, S # {}
  PROVE  FE!Min(S) \in S /\ \A i \in S : FE!Min(S) <= i
<1>1. \E m \in S : \A i \in S : m <= i
  BY LeastElement
<1> QED
  BY <1>1, Zenon DEF FE!Min

\* The hash written before h: the greatest smaller one, or else 0.
LEMMA BeforeIs ==
  ASSUME InputsInv, NEW h \in Nat
  PROVE  /\ Before(h) \in Nat /\ Before(h) <= h
         /\ Before(h) \in Written \/ Before(h) = 0
         /\ \A g \in Written : g < h => g <= Before(h)
         /\ \A g \in Written : g < h => Before(h) < h
<1> DEFINE S == {0} \cup {g \in Written : g < h}
<1>1. S \in SUBSET Nat /\ S # {} /\ \A i \in S : i <= h
  BY WrittenFinite
<1>2. Before(h) \in S /\ \A i \in S : i <= Before(h)
  <2>1. Before(h) = FE!Max(S)
    BY DEF Before
  <2> HIDE DEF S
  <2> QED
    BY <1>1, <2>1, Greatest
<1> QED
  BY <1>1, <1>2

LEMMA DeltaIs ==
  ASSUME InputsInv, NEW h \in Nat
  PROVE  /\ Delta(h) \in Nat /\ h = Before(h) + Delta(h)
         /\ Delta(h) \div 2^div \in Nat /\ Rest(h) \in 0 .. 2^div - 1
         /\ Delta(h) = 2^div * (Delta(h) \div 2^div) + Rest(h)
         /\ WordLength(Delta(h)) = Delta(h) \div 2^div + 1 + div
         /\ WordLength(Delta(h)) \in Nat
<1>1. Delta(h) \in Nat /\ h = Before(h) + Delta(h)
  BY BeforeIs DEF Delta
<1>2. div \in Nat
  BY DEF InputsInv
<1> DEFINE p == 2^div
<1>3. p \in Nat \ {0}
  BY <1>2, Power
<1>4. Rest(h) = Delta(h) % p /\ WordLength(Delta(h)) = Delta(h) \div p + 1 + div
  BY DEF Rest, WordLength
<1> HIDE DEF p
<1>5. /\ Delta(h) \div p \in Nat /\ Rest(h) \in 0 .. p - 1
      /\ Delta(h) = p * (Delta(h) \div p) + Rest(h)
  BY <1>1, <1>3, <1>4, Division
<1>6. WordLength(Delta(h)) \in Nat
  BY <1>2, <1>4, <1>5
<1> QED
  BY <1>1, <1>4, <1>5, <1>6, Zenon DEF p

Lengths == [g \in Written |-> WordLength(Delta(g))]

LEMMA EndOfTotals ==
  ASSUME InputsInv, NEW f, IsTotal(f, Lengths, Written), NEW h
  PROVE  EndOf(h) = f[{g \in Written : g <= h}]
<1> DEFINE S == {g \in Written : g <= h}
           Iter(i) == i = [s \in SUBSET S |->
             IF s = {} THEN 0
             ELSE ((Picked(s) - Before(Picked(s))) \div 2^div + 1 + div) + i[s \ {Picked(s)}]]
           iter == CHOOSE i : Iter(i)
<1>1. EndOf(h) = iter[S]
  BY DEF EndOf, FE!MapThenSumSet, FE!MapThenFoldSet, Picked
<1>2. ASSUME NEW i PROVE IsTotal(i, Lengths, S) <=> Iter(i)
  <2>1. ASSUME NEW s \in SUBSET S
        PROVE  Step(i, Lengths, s) =
                 IF s = {} THEN 0
                 ELSE ((Picked(s) - Before(Picked(s))) \div 2^div + 1 + div) + i[s \ {Picked(s)}]
    <3>1. CASE s = {}
      BY <3>1 DEF Step
    <3>2. CASE s # {}
      <4>1. Picked(s) \in Written
        BY <3>2 DEF Picked
      <4>2. Lengths[Picked(s)] = (Picked(s) - Before(Picked(s))) \div 2^div + 1 + div
        BY <4>1 DEF Lengths, WordLength, Delta
      <4> QED
        BY <3>2, <4>2, Zenon DEF Step
    <3> QED
      BY <3>1, <3>2
  <2>2. [s \in SUBSET S |-> Step(i, Lengths, s)] = [s \in SUBSET S |->
           IF s = {} THEN 0
           ELSE ((Picked(s) - Before(Picked(s))) \div 2^div + 1 + div) + i[s \ {Picked(s)}]]
    <3> HIDE DEF S
    <3> QED
      BY <2>1, Zenon
  <2> QED
    BY <2>2, Zenon DEF IsTotal
<1>3. S \in SUBSET Written /\ IsFiniteSet(Written) /\ IsFiniteSet(S)
  BY WrittenFinite, FS_Subset
<1> HIDE DEF S, Iter
<1>4. IsTotal(iter, Lengths, S)
  <2>1. \E i : Iter(i)
    BY <1>2, <1>3, TotalExists
  <2>2. Iter(iter)
    BY <2>1, Zenon
  <2> HIDE DEF iter
  <2> QED
    BY <1>2, <2>2
<1> HIDE DEF iter
<1>5. iter[S] = f[S]
  BY <1>3, <1>4, TotalSame DEF Within
<1> QED
  BY <1>1, <1>5 DEF S

\* What EndOf says: a word ends its length after the one before it does.
LEMMA Words ==
  ASSUME InputsInv, NEW h \in Written
  PROVE  /\ EndOf(h) \in Nat /\ Start(h) \in Nat
         /\ Before(h) \in Written /\ Before(h) < h => Start(h) = EndOf(Before(h))
         /\ (\A g \in Written : ~ (g < h)) => Start(h) = 0 /\ Before(h) = 0
<1> DEFINE UpTo(g) == {e \in Written : e <= g}
<1>1. Written \in SUBSET Nat /\ IsFiniteSet(Written)
  BY WrittenFinite
<1>2. \A g \in Written : Lengths[g] \in Nat /\ Lengths[g] = WordLength(Delta(g))
  BY <1>1, DeltaIs DEF Lengths
<1>3. PICK f : IsTotal(f, Lengths, Written)
  BY <1>1, TotalExists
<1>4. \A g : EndOf(g) = f[UpTo(g)]
  BY <1>3, EndOfTotals
<1> DEFINE s == {e \in Written : e < h}
<1>5. s \in SUBSET Written /\ UpTo(h) = s \cup {h} /\ h \in Written \ s
  <2>1. \A e \in Written : e <= h <=> e < h \/ e = h
    BY <1>1
  <2>2. \A e : e \in UpTo(h) <=> e \in s \cup {h}
    BY <2>1
  <2>3. ~ (h < h)
    BY <1>1
  <2> QED
    BY <2>2, <2>3
<1>6. \A t \in SUBSET Written :
         f[t] \in Nat /\ \A x \in Written \ t : f[t \cup {x}] = f[t] + Lengths[x]
  <2>1. Weighs(Lengths, Written)
    BY <1>2 DEF Weighs
  <2>2. AddsUp(f, Lengths, Written)
    BY <1>1, <1>3, <2>1, TotalAdds
  <2> QED
    BY <2>2 DEF AddsUp
<1>7. f[s] \in Nat /\ EndOf(h) = f[s] + WordLength(Delta(h))
  <2>1. EndOf(h) = f[s \cup {h}]
    BY <1>4, <1>5
  <2> HIDE DEF s
  <2> QED
    BY <1>2, <1>5, <1>6, <2>1
<1>8. WordLength(Delta(h)) \in Nat
  BY <1>1, DeltaIs
<1>9. Start(h) = f[s] /\ EndOf(h) \in Nat
  BY <1>7, <1>8 DEF Start
<1>10. ASSUME Before(h) \in Written, Before(h) < h PROVE Start(h) = EndOf(Before(h))
  <2>1. UpTo(Before(h)) = s
    <3>1. Before(h) \in Nat /\ \A g \in Written : g < h => g <= Before(h)
      BY <1>1, BeforeIs
    <3>2. \A e \in Written : e <= Before(h) <=> e < h
      BY <1>1, <1>10, <3>1
    <3> QED
      BY <3>2
  <2> QED
    BY <1>4, <1>9, <2>1
<1>11. ASSUME \A g \in Written : ~ (g < h) PROVE Start(h) = 0 /\ Before(h) = 0
  <2>1. s = {}
    BY <1>11
  <2>2. f[{}] = 0
    BY <1>3, TotalEmpty
  <2>3. Before(h) = 0
    <3>1. Before(h) \notin Written \/ ~ (Before(h) < h)
      BY <1>11
    <3>2. {0} \cup {g \in Written : g < h} = {0}
      BY <1>11
    <3>3. Before(h) = FE!Max({0})
      BY <3>2, Zenon DEF Before
    <3>4. FE!Max({0}) \in {0}
      BY Greatest
    <3> QED
      BY <3>3, <3>4
  <2> QED
    BY <1>9, <2>1, <2>2, <2>3, Zenon
<1> QED
  BY <1>7, <1>9, <1>10, <1>11

LEMMA WordIs ==
  ASSUME InputsInv, NEW h \in Written
  PROVE  /\ h \in Nat /\ Start(h) \in Nat /\ One(h) \in Nat /\ EndOf(h) \in Nat
         /\ Start(h) <= One(h) /\ One(h) = Start(h) + Delta(h) \div 2^div
         /\ EndOf(h) = One(h) + 1 + div /\ div \in Nat
<1>1. h \in Nat /\ div \in Nat
  BY WrittenFinite DEF InputsInv
<1>2. EndOf(h) \in Nat /\ Start(h) \in Nat
  BY Words
<1> DEFINE q == Delta(h) \div 2^div
<1>3. q \in Nat /\ WordLength(Delta(h)) = q + 1 + div
  BY <1>1, DeltaIs
<1>4. Start(h) = EndOf(h) - WordLength(Delta(h)) /\ One(h) = Start(h) + q
  BY DEF Start, One
<1> HIDE DEF q
<1>5. One(h) \in Nat /\ Start(h) <= One(h) /\ EndOf(h) = One(h) + 1 + div
  BY <1>1, <1>2, <1>3, <1>4
<1> QED
  BY <1>1, <1>2, <1>4, <1>5 DEF q

LEMMA BeforeWritten ==
  ASSUME InputsInv, NEW h \in Nat, NEW g \in Written, g < h
  PROVE  Before(h) \in Written /\ Before(h) < h /\ g <= Before(h)
<1>1. g \in Nat
  BY WrittenFinite
<1>2. /\ Before(h) \in Nat /\ (Before(h) \in Written \/ Before(h) = 0)
      /\ g <= Before(h) /\ Before(h) < h
  BY BeforeIs
<1> QED
  BY <1>1, <1>2

LEMMA WordsInOrder ==
  ASSUME InputsInv, NEW g \in Written, NEW h \in Written, g < h
  PROVE  EndOf(g) <= Start(h)
<1> DEFINE Failing == {e \in Written : g < e /\ ~ (EndOf(g) <= Start(e))}
<1>1. ASSUME Failing # {} PROVE FALSE
  <2>1. PICK m \in Failing : \A i \in Failing : m <= i
    <3>1. Failing \in SUBSET Nat
      BY WrittenFinite
    <3> HIDE DEF Failing
    <3> QED
      BY <1>1, <3>1, LeastElement
  <2>2. m \in Written /\ g < m /\ ~ (EndOf(g) <= Start(m))
    BY <2>1
  <2>3. Before(m) \in Written /\ Before(m) < m /\ g <= Before(m)
    BY <2>2, WrittenFinite, BeforeWritten
  <2>4. Start(m) = EndOf(Before(m))
    BY <2>2, <2>3, Words
  <2>5. EndOf(g) \in Nat /\ m \in Nat /\ g \in Nat
    BY <2>2, WordIs
  <2> DEFINE b == Before(m)
  <2>6. /\ b \in Nat /\ Start(b) \in Nat /\ EndOf(b) \in Nat /\ Start(b) <= EndOf(b)
    <3>1. /\ b \in Nat /\ Start(b) \in Nat /\ EndOf(b) \in Nat /\ One(b) \in Nat /\ div \in Nat
          /\ Start(b) <= One(b) /\ EndOf(b) = One(b) + 1 + div
      BY <2>3, WordIs
    <3> QED
      BY <3>1
  <2>7. CASE b = g
    BY <2>2, <2>4, <2>5, <2>7
  <2>8. CASE b # g
    <3>1. b \notin Failing /\ g < b
      BY <2>1, <2>3, <2>5, <2>6, <2>8
    <3>2. EndOf(g) <= Start(b)
      BY <2>3, <3>1
    <3> QED
      BY <2>2, <2>4, <2>5, <2>6, <3>2
  <2> QED
    BY <2>7, <2>8
<1> QED
  BY <1>1

\* Bit p of the string is a one of the word of h.
WordBit(h, p) ==
  p = One(h) \/ (One(h) < p /\ p < EndOf(h) /\ BitOf(Rest(h), p - One(h) - 1))

SetBit(p) == \E h \in Written : WordBit(h, p)

LEMMA WordBitInside ==
  ASSUME InputsInv, NEW h \in Written, NEW p \in Int, WordBit(h, p)
  PROVE  Start(h) <= One(h) /\ One(h) <= p /\ p < EndOf(h)
BY WordIs DEF WordBit

\* A bit of the string inside a word is that word's.
LEMMA OwnBits ==
  ASSUME InputsInv, NEW h \in Written, NEW p \in Nat, Start(h) <= p, p < EndOf(h)
  PROVE  SetBit(p) <=> WordBit(h, p)
<1>1. ASSUME NEW g \in Written, WordBit(g, p) PROVE g = h
  <2>1. Start(g) <= p /\ p < EndOf(g) /\ g \in Nat /\ Start(g) \in Nat /\ EndOf(g) \in Nat
    BY <1>1, WordBitInside, WordIs
  <2>2. h \in Nat /\ Start(h) \in Nat /\ EndOf(h) \in Nat
    BY WordIs
  <2>3. ~ (g < h)
    <3> SUFFICES ASSUME g < h PROVE FALSE
      OBVIOUS
    <3>1. EndOf(g) <= Start(h)
      BY WordsInOrder
    <3> QED
      BY <2>1, <2>2, <3>1
  <2>4. ~ (h < g)
    <3> SUFFICES ASSUME h < g PROVE FALSE
      OBVIOUS
    <3>1. EndOf(h) <= Start(g)
      BY WordsInOrder
    <3> QED
      BY <2>1, <2>2, <3>1
  <2> QED
    BY <2>1, <2>2, <2>3, <2>4
<1> QED
  BY <1>1 DEF SetBit

\* What is made of the inputs alone stays as it is.
LEMMA KeptInputs ==
  ASSUME UNCHANGED inputs
  PROVE  /\ Written' = Written
         /\ div' = div /\ serverHashes' = serverHashes /\ serverSize' = serverSize
         /\ clientHashes' = clientHashes /\ clientSize' = clientSize
BY DEF inputs, Written

LEMMA KeptInputsInv ==
  ASSUME InputsInv, UNCHANGED inputs
  PROVE  InputsInv'
BY DEF InputsInv, Ascending, inputs

LEMMA KeptWords ==
  ASSUME UNCHANGED inputs, NEW h
  PROVE  /\ Before(h)' = Before(h) /\ Delta(h)' = Delta(h) /\ EndOf(h)' = EndOf(h)
         /\ Start(h)' = Start(h) /\ One(h)' = One(h) /\ Rest(h)' = Rest(h)
<1>1. UNCHANGED <<div, serverHashes, serverSize>>
  BY DEF inputs
<1>2. Before(h)' = Before(h)
  BY <1>1 DEF EndOf, Before, Written, FE!Max, FE!MapThenSumSet, FE!MapThenFoldSet
<1>3. EndOf(h)' = EndOf(h)
  BY <1>1 DEF EndOf, Before, Written, FE!Max, FE!MapThenSumSet, FE!MapThenFoldSet
<1>4. Delta(h)' = Delta(h)
  BY <1>2 DEF Delta
<1>5. Start(h)' = Start(h)
  BY <1>1, <1>3, <1>4, Zenon DEF Start, WordLength
<1>6. One(h)' = One(h)
  BY <1>1, <1>4, <1>5, Zenon DEF One
<1>7. Rest(h)' = Rest(h)
  BY <1>1, <1>4, Zenon DEF Rest
<1> QED
  BY <1>2, <1>3, <1>4, <1>5, <1>6, <1>7

LEMMA KeptWordBits ==
  ASSUME UNCHANGED inputs, NEW h, NEW p
  PROVE  WordBit(h, p)' <=> WordBit(h, p)
<1>1. EndOf(h)' = EndOf(h) /\ One(h)' = One(h) /\ Rest(h)' = Rest(h)
  BY KeptWords
<1> QED
  BY <1>1, Zenon DEF WordBit, BitOf

LEMMA KeptBits ==
  ASSUME UNCHANGED inputs, NEW p
  PROVE  SetBit(p)' <=> SetBit(p)
<1>1. Written' = Written
  BY KeptInputs
<1>2. \A h : WordBit(h, p)' <=> WordBit(h, p)
  BY KeptWordBits
<1> QED
  BY <1>1, <1>2, Zenon DEF SetBit

-----------------------------------------------------------------------------
(***************************************************************************)
(* Positions of bits in the string.                                        *)
(***************************************************************************)
LEMMA PosIs ==
  ASSUME NEW k \in Nat, NEW b \in Nat
  PROVE  Pos(k, b) \in Nat /\ Pos(k + 1, 0) = Pos(k, 0) + CharSize /\ Pos(k, b) = Pos(k, 0) + b
<1>1. CharSize \in Nat \ {0}
  BY CharSizeAssumption
<1>2. k * CharSize \in Nat /\ (k + 1) * CharSize = k * CharSize + CharSize
  BY <1>1, SMT
<1> DEFINE m == k * CharSize
           o == (k + 1) * CharSize
<1>3. Pos(k, b) = m + b /\ Pos(k, 0) = m + 0 /\ Pos(k + 1, 0) = o + 0
  BY Zenon DEF Pos
<1>4. m \in Nat /\ o = m + CharSize
  BY <1>2
<1> HIDE DEF m, o
<1> QED
  BY <1>1, <1>3, <1>4

LEMMA PosGrows ==
  ASSUME NEW k \in Nat, NEW l \in Nat, k <= l
  PROVE  Pos(k, 0) <= Pos(l, 0)
<1>1. CharSize \in Nat \ {0}
  BY CharSizeAssumption
<1>2. k * CharSize <= l * CharSize /\ k * CharSize \in Nat /\ l * CharSize \in Nat
  BY <1>1, SMT
<1> DEFINE m == k * CharSize
           o == l * CharSize
<1>3. Pos(k, 0) = m + 0 /\ Pos(l, 0) = o + 0
  BY Zenon DEF Pos
<1>4. m <= o /\ m \in Nat /\ o \in Nat
  BY <1>2
<1> HIDE DEF m, o
<1> QED
  BY <1>3, <1>4

LEMMA PosOrder ==
  ASSUME NEW k \in Nat, NEW l \in Nat, NEW b \in Bit, NEW c \in Bit
  PROVE  /\ k < l => Pos(k, b) < Pos(l, c)
         /\ Pos(k, b) < Pos(l, c) => k < l \/ (k = l /\ b < c)
         /\ Pos(k, b) = Pos(l, c) => k = l /\ b = c
         /\ Pos(k, b) < Pos(l, 0) <=> k < l
<1>1. CharSize \in Nat \ {0} /\ b \in Nat /\ c \in Nat /\ b < CharSize /\ c < CharSize
  BY CharSizeAssumption DEF Bit
<1>2. /\ Pos(k, b) = Pos(k, 0) + b /\ Pos(l, c) = Pos(l, 0) + c
      /\ Pos(k, 0) \in Nat /\ Pos(l, 0) \in Nat
      /\ Pos(k + 1, 0) = Pos(k, 0) + CharSize /\ Pos(l + 1, 0) = Pos(l, 0) + CharSize
  BY <1>1, PosIs
<1>3. k < l => Pos(k, 0) + CharSize <= Pos(l, 0)
  <2>1. k < l => Pos(k + 1, 0) <= Pos(l, 0)
    BY PosGrows
  <2> QED
    BY <1>2, <2>1
<1>4. l < k => Pos(l, 0) + CharSize <= Pos(k, 0)
  <2>1. l < k => Pos(l + 1, 0) <= Pos(k, 0)
    BY PosGrows
  <2> QED
    BY <1>2, <2>1
<1>5. k = l => Pos(k, 0) = Pos(l, 0)
  OBVIOUS
<1> QED
  BY <1>1, <1>2, <1>3, <1>4, <1>5

LEMMA PosOf ==
  ASSUME NEW p \in Nat
  PROVE  /\ p \div CharSize \in Nat /\ p % CharSize \in Bit
         /\ Pos(p \div CharSize, p % CharSize) = p
<1>1. CharSize \in Nat \ {0}
  BY CharSizeAssumption
<1> DEFINE q == p \div CharSize
           r == p % CharSize
<1>2. q \in Nat /\ r \in 0 .. CharSize - 1 /\ p = CharSize * q + r
  BY <1>1, Division
<1> HIDE DEF q, r
<1>3. CharSize * q = q * CharSize
  BY <1>1, <1>2, SMT
<1>4. Pos(q, r) = p
  BY <1>2, <1>3 DEF Pos
<1> QED
  BY <1>2, <1>4, Zenon DEF q, r, Bit

LEMMA ByteOf ==
  ASSUME NEW k \in Nat, NEW b \in Bit
  PROVE  Pos(k, b) \div CharSize = k /\ Pos(k, b) % CharSize = b
<1>1. Pos(k, b) \in Nat
  <2>1. b \in Nat
    BY CharSizeAssumption DEF Bit
  <2> QED
    BY <2>1, PosIs
<1> DEFINE p == Pos(k, b)
           q == p \div CharSize
           r == p % CharSize
<1>2. q \in Nat /\ r \in Bit /\ Pos(q, r) = Pos(k, b)
  BY <1>1, PosOf
<1> HIDE DEF q, r
<1>3. q = k /\ r = b
  BY <1>2, PosOrder
<1> QED
  BY <1>3 DEF q, r

\* Enough bytes for r bits, and no more than that takes.
LEMMA Enough ==
  ASSUME NEW r \in Nat
  PROVE  /\ DivCeil(r, CharSize) \in Nat
         /\ r <= Pos(DivCeil(r, CharSize), 0)
         /\ Pos(DivCeil(r, CharSize), 0) <= r + CharSize - 1
         /\ DivCeil(r, CharSize) = 0 <=> r = 0
<1>1. CharSize \in Nat \ {0}
  BY CharSizeAssumption
<1> DEFINE a == r + CharSize - 1
<1>2. a \in Nat
  BY <1>1
<1> HIDE DEF a
<1> DEFINE n == a \div CharSize
           c == a % CharSize
<1>3. n \in Nat /\ c \in Bit /\ Pos(n, c) = a
  BY <1>2, PosOf
<1>4. DivCeil(r, CharSize) = n
  BY DEF DivCeil, a
<1> HIDE DEF n, c
<1>5. Pos(n, c) = Pos(n, 0) + c /\ Pos(n, 0) \in Nat
  BY <1>3, PosIs DEF Bit
<1>6. r <= Pos(n, 0) /\ Pos(n, 0) <= r + CharSize - 1
  BY <1>1, <1>3, <1>5 DEF a, Bit
<1>7. n = 0 <=> r = 0
  <2>1. Pos(0, 0) = 0
    BY <1>1 DEF Pos
  <2>2. 0 \in Nat /\ 1 \in Nat /\ Pos(0 + 1, 0) = Pos(0, 0) + CharSize
    BY PosIs
  <2>3. Pos(1, 0) = CharSize
    BY <1>1, <2>1, <2>2
  <2>4. n # 0 => CharSize <= Pos(n, 0)
    BY <1>3, <2>2, <2>3, PosGrows
  <2>5. n = 0 => Pos(n, 0) = 0
    BY <2>1
  <2> QED
    BY <1>1, <1>3, <1>5, <1>6, <2>4, <2>5
<1> QED
  BY <1>3, <1>4, <1>6, <1>7

-----------------------------------------------------------------------------
\* The value of the bits in s, from bit i on.
PowerSum(i, s) == FE!MapThenSumSet(LAMBDA b : 2^(i + b), s)

LEMMA PowerSumTotals ==
  ASSUME NEW i \in Nat, NEW n \in Nat,
         NEW f, IsTotal(f, [b \in 0 .. n - 1 |-> 2^(i + b)], 0 .. n - 1),
         NEW S, S \subseteq 0 .. n - 1
  PROVE  PowerSum(i, S) = f[S]
<1> DEFINE w == [b \in 0 .. n - 1 |-> 2^(i + b)]
           Iter(g) == g = [s \in SUBSET S |->
             IF s = {} THEN 0 ELSE 2^(i + Picked(s)) + g[s \ {Picked(s)}]]
           iter == CHOOSE g : Iter(g)
<1>1. PowerSum(i, S) = iter[S]
  BY DEF PowerSum, FE!MapThenSumSet, FE!MapThenFoldSet, Picked
<1>2. ASSUME NEW g PROVE IsTotal(g, w, S) <=> Iter(g)
  <2>1. ASSUME NEW s \in SUBSET S
        PROVE  Step(g, w, s) = IF s = {} THEN 0 ELSE 2^(i + Picked(s)) + g[s \ {Picked(s)}]
    <3>1. CASE s = {}
      BY <3>1 DEF Step
    <3>2. CASE s # {}
      <4>1. Picked(s) \in 0 .. n - 1
        BY <3>2 DEF Picked
      <4>2. w[Picked(s)] = 2^(i + Picked(s))
        BY <4>1
      <4> HIDE DEF w
      <4> QED
        BY <3>2, <4>2, Zenon DEF Step
    <3> QED
      BY <3>1, <3>2
  <2> HIDE DEF w
  <2>2. [s \in SUBSET S |-> Step(g, w, s)] = [s \in SUBSET S |->
           IF s = {} THEN 0 ELSE 2^(i + Picked(s)) + g[s \ {Picked(s)}]]
    BY <2>1, Zenon
  <2> QED
    BY <2>2, Zenon DEF IsTotal
<1>3. IsFiniteSet(0 .. n - 1) /\ IsFiniteSet(S)
  <2>1. 0 \in Int /\ n - 1 \in Int
    OBVIOUS
  <2> QED
    BY <2>1, FS_Interval, FS_Subset
<1>4. IsTotal(f, w, 0 .. n - 1)
  OBVIOUS
<1> HIDE DEF w, Iter
<1>5. IsTotal(iter, w, S)
  <2>1. \E g : Iter(g)
    BY <1>2, <1>3, TotalExists
  <2>2. Iter(iter)
    BY <2>1, Zenon
  <2> HIDE DEF iter
  <2> QED
    BY <1>2, <2>2
<1> HIDE DEF iter
<1>6. iter[S] = f[S]
  <2> DEFINE T == 0 .. n - 1
  <2>1. Within(S, T) /\ IsFiniteSet(T) /\ IsTotal(f, w, T)
    BY <1>3, <1>4 DEF Within
  <2> HIDE DEF T
  <2> QED
    BY <1>5, <2>1, TotalSame
<1> QED
  BY <1>1, <1>6

\* n more bits of x, from its bit i on.
LEMMA MoreBits ==
  ASSUME NEW x \in Nat, NEW i \in Nat, NEW n \in Nat
  PROVE  (x % 2^i) + PowerSum(i, {b \in 0 .. n - 1 : BitOf(x, i + b)}) = x % 2^(i + n)
<1> DEFINE w == [b \in 0 .. n - 1 |-> 2^(i + b)]
           Ones(k) == {b \in 0 .. k - 1 : BitOf(x, i + b)}
<1>1. IsFiniteSet(0 .. n - 1)
  <2>1. 0 \in Int /\ n - 1 \in Int
    OBVIOUS
  <2> QED
    BY <2>1, FS_Interval
<1>2. PICK f : IsTotal(f, w, 0 .. n - 1)
  <2> HIDE DEF w
  <2> QED
    BY <1>1, TotalExists
<1>3. PowerSum(i, Ones(n)) = f[Ones(n)]
  BY <1>2, PowerSumTotals
<1>4. \A b \in 0 .. n - 1 : w[b] = 2^(i + b) /\ w[b] \in Nat
  <2>1. ASSUME NEW b \in 0 .. n - 1 PROVE 2^(i + b) \in Nat
    <3>1. i + b \in Nat
      OBVIOUS
    <3> QED
      BY <3>1, Power
  <2> QED
    BY <2>1
<1> HIDE DEF w
<1>5. AddsUp(f, w, 0 .. n - 1)
  BY <1>1, <1>2, <1>4, TotalAdds DEF Weighs
<1> DEFINE Failing == {k \in 0 .. n : (x % 2^i) + f[Ones(k)] # x % 2^(i + k)}
<1>6. x % 2^i \in Nat
  BY Power, Division
<1>7. ASSUME Failing # {} PROVE FALSE
  <2>1. PICK m \in Failing : \A k \in Failing : m <= k
    <3>1. Failing \in SUBSET Nat
      OBVIOUS
    <3> HIDE DEF Failing
    <3> QED
      BY <1>7, <3>1, LeastElement
  <2>2. m \in 0 .. n /\ (x % 2^i) + f[Ones(m)] # x % 2^(i + m)
    BY <2>1
  <2>3. CASE m = 0
    <3>1. Ones(0) = {} /\ i + 0 = i
      OBVIOUS
    <3>2. f[{}] = 0
      BY <1>2, TotalEmpty
    <3>3. (x % 2^i) + f[Ones(m)] = (x % 2^i) + 0 /\ x % 2^(i + m) = x % 2^i
      BY <2>3, <3>1, <3>2, Zenon
    <3> QED
      BY <1>6, <2>2, <3>3
  <2>4. CASE m # 0
    <3> DEFINE l == m - 1
    <3>1. l \in 0 .. n /\ l \in 0 .. n - 1 /\ m = l + 1 /\ ~ (m <= l) /\ i + l \in Nat
      BY <2>2, <2>4
    <3>2. (x % 2^i) + f[Ones(l)] = x % 2^(i + l)
      <4>1. l \notin Failing
        BY <2>1, <3>1
      <4> QED
        BY <3>1, <4>1
    <3> HIDE DEF l
    <3>3. x % 2^(i + l + 1) = (x % 2^(i + l)) + (IF BitOf(x, i + l) THEN 2^(i + l) ELSE 0)
      BY <3>1, OneMoreBit
    <3>4. x % 2^(i + m) = x % 2^(i + l + 1)
      <4>1. i + m = i + l + 1
        BY <3>1
      <4> QED
        BY <4>1, Zenon
    <3>5. Ones(l) \in SUBSET (0 .. n - 1) /\ l \notin Ones(l)
      BY <3>1
    <3>6. f[Ones(l)] \in Nat /\ f[Ones(l) \cup {l}] = f[Ones(l)] + 2^(i + l)
      <4> HIDE DEF Ones
      <4>1. f[Ones(l)] \in Nat /\ f[Ones(l) \cup {l}] = f[Ones(l)] + w[l]
        BY <1>5, <3>1, <3>5 DEF AddsUp
      <4> QED
        BY <1>4, <3>1, <4>1
    <3>7. CASE BitOf(x, i + l)
      <4>1. Ones(m) = Ones(l) \cup {l}
        <5>1. \A b : b \in 0 .. m - 1 <=> b \in 0 .. l - 1 \/ b = l
          BY <3>1
        <5> QED
          BY <3>7, <5>1
      <4>2. x % 2^(i + m) = (x % 2^(i + l)) + 2^(i + l)
        BY <3>3, <3>4, <3>7, Zenon
      <4>3. 2^(i + l) \in Nat
        BY <3>1, Power
      <4> HIDE DEF Ones
      <4>4. f[Ones(m)] = f[Ones(l)] + 2^(i + l)
        BY <3>6, <4>1, Zenon
      <4> QED
        BY <1>6, <2>2, <3>2, <3>6, <4>2, <4>3, <4>4
    <3>8. CASE ~ BitOf(x, i + l)
      <4>1. Ones(m) = Ones(l)
        <5>1. \A b : b \in 0 .. m - 1 <=> b \in 0 .. l - 1 \/ b = l
          BY <3>1
        <5> QED
          BY <3>8, <5>1
      <4>2. x % 2^(i + m) = (x % 2^(i + l)) + 0
        BY <3>3, <3>4, <3>8, Zenon
      <4> HIDE DEF Ones
      <4>3. f[Ones(m)] = f[Ones(l)]
        BY <4>1, Zenon
      <4>4. (x % 2^i) + f[Ones(m)] = x % 2^(i + l)
        BY <3>2, <4>3, Zenon
      <4>5. x % 2^(i + l) \in Nat
        BY <1>6, <3>2, <3>6
      <4> QED
        BY <2>2, <4>2, <4>4, <4>5
    <3> QED
      BY <3>7, <3>8
  <2> QED
    BY <2>3, <2>4
<1>8. n \notin Failing
  BY <1>7
<1>9. (x % 2^i) + f[Ones(n)] = x % 2^(i + n)
  BY <1>8
<1> QED
  BY <1>3, <1>9

-----------------------------------------------------------------------------
(***************************************************************************)
(* The inductive invariant.                                                *)
(***************************************************************************)
\* size bytes, of which those bits are one that belong to a word ...
StringOK == size \in Nat /\ (size > 0 => bytes \in [0 .. size - 1 -> SUBSET Bit])

\* ... written so far: one up to prev, of which the last bits may be missing.
WrittenBit(p) ==
  \E h \in Written :
    /\ ~ start /\ h <= prev /\ WordBit(h, p)
    /\ pc = "copy" /\ h = prev => p <= One(h) + binaryIdx

WriteInv ==
  /\ it \in 0 .. serverSize /\ prev \in Nat /\ start \in BOOLEAN /\ resIdx \in Nat
  /\ pc = "copy" => it < serverSize /\ serverHashes[it] = prev /\ ~ start
  /\ start => it = 0 /\ prev = 0 /\ resIdx = 0
  /\ ~ start => prev \in Written /\ resIdx = EndOf(prev)
  /\ \A a \in 0 .. it - 1 : ~ start /\ serverHashes[a] <= prev
  /\ size = DivCeil(resIdx, CharSize) /\ StringOK
  /\ \A k \in 0 .. size - 1, b \in Bit : b \in bytes[k] <=> WrittenBit(Pos(k, b))
  /\ arrIt = 0 /\ offset = 0 /\ quotient = 0 /\ prefixSum = 0

\* The next bit to copy is the bit binaryIdx of the rest.
CopyInv ==
  /\ binaryIdx \in Nat /\ binaryStart \in Bit /\ at \in Nat
  /\ remainder = Rest(prev) /\ Pos(at, binaryStart) = One(prev) + 1 + binaryIdx

\* Every word is in the string.
StringInv ==
  /\ StringOK
  /\ \A k \in 0 .. size - 1, b \in Bit : b \in bytes[k] <=> SetBit(Pos(k, b))
  /\ \A h \in Written : EndOf(h) <= Pos(size, 0)
  /\ it \in Nat /\ offset \in Bit /\ quotient \in Nat /\ prefixSum \in Nat

\* Up to h, no written hash is among the client's that are left.
Past(h) == \A a \in arrIt .. clientSize - 1 : \A g \in Written : g < h => g < clientHashes[a]

\* In unary, the word being read begins at Base: nothing but zeros were read of it.
Base == Pos(it, offset) - quotient

UnaryInv ==
  /\ it <= size
  /\ \/ Base = 0 /\ prefixSum = 0
     \/ /\ prefixSum \in Written /\ Base = EndOf(prefixSum)
        /\ Past(prefixSum + 1)
  /\ \A p \in Base .. Pos(it, offset) - 1 : ~ SetBit(p)

\* binaryIdx bits of the rest of h have been read.
NextBit(h) == One(h) + 1 + binaryIdx

ReadUpTo(h) ==
  /\ prefixSum = Before(h) /\ quotient = Delta(h) \div 2^div
  /\ oneIdx = One(h) % CharSize
  /\ binaryIdx \in 0 .. div /\ binaryStart \in Bit
  /\ remainder = Rest(h) % 2^binaryIdx
  /\ binaryIdx > 0 => binaryStart = 0
  /\ \/ Pos(it, binaryStart) = NextBit(h)
     \/ binaryIdx = div /\ div > 0 /\ Pos(it, 0) < NextBit(h) + CharSize /\ NextBit(h) < Pos(it, 0)
  /\ Past(h)

MatchInv ==
  /\ prefixSum \in Written /\ Pos(it, offset) = EndOf(prefixSum)
  /\ Past(prefixSum)

\* What has been found is what there is to find among the hashes passed.
ResInv ==
  /\ arrIt \in 0 .. clientSize /\ res \in Seq(0 .. clientSize - 1)
  /\ {res[p] : p \in 1 .. Len(res)} = {a \in 0 .. arrIt - 1 : clientHashes[a] \in Written}
  /\ \A p, q \in 1 .. Len(res) : p < q => res[p] < res[q]

GolombInv ==
  /\ InputsInv /\ ResInv
  /\ pc \in {"word", "copy", "unary", "binary", "match", "done"}
  /\ pc \in {"word", "copy"} => WriteInv
  /\ pc = "copy" => CopyInv
  /\ pc \in {"unary", "binary", "match"} => StringInv
  /\ pc = "unary" => UnaryInv
  /\ pc = "binary" => \E h \in Written : ReadUpTo(h)
  /\ pc = "match" => MatchInv
  /\ IntersectionIsExact

-----------------------------------------------------------------------------
LEMMA GolombInitInv == GolombInit => GolombInv
<1> SUFFICES ASSUME GolombInit PROVE GolombInv
  OBVIOUS
<1> USE DEF GolombInit
<1>1. InputsInv
  BY GolombAssumption DEF InputsInv
<1>2. ResInv
  <2>1. Len(res) = 0 /\ res \in Seq(0 .. clientSize - 1)
    OBVIOUS
  <2> QED
    BY <1>1, <2>1 DEF ResInv, InputsInv
<1>3. WriteInv
  <2>1. size = DivCeil(resIdx, CharSize)
    <3>1. DivCeil(0, CharSize) = 0
      BY Enough
    <3> QED
      BY <3>1
  <2>2. StringOK
    BY DEF StringOK
  <2> QED
    BY <1>1, <2>1, <2>2 DEF WriteInv, InputsInv
<1> QED
  BY <1>1, <1>2, <1>3 DEF GolombInv, IntersectionIsExact

LEMMA ResKept ==
  ASSUME ResInv, UNCHANGED <<inputs, arrIt, res>>
  PROVE  ResInv'
<1>1. UNCHANGED inputs /\ arrIt' = arrIt /\ res' = res
  OBVIOUS
<1>2. Written' = Written /\ clientHashes' = clientHashes /\ clientSize' = clientSize
  BY <1>1, KeptInputs
<1> QED
  BY <1>1, <1>2 DEF ResInv

\* What a compressing step keeps, and what it has to show.
LEMMA Writing ==
  ASSUME GolombInv, UNCHANGED <<inputs, matching>>, pc \in {"word", "copy"},
         pc' \in {"word", "copy"}, WriteInv', pc' = "copy" => CopyInv'
  PROVE  GolombInv'
<1>1. InputsInv' /\ ResInv'
  <2>1. InputsInv /\ ResInv /\ UNCHANGED inputs /\ UNCHANGED <<inputs, arrIt, res>>
    BY DEF GolombInv, matching
  <2> QED
    BY <2>1, KeptInputsInv, ResKept
<1> QED
  BY <1>1 DEF GolombInv, IntersectionIsExact

\* The hashes before the one at it are the smaller ones.
LEMMA HashesBefore ==
  ASSUME InputsInv, NEW a \in 0 .. serverSize - 1
  PROVE  /\ serverHashes[a] \in Written /\ serverHashes[a] \in Nat
         /\ \A b \in 0 .. serverSize - 1 :
              /\ b <= a => serverHashes[b] <= serverHashes[a]
              /\ serverHashes[b] < serverHashes[a] => b < a
<1>1. serverHashes[a] \in Written /\ serverHashes[a] \in Nat
  BY WrittenFinite DEF Written
<1>2. \A b \in 0 .. serverSize - 1 : serverHashes[b] \in Nat
  BY WrittenFinite DEF Written
<1>3. \A b, c \in 0 .. serverSize - 1 : b < c => serverHashes[b] <= serverHashes[c]
  BY DEF InputsInv, Ascending
<1>4. serverSize \in Nat
  BY DEF InputsInv
<1> QED
  BY <1>1, <1>2, <1>3, <1>4

LEMMA SkipRepeatInv ==
  ASSUME GolombInv, SkipRepeat
  PROVE  GolombInv'
<1>1. UNCHANGED inputs /\ UNCHANGED matching /\ UNCHANGED <<bytes, size, prev, start, resIdx, pc>>
      /\ UNCHANGED copying /\ it' = it + 1 /\ pc = "word" /\ it < serverSize /\ ~ start
      /\ ~ (serverHashes[it] > prev)
  BY DEF SkipRepeat, IsNew
<1>2. WriteInv /\ InputsInv
  BY <1>1 DEF GolombInv
<1>3. \A p : WrittenBit(p)' <=> WrittenBit(p)
  <2>1. \A h, p : One(h)' = One(h) /\ (WordBit(h, p)' <=> WordBit(h, p))
    BY <1>1, KeptWords, KeptWordBits
  <2>2. Written' = Written /\ binaryIdx' = binaryIdx
    BY <1>1, KeptInputs DEF copying
  <2> QED
    BY <1>1, <2>1, <2>2, Zenon DEF WrittenBit
<1>4. \A a \in 0 .. it : ~ start /\ serverHashes[a] <= prev
  <2>1. serverHashes[it] \in Nat
    <3>1. it \in 0 .. serverSize - 1
      BY <1>1, <1>2 DEF WriteInv, InputsInv
    <3> QED
      BY <1>2, <3>1, HashesBefore
  <2> QED
    BY <1>1, <1>2, <2>1 DEF WriteInv
<1>5. WriteInv'
  <2>1. /\ it' \in 0 .. serverSize' /\ prev' \in Nat /\ start' \in BOOLEAN /\ resIdx' \in Nat
        /\ pc' # "copy" /\ ~ start'
    BY <1>1, <1>2, KeptInputs DEF WriteInv, InputsInv
  <2>2. prev' \in Written' /\ resIdx' = EndOf(prev)'
    <3>1. prev \in Written /\ resIdx = EndOf(prev)
      BY <1>1, <1>2 DEF WriteInv
    <3>2. EndOf(prev)' = EndOf(prev)
      <4>1. \A h : EndOf(h)' = EndOf(h)
        BY <1>1, KeptWords
      <4> QED
        BY <1>1, <4>1
    <3> QED
      BY <1>1, <3>1, <3>2, KeptInputs
  <2>3. \A a \in 0 .. it' - 1 : ~ start' /\ serverHashes'[a] <= prev'
    BY <1>1, <1>2, <1>4, KeptInputs DEF WriteInv
  <2>4. size' = DivCeil(resIdx, CharSize)' /\ StringOK'
    BY <1>1, <1>2 DEF WriteInv, DivCeil, StringOK, Bit
  <2>5. \A k \in 0 .. size' - 1, b \in Bit : b \in bytes'[k] <=> WrittenBit(Pos(k, b))'
    <3>1. \A k \in 0 .. size - 1, b \in Bit : b \in bytes[k] <=> WrittenBit(Pos(k, b))
      BY <1>2 DEF WriteInv
    <3> QED
      BY <1>1, <1>3, <3>1 DEF Pos
  <2>6. arrIt' = 0 /\ offset' = 0 /\ quotient' = 0 /\ prefixSum' = 0
    BY <1>1, <1>2 DEF WriteInv, matching
  <2> QED
    BY <2>1, <2>2, <2>3, <2>4, <2>5, <2>6 DEF WriteInv
<1> QED
  BY <1>1, <1>5, Writing

-----------------------------------------------------------------------------
(***************************************************************************)
(* golomb_compress.                                                        *)
(***************************************************************************)
\* The words up to h end where h's does.
LEMMA EndsInOrder ==
  ASSUME InputsInv, NEW g \in Written, NEW h \in Written, g <= h
  PROVE  EndOf(g) <= EndOf(h)
<1>1. /\ g \in Nat /\ h \in Nat /\ EndOf(g) \in Nat /\ EndOf(h) \in Nat /\ One(h) \in Nat
      /\ Start(h) \in Nat /\ Start(h) <= One(h) /\ EndOf(h) = One(h) + 1 + div /\ div \in Nat
  BY WordIs
<1>2. g < h => EndOf(g) <= Start(h)
  BY WordsInOrder
<1> QED
  BY <1>1, <1>2

\* A new hash follows prev: its word begins where prev's ends.
LEMMA NewFollows ==
  ASSUME InputsInv, WriteInv, pc = "word", it < serverSize, IsNew, NEW h, h = serverHashes[it]
  PROVE  /\ h \in Written /\ it \in 0 .. serverSize - 1
         /\ prev = Before(h) /\ resIdx = Start(h)
         /\ \A g \in Written : g < h <=> ~ start /\ g <= prev
<1>1. it \in 0 .. serverSize - 1
  BY DEF WriteInv, InputsInv
<1>2. /\ h \in Written /\ h \in Nat
      /\ \A b \in 0 .. serverSize - 1 : serverHashes[b] < h => b < it
  BY <1>1, HashesBefore
<1>3. \A g \in Written : g \in Nat /\ (g < h => ~ start /\ g <= prev)
  <2>1. \A g \in Written : g < h => ~ start /\ g <= prev
    <3> SUFFICES ASSUME NEW g \in Written, g < h PROVE ~ start /\ g <= prev
      OBVIOUS
    <3>1. PICK a \in 0 .. serverSize - 1 : g = serverHashes[a]
      BY DEF Written
    <3>2. a \in 0 .. it - 1
      BY <1>1, <1>2, <3>1
    <3> QED
      BY <3>1, <3>2 DEF WriteInv
  <2> QED
    BY <2>1, WrittenFinite
<1>4. CASE start
  <2>1. prev = 0 /\ resIdx = 0
    BY <1>4 DEF WriteInv
  <2>2. \A g \in Written : ~ (g < h)
    BY <1>3, <1>4
  <2>3. Start(h) = 0 /\ Before(h) = 0
    BY <1>2, <2>2, Words
  <2> QED
    BY <1>1, <1>2, <1>4, <2>1, <2>2, <2>3
<1>5. CASE ~ start
  <2>1. prev \in Written /\ resIdx = EndOf(prev) /\ prev \in Nat /\ prev < h
    BY <1>2, <1>3, <1>5 DEF WriteInv, IsNew
  <2>2. Before(h) \in Written /\ Before(h) < h /\ prev <= Before(h)
    BY <1>2, <2>1, BeforeWritten
  <2>3. Before(h) <= prev /\ Before(h) \in Nat
    BY <1>3, <2>2
  <2>4. prev = Before(h)
    BY <2>1, <2>2, <2>3
  <2>5. Start(h) = EndOf(Before(h))
    BY <1>2, <2>2, Words
  <2>6. \A g \in Written : g <= prev => g < h
    BY <1>2, <1>3, <2>1
  <2> QED
    BY <1>1, <1>2, <1>3, <1>5, <2>1, <2>4, <2>5, <2>6
<1>6. start \in BOOLEAN
  BY DEF WriteInv
<1> QED
  BY <1>4, <1>5, <1>6

LEMMA WriteUnaryInv ==
  ASSUME GolombInv, WriteUnary
  PROVE  GolombInv'
<1> DEFINE h == serverHashes[it]
           n == DivCeil(resIdx + WordLength(h - prev), CharSize)
           u == resIdx + (h - prev) \div 2^div
<1>1. /\ pc = "word" /\ it < serverSize /\ IsNew /\ pc' = "copy"
      /\ UNCHANGED inputs /\ UNCHANGED matching /\ it' = it /\ prev' = h /\ start' = FALSE
      /\ size' = n /\ binaryIdx' = 0 /\ resIdx' = resIdx + WordLength(h - prev)
      /\ remainder' = (h - prev) % 2^div
      /\ binaryStart' = (u + 1) % CharSize /\ at' = (u + 1) \div CharSize
      /\ bytes' = [Resized(n) EXCEPT ![u \div CharSize] = @ \cup {u % CharSize}]
  BY DEF WriteUnary
<1>2. WriteInv /\ InputsInv
  BY <1>1 DEF GolombInv
<1>3. /\ h \in Written /\ it \in 0 .. serverSize - 1
      /\ prev = Before(h) /\ resIdx = Start(h)
      /\ \A g \in Written : g < h <=> ~ start /\ g <= prev
  BY <1>1, <1>2, NewFollows
<1>4. /\ h \in Nat /\ Start(h) \in Nat /\ One(h) \in Nat /\ EndOf(h) \in Nat
      /\ EndOf(h) = One(h) + 1 + div /\ div \in Nat /\ WordLength(Delta(h)) \in Nat
  BY <1>2, <1>3, WordIs, DeltaIs
<1>5. u = One(h) /\ resIdx' = EndOf(h) /\ n = DivCeil(EndOf(h), CharSize) /\ remainder' = Rest(h)
  <2>1. h - prev = Delta(h)
    BY <1>3, Zenon DEF Delta
  <2>2. resIdx + WordLength(h - prev) = EndOf(h)
    <3>1. resIdx + WordLength(h - prev) = Start(h) + WordLength(Delta(h))
      BY <1>3, <2>1, Zenon
    <3>2. Start(h) = EndOf(h) - WordLength(Delta(h))
      BY Zenon DEF Start
    <3> HIDE DEF h
    <3> QED
      BY <1>4, <3>1, <3>2
  <2>3. u = One(h)
    BY <1>3, <2>1, Zenon DEF One
  <2> QED
    BY <1>1, <2>1, <2>2, <2>3, Zenon DEF Rest
<1> HIDE DEF h, n, u
<1>6. n \in Nat /\ EndOf(h) <= Pos(n, 0)
  BY <1>4, <1>5, Enough
<1>7. u \in Nat /\ u < Pos(n, 0)
  <2>1. Pos(n, 0) \in Nat
    BY <1>6, PosIs
  <2> QED
    BY <1>4, <1>5, <1>6, <2>1
<1> DEFINE uk == u \div CharSize
           ub == u % CharSize
<1>8. uk \in Nat /\ ub \in Bit /\ Pos(uk, ub) = u
  BY <1>7, PosOf
<1>9. bytes' = [Resized(n) EXCEPT ![uk] = @ \cup {ub}]
  BY <1>1
<1> HIDE DEF uk, ub
<1>10. uk \in 0 .. n - 1
  <2>1. uk < n
    BY <1>6, <1>7, <1>8, PosOrder
  <2> QED
    BY <1>6, <1>8, <2>1
<1>11. \A k \in 0 .. n - 1 : Resized(n)[k] = IF k < size THEN bytes[k] ELSE {}
  BY DEF Resized
<1>12. size \in Nat /\ resIdx \in Nat /\ resIdx <= Pos(size, 0)
  BY <1>2, Enough DEF WriteInv
<1>13. \A k \in 0 .. n - 1 : Resized(n)[k] \in SUBSET Bit
  <2>1. \A k \in 0 .. n - 1 : k < size => bytes[k] \in SUBSET Bit
    BY <1>2, <1>12 DEF WriteInv, StringOK
  <2> QED
    BY <1>11, <2>1
<1>14. StringOK'
  <2>1. n > 0 => bytes' \in [0 .. n - 1 -> SUBSET Bit]
    <3>1. Resized(n) \in [0 .. n - 1 -> SUBSET Bit]
      <4>1. Resized(n) = [k \in 0 .. n - 1 |-> Resized(n)[k]]
        BY DEF Resized
      <4> QED
        BY <1>13, <4>1
    <3> QED
      BY <1>8, <1>9, <1>10, <3>1
  <2> QED
    BY <1>1, <1>6, <2>1 DEF StringOK, Bit
\* Which bits there are of the words written so far ...
<1>15. ASSUME NEW p \in Nat
       PROVE  WrittenBit(p)' <=> WrittenBit(p) \/ p = u
  <2>1. WrittenBit(p)' <=> \E g \in Written :
          g <= h /\ WordBit(g, p) /\ (g = h => p <= One(h) + 0)
    <3>1. \A g, q : One(g)' = One(g) /\ (WordBit(g, q)' <=> WordBit(g, q))
      BY <1>1, KeptWords, KeptWordBits
    <3>2. Written' = Written
      BY <1>1, KeptInputs
    <3> QED
      BY <1>1, <3>1, <3>2, Zenon DEF WrittenBit
  <2>2. WrittenBit(p) <=> \E g \in Written : g < h /\ WordBit(g, p)
    <3>1. WrittenBit(p) <=> \E g \in Written : ~ start /\ g <= prev /\ WordBit(g, p)
      BY <1>1 DEF WrittenBit
    <3> QED
      BY <1>3, <3>1, Zenon
  <2>3. \A g \in Written : g <= h <=> g < h \/ g = h
    BY <1>2, <1>4, WrittenFinite
  <2>4. WordBit(h, p) /\ p <= One(h) + 0 <=> p = One(h)
    BY <1>4 DEF WordBit
  <2>5. ~ (h < h)
    BY <1>4
  <2> QED
    BY <1>3, <1>5, <2>1, <2>2, <2>3, <2>4, <2>5, Zenon
<1>16. ASSUME NEW p \in Nat, WrittenBit(p) PROVE p < Pos(size, 0)
  <2>1. PICK g \in Written : ~ start /\ g <= prev /\ WordBit(g, p)
    BY <1>16 DEF WrittenBit
  <2>2. p < EndOf(g) /\ EndOf(g) \in Nat
    BY <1>2, <2>1, WordBitInside, WordIs
  <2>3. EndOf(g) <= EndOf(prev) /\ EndOf(prev) = resIdx
    BY <1>2, <2>1, EndsInOrder DEF WriteInv
  <2>4. Pos(size, 0) \in Nat
    BY <1>12, PosIs
  <2> QED
    BY <1>12, <2>2, <2>3, <2>4
\* ... and in the string.
<1>17. ASSUME NEW k \in 0 .. n - 1, NEW b \in Bit
       PROVE  b \in bytes'[k] <=> WrittenBit(Pos(k, b))'
  <2>1. k \in Nat /\ Pos(k, b) \in Nat /\ b \in Nat
    <3>1. k \in Nat /\ b \in Nat
      BY <1>6, CharSizeAssumption DEF Bit
    <3> QED
      BY <3>1, PosIs
  <2>2. b \in bytes'[k] <=> b \in Resized(n)[k] \/ (k = uk /\ b = ub)
    <3>1. Resized(n) = [j \in 0 .. n - 1 |-> Resized(n)[j]]
      BY DEF Resized
    <3> QED
      BY <1>9, <1>10, <3>1
  <2>3. k = uk /\ b = ub <=> Pos(k, b) = u
    BY <1>8, <2>1, PosOrder
  <2>4. b \in Resized(n)[k] <=> WrittenBit(Pos(k, b))
    <3>1. CASE k < size
      <4>1. k \in 0 .. size - 1
        BY <1>12, <2>1, <3>1
      <4>2. b \in bytes[k] <=> WrittenBit(Pos(k, b))
        BY <1>2, <4>1 DEF WriteInv
      <4> QED
        BY <1>11, <3>1, <4>2
    <3>2. CASE ~ (k < size)
      <4>1. ~ (Pos(k, b) < Pos(size, 0))
        BY <1>12, <2>1, <3>2, PosOrder
      <4>2. ~ WrittenBit(Pos(k, b))
        BY <1>16, <2>1, <4>1
      <4> QED
        BY <1>11, <3>2, <4>2
    <3> QED
      BY <3>1, <3>2
  <2>5. \A p \in Nat : WrittenBit(p)' <=> WrittenBit(p) \/ p = u
    BY <1>15
  <2>6. WrittenBit(Pos(k, b))' <=> WrittenBit(Pos(k, b)) \/ Pos(k, b) = u
    BY <2>1, <2>5 DEF Pos
  <2> QED
    BY <2>2, <2>3, <2>4, <2>6
<1>18. WriteInv'
  <2>1. /\ it' \in 0 .. serverSize' /\ prev' \in Nat /\ start' \in BOOLEAN /\ resIdx' \in Nat
        /\ it' < serverSize' /\ serverHashes'[it'] = prev' /\ ~ start'
    <3>1. serverSize' = serverSize /\ serverHashes' = serverHashes
      BY <1>1, KeptInputs
    <3>2. serverHashes[it] = h
      BY DEF h
    <3>3. serverHashes'[it'] = prev'
      BY <1>1, <3>1, <3>2, Zenon
    <3>4. serverSize \in Nat
      BY <1>2 DEF InputsInv
    <3>5. it' \in 0 .. serverSize' /\ it' < serverSize'
      BY <1>1, <1>3, <3>1, <3>4
    <3>6. prev' \in Nat /\ resIdx' \in Nat
      BY <1>1, <1>4, <1>5, Zenon
    <3> QED
      BY <1>1, <3>3, <3>5, <3>6, Zenon
  <2>2. prev' \in Written' /\ resIdx' = EndOf(prev)'
    <3>1. \A g : EndOf(g)' = EndOf(g)
      BY <1>1, KeptWords
    <3>2. Written' = Written
      BY <1>1, KeptInputs
    <3> QED
      BY <1>1, <1>3, <1>5, <3>1, <3>2
  <2>3. \A a \in 0 .. it' - 1 : ~ start' /\ serverHashes'[a] <= prev'
    <3>1. \A a \in 0 .. it - 1 : serverHashes[a] <= h
      <4>1. \A a \in 0 .. serverSize - 1 : a <= it => serverHashes[a] <= h
        BY <1>2, <1>3, HashesBefore DEF h
      <4>2. \A a \in 0 .. it - 1 : a \in 0 .. serverSize - 1 /\ a <= it
        BY <1>2, <1>3 DEF InputsInv
      <4> QED
        BY <4>1, <4>2
    <3>2. serverHashes' = serverHashes
      BY <1>1, KeptInputs
    <3> QED
      BY <1>1, <3>1, <3>2
  <2>4. size' = DivCeil(resIdx, CharSize)' /\ StringOK'
    BY <1>1, <1>5, <1>14 DEF DivCeil
  <2>5. \A k \in 0 .. size' - 1, b \in Bit : b \in bytes'[k] <=> WrittenBit(Pos(k, b))'
    BY <1>1, <1>17
  <2>6. arrIt' = 0 /\ offset' = 0 /\ quotient' = 0 /\ prefixSum' = 0
    BY <1>1, <1>2 DEF WriteInv, matching
  <2> QED
    BY <2>1, <2>2, <2>3, <2>4, <2>5, <2>6 DEF WriteInv
<1>19. CopyInv'
  <2>1. at' \in Nat /\ binaryStart' \in Bit /\ Pos(at', binaryStart') = u + 1
    <3>1. u + 1 \in Nat
      BY <1>7
    <3> QED
      BY <1>1, <3>1, PosOf
  <2>2. \A g : Rest(g)' = Rest(g) /\ One(g)' = One(g)
    BY <1>1, KeptWords
  <2>3. remainder' = Rest(prev)'
    BY <1>1, <1>5, <2>2
  <2>4. One(prev)' = u
    BY <1>1, <1>5, <2>2
  <2>5. binaryIdx' = 0 /\ u + 1 = u + 1 + 0
    BY <1>1, <1>7
  <2>6. Pos(at, binaryStart)' = One(prev)' + 1 + binaryIdx'
    BY <2>1, <2>4, <2>5 DEF Pos
  <2>7. binaryIdx' \in Nat
    BY <1>1
  <2> QED
    BY <2>1, <2>3, <2>6, <2>7 DEF CopyInv, Bit
<1> QED
  BY <1>1, <1>18, <1>19, Writing

\* The bytes to which a remainder is copied are there.
LEMMA CopyInside ==
  ASSUME GolombInv, pc = "copy", binaryIdx < div
  PROVE  /\ prev \in Written /\ at \in 0 .. size - 1 /\ EndOf(prev) <= Pos(size, 0)
         /\ One(prev) + 1 + binaryIdx < EndOf(prev)
<1>1. InputsInv /\ WriteInv /\ CopyInv
  BY DEF GolombInv
<1>2. prev \in Written /\ resIdx = EndOf(prev) /\ size = DivCeil(resIdx, CharSize)
  BY <1>1 DEF WriteInv
<1>3. /\ EndOf(prev) \in Nat /\ One(prev) \in Nat /\ EndOf(prev) = One(prev) + 1 + div
      /\ div \in Nat
  BY <1>1, <1>2, WordIs
<1>4. size \in Nat /\ EndOf(prev) <= Pos(size, 0)
  BY <1>2, <1>3, Enough
<1>5. /\ binaryIdx \in Nat /\ binaryStart \in Bit /\ at \in Nat
      /\ Pos(at, binaryStart) = One(prev) + 1 + binaryIdx
  BY <1>1 DEF CopyInv
<1>6. One(prev) + 1 + binaryIdx < EndOf(prev)
  BY <1>3, <1>5
<1>7. Pos(at, binaryStart) < Pos(size, 0)
  <2>1. Pos(size, 0) \in Nat
    BY <1>4, PosIs
  <2> QED
    BY <1>3, <1>4, <1>5, <1>6, <2>1
<1>8. at < size
  BY <1>4, <1>5, <1>7, PosOrder
<1> QED
  BY <1>2, <1>4, <1>5, <1>6, <1>8

\* So is the last bit of the unary part, in front of the remainder.
LEMMA UnaryInside ==
  ASSUME GolombInv, pc = "copy", binaryIdx = 0
  PROVE  (at * CharSize + binaryStart - 1) \div CharSize < size
<1>1. InputsInv /\ WriteInv /\ CopyInv
  BY DEF GolombInv
<1>2. prev \in Written /\ resIdx = EndOf(prev) /\ size = DivCeil(resIdx, CharSize)
  BY <1>1 DEF WriteInv
<1>3. /\ EndOf(prev) \in Nat /\ One(prev) \in Nat /\ EndOf(prev) = One(prev) + 1 + div
      /\ div \in Nat
  BY <1>1, <1>2, WordIs
<1>4. size \in Nat /\ EndOf(prev) <= Pos(size, 0)
  BY <1>2, <1>3, Enough
<1>5. at * CharSize + binaryStart = One(prev) + 1
  <2>1. Pos(at, binaryStart) = One(prev) + 1 + binaryIdx
    BY <1>1 DEF CopyInv
  <2> HIDE DEF One
  <2>2. Pos(at, binaryStart) = One(prev) + 1
    BY <1>3, <2>1
  <2> QED
    BY <2>2 DEF Pos
<1>6. /\ One(prev) \div CharSize \in Nat /\ One(prev) % CharSize \in Bit
      /\ Pos(One(prev) \div CharSize, One(prev) % CharSize) = One(prev)
  BY <1>3, PosOf
<1>7. One(prev) < Pos(size, 0)
  <2>1. Pos(size, 0) \in Nat
    BY <1>4, PosIs
  <2> QED
    BY <1>3, <1>4, <2>1
<1>8. One(prev) \div CharSize < size
  BY <1>4, <1>6, <1>7, PosOrder
<1>9. at * CharSize + binaryStart - 1 = One(prev)
  <2> DEFINE m == at * CharSize
             o == One(prev)
  <2>1. m \in Nat /\ binaryStart \in Int
    BY <1>1, CharSizeAssumption, ProductNat DEF CopyInv, Bit
  <2>2. m + binaryStart = o + 1 /\ o \in Nat
    BY <1>3, <1>5
  <2> HIDE DEF m, o
  <2>3. m + binaryStart - 1 = o
    BY <2>1, <2>2
  <2> QED
    BY <2>3 DEF m, o
<1> QED
  BY <1>8, <1>9

LEMMA CopyByteInv ==
  ASSUME GolombInv, CopyByte
  PROVE  GolombInv'
<1>1. /\ pc = "copy" /\ binaryIdx < div /\ UNCHANGED inputs /\ UNCHANGED matching
      /\ UNCHANGED <<size, it, prev, start, resIdx, remainder, pc>>
      /\ bytes' = [bytes EXCEPT ![at] = @ \cup ShiftedBits]
      /\ binaryIdx' = binaryIdx + CharSize - binaryStart /\ binaryStart' = 0 /\ at' = at + 1
  BY DEF CopyByte
<1>2. InputsInv /\ WriteInv /\ CopyInv
  BY <1>1 DEF GolombInv
<1>3. /\ prev \in Written /\ at \in 0 .. size - 1
      /\ One(prev) + 1 + binaryIdx < EndOf(prev)
  BY <1>1, CopyInside
<1>4. /\ One(prev) \in Nat /\ EndOf(prev) \in Nat /\ EndOf(prev) = One(prev) + 1 + div
      /\ div \in Nat /\ prev \in Nat
  BY <1>2, <1>3, WordIs
<1>5. /\ size \in Nat /\ bytes \in [0 .. size - 1 -> SUBSET Bit] /\ ~ start
      /\ at \in Nat /\ binaryIdx \in Nat /\ binaryStart \in Bit /\ binaryStart \in Nat
      /\ CharSize \in Nat \ {0} /\ remainder = Rest(prev)
      /\ Pos(at, binaryStart) = One(prev) + 1 + binaryIdx
  <2>1. size \in Nat /\ bytes \in [0 .. size - 1 -> SUBSET Bit] /\ ~ start
    BY <1>1, <1>2, <1>3 DEF WriteInv, StringOK
  <2>2. /\ at \in Nat /\ binaryIdx \in Nat /\ binaryStart \in Bit /\ remainder = Rest(prev)
        /\ Pos(at, binaryStart) = One(prev) + 1 + binaryIdx
    BY <1>2 DEF CopyInv
  <2> QED
    BY <2>1, <2>2, CharSizeAssumption DEF Bit
<1>6. binaryIdx' \in Nat /\ binaryIdx' > binaryIdx
  BY <1>1, <1>5 DEF Bit
<1>7. Pos(at + 1, 0) = One(prev) + 1 + binaryIdx'
  <2>1. /\ Pos(at + 1, 0) = Pos(at, 0) + CharSize /\ Pos(at, 0) \in Nat
        /\ Pos(at, binaryStart) = Pos(at, 0) + binaryStart
    BY <1>5, PosIs
  <2> DEFINE X == Pos(at, 0)
             o == One(prev)
  <2>2. /\ o \in Nat /\ X \in Nat /\ X + binaryStart = o + 1 + binaryIdx
        /\ Pos(at + 1, 0) = X + CharSize
    BY <1>4, <1>5, <2>1, Zenon
  <2>3. /\ binaryIdx \in Nat /\ binaryStart \in Nat /\ CharSize \in Nat
        /\ binaryIdx' = binaryIdx + CharSize - binaryStart
    BY <1>1, <1>5
  <2> HIDE DEF X, o
  <2>4. X + CharSize = o + 1 + (binaryIdx + CharSize - binaryStart)
    BY <2>2, <2>3
  <2> QED
    BY <2>2, <2>3, <2>4, Zenon DEF o
<1>8. StringOK'
  <2>1. ShiftedBits \in SUBSET Bit
    BY DEF ShiftedBits
  <2>2. bytes' \in [0 .. size - 1 -> SUBSET Bit]
    BY <1>1, <1>3, <1>5, <2>1
  <2> QED
    BY <1>1, <1>5, <2>2 DEF StringOK, Bit
<1>9. ASSUME NEW p \in Nat
      PROVE  WrittenBit(p)' <=>
               WrittenBit(p) \/ (WordBit(prev, p) /\ One(prev) + binaryIdx < p
                                                  /\ p <= One(prev) + binaryIdx')
  <2>1. WrittenBit(p)' <=> \E g \in Written :
          g <= prev /\ WordBit(g, p) /\ (g = prev => p <= One(prev) + binaryIdx')
    <3>1. \A g, q : One(g)' = One(g) /\ (WordBit(g, q)' <=> WordBit(g, q))
      BY <1>1, KeptWords, KeptWordBits
    <3>2. Written' = Written
      BY <1>1, KeptInputs
    <3> QED
      BY <1>1, <1>5, <3>1, <3>2, Zenon DEF WrittenBit
  <2>2. WrittenBit(p) <=> \E g \in Written :
          g <= prev /\ WordBit(g, p) /\ (g = prev => p <= One(prev) + binaryIdx)
    BY <1>1, <1>5, Zenon DEF WrittenBit
  <2>3. p <= One(prev) + binaryIdx => p <= One(prev) + binaryIdx'
    BY <1>4, <1>5, <1>6
  <2>4. ~ (p <= One(prev) + binaryIdx) <=> One(prev) + binaryIdx < p
    BY <1>4, <1>5
  <2>5. prev <= prev
    BY <1>4
  <2> QED
    BY <1>3, <2>1, <2>2, <2>3, <2>4, <2>5, Zenon
\* The bits that are new are those of the byte at: higher ones are none of Rest.
<1>10. ASSUME NEW k \in 0 .. size - 1, NEW b \in Bit
       PROVE  b \in bytes'[k] <=> WrittenBit(Pos(k, b))'
  <2> DEFINE p == Pos(k, b)
  <2>1. /\ k \in Nat /\ p \in Nat /\ b \in Nat /\ b < CharSize
        /\ p = Pos(k, 0) + b /\ Pos(k, 0) \in Nat
    <3>1. k \in Nat /\ b \in Nat /\ b < CharSize
      BY <1>5 DEF Bit
    <3>2. 0 \in Nat
      OBVIOUS
    <3> QED
      BY <3>1, <3>2, PosIs
  <2>2. b \in bytes[k] <=> WrittenBit(p)
    BY <1>2 DEF WriteInv
  <2>3. One(prev) + binaryIdx < p /\ p <= One(prev) + binaryIdx' <=> k = at /\ b >= binaryStart
    <3>1. One(prev) + binaryIdx < p <=> ~ (p < Pos(at, binaryStart))
      BY <1>4, <1>5, <2>1
    <3>2. p <= One(prev) + binaryIdx' <=> p < Pos(at + 1, 0)
      BY <1>4, <1>6, <1>7, <2>1
    <3>3. p < Pos(at + 1, 0) <=> k < at + 1
      <4>1. at + 1 \in Nat
        BY <1>5
      <4> QED
        BY <2>1, <4>1, PosOrder
    <3>4. p < Pos(at, binaryStart) <=> k < at \/ (k = at /\ b < binaryStart)
      <4>1. k < at => p < Pos(at, binaryStart)
        BY <1>5, <2>1, PosOrder
      <4>2. p < Pos(at, binaryStart) => k < at \/ (k = at /\ b < binaryStart)
        BY <1>5, <2>1, PosOrder
      <4>3. k = at /\ b < binaryStart => p < Pos(at, binaryStart)
        <5>1. Pos(at, binaryStart) = Pos(at, 0) + binaryStart
          BY <1>5, PosIs
        <5> QED
          BY <1>5, <2>1, <5>1
      <4> QED
        BY <4>1, <4>2, <4>3
    <3> QED
      BY <1>5, <2>1, <3>1, <3>2, <3>3, <3>4
  <2>4. ASSUME k = at, b >= binaryStart
        PROVE  WordBit(prev, p) <=> b \in ShiftedBits
    <3> DEFINE i == binaryIdx + b - binaryStart
    <3>1. i \in Nat
      BY <1>5, <2>1, <2>4
    <3>2. p = One(prev) + 1 + i
      <4>1. Pos(at, binaryStart) = Pos(at, 0) + binaryStart
        BY <1>5, PosIs
      <4>2. p = Pos(at, 0) + b /\ Pos(at, 0) \in Nat
        BY <2>1, <2>4, Zenon
      <4> DEFINE X == Pos(at, 0)
                 o == One(prev)
      <4>3. o \in Nat /\ X + binaryStart = o + 1 + binaryIdx /\ p = X + b /\ X \in Nat
        BY <1>4, <1>5, <4>1, <4>2, Zenon
      <4>4. binaryIdx \in Nat /\ binaryStart \in Nat /\ b \in Nat
        BY <1>5, <2>1, Zenon
      <4> HIDE DEF p, X, o
      <4>5. p = o + 1 + (binaryIdx + b - binaryStart)
        BY <4>3, <4>4
      <4> QED
        BY <4>5 DEF o
    <3>3. b \in ShiftedBits <=> BitOf(Rest(prev), i)
      BY <1>5, <2>4 DEF ShiftedBits
    <3> HIDE DEF i, p
    <3>4. WordBit(prev, p) <=> i < div /\ BitOf(Rest(prev), i)
      <4>1. p - One(prev) - 1 = i /\ One(prev) < p /\ p # One(prev) /\ (p < EndOf(prev) <=> i < div)
        BY <1>4, <3>1, <3>2
      <4> QED
        BY <4>1, Zenon DEF WordBit
    <3>5. ~ (i < div) => ~ BitOf(Rest(prev), i)
      <4>1. Rest(prev) \in Nat /\ Rest(prev) < 2^div
        <5>1. Rest(prev) \in 0 .. 2^div - 1 /\ 2^div \in Nat
          BY <1>2, <1>4, DeltaIs, Power
        <5> QED
          BY <5>1
      <4>2. ~ (i < div) => div <= i
        BY <1>4, <3>1
      <4> QED
        BY <1>4, <3>1, <4>1, <4>2, NoHighBits
    <3> QED
      BY <3>3, <3>4, <3>5
  <2>5. b \in bytes'[k] <=> b \in bytes[k] \/ (k = at /\ b \in ShiftedBits)
    BY <1>1, <1>3, <1>5
  <2>6. b \in ShiftedBits => b >= binaryStart
    BY DEF ShiftedBits
  <2>7. \A q \in Nat : WrittenBit(q)' <=>
               WrittenBit(q) \/ (WordBit(prev, q) /\ One(prev) + binaryIdx < q
                                                  /\ q <= One(prev) + binaryIdx')
    BY <1>9
  <2>8. WrittenBit(Pos(k, b))' <=>
               WrittenBit(p) \/ (WordBit(prev, p) /\ One(prev) + binaryIdx < p
                                                  /\ p <= One(prev) + binaryIdx')
    BY <2>1, <2>7 DEF Pos
  <2> HIDE DEF p
  <2> QED
    BY <2>2, <2>3, <2>4, <2>5, <2>6, <2>8
<1>11. WriteInv'
  <2>0. serverHashes' = serverHashes /\ serverSize' = serverSize /\ Written' = Written
    BY <1>1, KeptInputs
  <2>1. /\ it' \in 0 .. serverSize' /\ prev' \in Nat /\ start' \in BOOLEAN /\ resIdx' \in Nat
        /\ it' < serverSize' /\ serverHashes'[it'] = prev' /\ ~ start'
    BY <1>1, <1>2, <2>0 DEF WriteInv
  <2>2. prev' \in Written' /\ resIdx' = EndOf(prev)'
    <3>1. \A g : EndOf(g)' = EndOf(g)
      BY <1>1, KeptWords
    <3>2. resIdx = EndOf(prev)
      BY <1>2, <1>5 DEF WriteInv
    <3> QED
      BY <1>1, <1>3, <2>0, <3>1, <3>2
  <2>3. \A a \in 0 .. it' - 1 : ~ start' /\ serverHashes'[a] <= prev'
    BY <1>1, <1>2, <2>0 DEF WriteInv
  <2>4. size' = DivCeil(resIdx, CharSize)' /\ StringOK'
    BY <1>1, <1>2, <1>8 DEF DivCeil, WriteInv
  <2>5. \A k \in 0 .. size' - 1, b \in Bit : b \in bytes'[k] <=> WrittenBit(Pos(k, b))'
    BY <1>1, <1>10
  <2>6. arrIt' = 0 /\ offset' = 0 /\ quotient' = 0 /\ prefixSum' = 0
    BY <1>1, <1>2 DEF WriteInv, matching
  <2> QED
    BY <2>1, <2>2, <2>3, <2>4, <2>5, <2>6 DEF WriteInv
<1>12. CopyInv'
  <2>1. at' \in Nat /\ binaryStart' \in Bit /\ binaryIdx' \in Nat
    BY <1>1, <1>5, <1>6 DEF Bit
  <2>2. \A g : Rest(g)' = Rest(g) /\ One(g)' = One(g)
    BY <1>1, KeptWords
  <2>3. remainder' = Rest(prev)' /\ One(prev)' = One(prev)
    BY <1>1, <1>5, <2>2
  <2>4. Pos(at, binaryStart)' = One(prev)' + 1 + binaryIdx'
    BY <1>1, <1>7, <2>3 DEF Pos
  <2> QED
    BY <2>1, <2>3, <2>4 DEF CopyInv, Bit
<1> QED
  BY <1>1, <1>11, <1>12, Writing

LEMMA EndCopyInv ==
  ASSUME GolombInv, EndCopy
  PROVE  GolombInv'
<1>1. /\ pc = "copy" /\ binaryIdx >= div /\ UNCHANGED inputs /\ UNCHANGED matching
      /\ UNCHANGED <<bytes, size, prev, start, resIdx>> /\ UNCHANGED copying
      /\ it' = it + 1 /\ pc' = "word"
  BY DEF EndCopy
<1>2. InputsInv /\ WriteInv /\ CopyInv
  BY <1>1 DEF GolombInv
<1>3. /\ prev \in Written /\ ~ start /\ it \in 0 .. serverSize /\ it < serverSize
      /\ serverHashes[it] = prev /\ resIdx = EndOf(prev) /\ prev \in Nat /\ binaryIdx \in Nat
      /\ serverSize \in Nat
  BY <1>1, <1>2 DEF WriteInv, CopyInv, InputsInv
<1>4. /\ One(prev) \in Nat /\ EndOf(prev) = One(prev) + 1 + div /\ div \in Nat
  BY <1>2, <1>3, WordIs
<1>5. ASSUME NEW p \in Nat PROVE WrittenBit(p)' <=> WrittenBit(p)
  <2>1. WrittenBit(p)' <=> \E g \in Written : g <= prev /\ WordBit(g, p)
    <3>1. \A g, q : WordBit(g, q)' <=> WordBit(g, q)
      BY <1>1, KeptWordBits
    <3>2. Written' = Written
      BY <1>1, KeptInputs
    <3>3. pc' # "copy"
      BY <1>1
    <3> QED
      BY <1>1, <1>3, <3>1, <3>2, <3>3, Zenon DEF WrittenBit
  <2>2. WordBit(prev, p) => p <= One(prev) + binaryIdx
    <3>1. WordBit(prev, p) => p < EndOf(prev)
      BY <1>2, <1>3, WordBitInside
    <3> QED
      BY <1>1, <1>3, <1>4, <3>1
  <2> QED
    BY <1>1, <1>3, <2>1, <2>2, Zenon DEF WrittenBit
<1>6. WriteInv'
  <2>0. serverHashes' = serverHashes /\ serverSize' = serverSize /\ Written' = Written
    BY <1>1, KeptInputs
  <2>1. /\ it' \in 0 .. serverSize' /\ prev' \in Nat /\ start' \in BOOLEAN /\ resIdx' \in Nat
        /\ pc' # "copy" /\ ~ start'
    BY <1>1, <1>2, <1>3, <2>0 DEF WriteInv
  <2>2. prev' \in Written' /\ resIdx' = EndOf(prev)'
    <3>1. \A g : EndOf(g)' = EndOf(g)
      BY <1>1, KeptWords
    <3> QED
      BY <1>1, <1>3, <2>0, <3>1
  <2>3. \A a \in 0 .. it' - 1 : ~ start' /\ serverHashes'[a] <= prev'
    BY <1>1, <1>2, <1>3, <2>0 DEF WriteInv
  <2>4. size' = DivCeil(resIdx, CharSize)' /\ StringOK'
    BY <1>1, <1>2 DEF DivCeil, WriteInv, StringOK, Bit
  <2>5. \A k \in 0 .. size' - 1, b \in Bit : b \in bytes'[k] <=> WrittenBit(Pos(k, b))'
    <3>1. \A k \in 0 .. size - 1, b \in Bit : b \in bytes[k] <=> WrittenBit(Pos(k, b))
      BY <1>2 DEF WriteInv
    <3>2. \A k \in 0 .. size - 1, b \in Bit : Pos(k, b) \in Nat
      <4>1. \A k \in 0 .. size - 1, b \in Bit : k \in Nat /\ b \in Nat
        BY <1>2, CharSizeAssumption DEF WriteInv, StringOK, Bit
      <4> QED
        BY <4>1, PosIs
    <3>3. \A k \in 0 .. size - 1, b \in Bit : WrittenBit(Pos(k, b))' <=> WrittenBit(Pos(k, b))
      BY <1>5, <3>2 DEF Pos
    <3> QED
      BY <1>1, <3>1, <3>3
  <2>6. arrIt' = 0 /\ offset' = 0 /\ quotient' = 0 /\ prefixSum' = 0
    BY <1>1, <1>2 DEF WriteInv, matching
  <2> QED
    BY <2>1, <2>2, <2>3, <2>4, <2>5, <2>6 DEF WriteInv
<1> QED
  BY <1>1, <1>6, Writing

-----------------------------------------------------------------------------
(***************************************************************************)
(* golomb_intersect.                                                       *)
(***************************************************************************)
LEMMA StringKept ==
  ASSUME StringInv, UNCHANGED inputs, UNCHANGED <<bytes, size>>,
         it' \in Nat, offset' \in Bit, quotient' \in Nat, prefixSum' \in Nat
  PROVE  StringInv'
<1>1. StringOK' /\ size' = size /\ bytes' = bytes
  BY DEF StringInv, StringOK, Bit
<1>2. \A k \in 0 .. size' - 1, b \in Bit : b \in bytes'[k] <=> SetBit(Pos(k, b))'
  <2>1. \A k \in 0 .. size - 1, b \in Bit : b \in bytes[k] <=> SetBit(Pos(k, b))
    BY DEF StringInv
  <2>2. \A p : SetBit(p)' <=> SetBit(p)
    BY KeptBits
  <2> QED
    BY <1>1, <2>1, <2>2 DEF Pos
<1>3. \A h \in Written' : EndOf(h)' <= Pos(size, 0)'
  <2>1. \A h \in Written : EndOf(h) <= Pos(size, 0)
    BY DEF StringInv
  <2>2. \A h : EndOf(h)' = EndOf(h)
    BY KeptWords
  <2>3. Written' = Written
    BY KeptInputs
  <2>4. Pos(size, 0)' = Pos(size, 0)
    BY <1>1 DEF Pos
  <2> QED
    BY <2>1, <2>2, <2>3, <2>4
<1> QED
  BY <1>1, <1>2, <1>3 DEF StringInv, Bit

LEMMA PastKept ==
  ASSUME ResInv, UNCHANGED inputs, arrIt' = arrIt \/ arrIt' = arrIt + 1, NEW h, Past(h)
  PROVE  Past(h)'
<1>1. Written' = Written /\ clientHashes' = clientHashes /\ clientSize' = clientSize
  BY KeptInputs
<1>2. arrIt \in Nat
  BY DEF ResInv
<1>3. \A a \in arrIt' .. clientSize - 1 : a \in arrIt .. clientSize - 1
  BY <1>2
<1> QED
  BY <1>1, <1>3 DEF Past

\* What a reading step has to show.
LEMMA Reading ==
  ASSUME GolombInv, UNCHANGED inputs, UNCHANGED <<arrIt, res>>,
         pc' \in {"unary", "binary", "match"}, StringInv',
         pc' = "unary" => UnaryInv',
         pc' = "binary" => (\E h \in Written : ReadUpTo(h))',
         pc' = "match" => MatchInv'
  PROVE  GolombInv'
<1>1. InputsInv' /\ ResInv'
  <2>1. InputsInv /\ ResInv /\ UNCHANGED <<inputs, arrIt, res>>
    BY DEF GolombInv
  <2> QED
    BY <2>1, KeptInputsInv, ResKept
<1> QED
  BY <1>1 DEF GolombInv, IntersectionIsExact

\* When none of the client's hashes that are left was written, all are found.
LEMMA Finished ==
  ASSUME GolombInv, UNCHANGED inputs, UNCHANGED <<arrIt, res>>, pc' = "done",
         \A a \in arrIt .. clientSize - 1 : clientHashes[a] \notin Written
  PROVE  GolombInv'
<1>1. InputsInv /\ ResInv /\ UNCHANGED <<inputs, arrIt, res>>
  BY DEF GolombInv
<1>2. InputsInv' /\ ResInv'
  BY <1>1, KeptInputsInv, ResKept
<1>3. Written' = Written /\ clientHashes' = clientHashes /\ clientSize' = clientSize
  BY KeptInputs
<1>4. {a \in 0 .. arrIt - 1 : clientHashes[a] \in Written}
        = {a \in 0 .. clientSize - 1 : clientHashes[a] \in Written}
  <2>1. arrIt \in 0 .. clientSize /\ clientSize \in Nat
    BY <1>1 DEF ResInv, InputsInv
  <2>2. \A a \in 0 .. clientSize - 1 : a \in 0 .. arrIt - 1 \/ a \in arrIt .. clientSize - 1
    BY <2>1
  <2>3. \A a \in 0 .. arrIt - 1 : a \in 0 .. clientSize - 1
    BY <2>1
  <2> QED
    BY <2>2, <2>3
<1>5. IntersectionIsExact'
  <2>1. /\ {res[p] : p \in 1 .. Len(res)} = {a \in 0 .. arrIt - 1 : clientHashes[a] \in Written}
        /\ \A p, q \in 1 .. Len(res) : p < q => res[p] < res[q]
    BY <1>1 DEF ResInv
  <2>2. res' = res
    OBVIOUS
  <2> QED
    BY <1>3, <1>4, <2>1, <2>2, Zenon DEF IntersectionIsExact
<1> QED
  BY <1>2, <1>5 DEF GolombInv

LEMMA CompressedInv ==
  ASSUME GolombInv, Compressed
  PROVE  GolombInv'
<1>1. /\ pc = "word" /\ it = serverSize /\ it' = 0
      /\ pc' = (IF size = 0 THEN "done" ELSE "unary")
      /\ UNCHANGED inputs /\ UNCHANGED <<bytes, size, prev, start, resIdx>>
      /\ UNCHANGED copying /\ UNCHANGED matching
  BY DEF Compressed
<1>2. InputsInv /\ WriteInv /\ ResInv
  BY <1>1 DEF GolombInv
<1>3. UNCHANGED <<arrIt, res>> /\ UNCHANGED <<offset, quotient, prefixSum>>
  BY <1>1 DEF matching
\* All the words are written.
<1>4. ASSUME NEW h \in Written
      PROVE  /\ ~ start /\ h <= prev /\ prev \in Written
             /\ resIdx = EndOf(prev) /\ EndOf(h) <= EndOf(prev) /\ EndOf(prev) \in Nat \ {0}
  <2>1. PICK a \in 0 .. serverSize - 1 : h = serverHashes[a]
    BY DEF Written
  <2>2. ~ start /\ h <= prev
    BY <1>1, <1>2, <2>1 DEF WriteInv
  <2>3. prev \in Written /\ resIdx = EndOf(prev)
    BY <1>2, <2>2 DEF WriteInv
  <2>4. EndOf(h) <= EndOf(prev)
    BY <1>2, <2>2, <2>3, EndsInOrder
  <2>5. EndOf(prev) \in Nat /\ One(prev) \in Nat /\ EndOf(prev) = One(prev) + 1 + div /\ div \in Nat
    BY <1>2, <2>3, WordIs
  <2> QED
    BY <2>2, <2>3, <2>4, <2>5
<1>5. size \in Nat /\ resIdx \in Nat /\ resIdx <= Pos(size, 0) /\ (size = 0 <=> resIdx = 0)
      /\ Pos(size, 0) \in Nat
  <2>1. size = DivCeil(resIdx, CharSize) /\ resIdx \in Nat
    BY <1>2 DEF WriteInv
  <2>2. size \in Nat /\ resIdx <= Pos(size, 0) /\ (size = 0 <=> resIdx = 0)
    BY <2>1, Enough
  <2> QED
    BY <2>1, <2>2, PosIs
<1>6. CASE size = 0
  <2>1. Written = {}
    BY <1>4, <1>5, <1>6
  <2> QED
    BY <1>1, <1>3, <1>6, <2>1, Finished
<1>7. CASE size # 0
  <2>1. ASSUME NEW p PROVE WrittenBit(p) <=> SetBit(p)
    <3>1. WrittenBit(p) <=> \E h \in Written : ~ start /\ h <= prev /\ WordBit(h, p)
      BY <1>1 DEF WrittenBit
    <3> QED
      BY <1>4, <3>1, Zenon DEF SetBit
  <2>2. \A h \in Written : EndOf(h) <= Pos(size, 0)
    <3>1. \A h \in Written : EndOf(h) \in Nat
      BY <1>2, WordIs
    <3> QED
      BY <1>4, <1>5, <3>1
  <2>3. arrIt = 0 /\ offset = 0 /\ quotient = 0 /\ prefixSum = 0 /\ StringOK
        /\ \A k \in 0 .. size - 1, b \in Bit : b \in bytes[k] <=> WrittenBit(Pos(k, b))
    BY <1>2 DEF WriteInv
  <2>4. 0 \in Bit
    BY CharSizeAssumption DEF Bit
  <2>5. it \in Nat
    BY <1>2 DEF WriteInv
  <2>6. StringInv
    BY <2>1, <2>2, <2>3, <2>4, <2>5 DEF StringInv
  <2>7. StringInv'
    BY <1>1, <1>3, <2>3, <2>4, <2>6, StringKept
  <2>8. UnaryInv'
    <3>1. Pos(it, offset)' = 0
      <4>1. 0 * CharSize + 0 = 0
        BY CharSizeAssumption
      <4> QED
        BY <1>1, <1>3, <2>3, <4>1 DEF Pos
    <3>2. Base' = 0
      BY <1>3, <2>3, <3>1 DEF Base
    <3>3. \A p \in Base' .. Pos(it, offset)' - 1 : ~ SetBit(p)'
      BY <3>1, <3>2
    <3>4. it' <= size'
      BY <1>1, <1>5
    <3> QED
      BY <1>3, <2>3, <3>2, <3>3, <3>4 DEF UnaryInv
  <2> QED
    BY <1>1, <1>3, <1>7, <2>7, <2>8, Reading
<1> QED
  BY <1>6, <1>7

LEMMA SkipByteInv ==
  ASSUME GolombInv, SkipByte
  PROVE  GolombInv'
<1>1. /\ pc = "unary" /\ it < size /\ Unread = {} /\ quotient' = quotient + CharSize - offset
      /\ offset' = 0 /\ it' = it + 1 /\ pc' = "unary"
      /\ UNCHANGED inputs /\ UNCHANGED <<bytes, size>> /\ UNCHANGED <<arrIt, res>>
      /\ prefixSum' = prefixSum
  BY DEF SkipByte
<1>2. InputsInv /\ ResInv /\ StringInv /\ UnaryInv
  BY <1>1 DEF GolombInv
<1>3. /\ it \in Nat /\ offset \in Bit /\ quotient \in Nat /\ prefixSum \in Nat /\ size \in Nat
      /\ offset \in Nat /\ offset < CharSize /\ CharSize \in Nat \ {0}
  BY <1>2, CharSizeAssumption DEF StringInv, StringOK, Bit
<1>4. /\ Pos(it + 1, 0) = Pos(it, 0) + CharSize /\ Pos(it, 0) \in Nat
      /\ Pos(it, offset) = Pos(it, 0) + offset
  BY <1>3, PosIs
<1>5. StringInv'
  <2>1. it' \in Nat /\ offset' \in Bit /\ quotient' \in Nat /\ prefixSum' \in Nat
    BY <1>1, <1>3 DEF Bit
  <2> QED
    BY <1>1, <1>2, <2>1, StringKept
<1>6. ASSUME NEW p \in Pos(it, offset) .. Pos(it + 1, 0) - 1
      PROVE  ~ SetBit(p)
  <2> DEFINE b == p - Pos(it, 0)
  <2>1. b \in Bit /\ p = Pos(it, 0) + b /\ b >= offset /\ b \in Nat
    BY <1>3, <1>4 DEF Bit
  <2>2. Pos(it, b) = p
    BY <1>3, <2>1, PosIs
  <2>3. it \in 0 .. size - 1
    BY <1>1, <1>3
  <2> HIDE DEF b
  <2>4. b \in bytes[it] <=> SetBit(p)
    BY <1>2, <2>1, <2>2, <2>3 DEF StringInv
  <2>5. b \notin bytes[it]
    BY <1>1, <2>1 DEF Unread
  <2> QED
    BY <2>4, <2>5
<1>7. Pos(it, offset)' = Pos(it + 1, 0)
  BY <1>1 DEF Pos
<1>8. Base' = Base /\ Base \in Int
  BY <1>1, <1>3, <1>4, <1>7 DEF Base
<1>9. UnaryInv'
  <2>1. it' <= size'
    BY <1>1, <1>3
  <2>2. \A p \in Base' .. Pos(it, offset)' - 1 : ~ SetBit(p)'
    <3>1. \A p \in Base .. Pos(it, offset) - 1 : ~ SetBit(p)
      BY <1>2 DEF UnaryInv
    <3>2. \A p \in Base .. Pos(it + 1, 0) - 1 :
            p \in Base .. Pos(it, offset) - 1 \/ p \in Pos(it, offset) .. Pos(it + 1, 0) - 1
      BY <1>3, <1>4, <1>8
    <3>3. \A p : SetBit(p)' <=> SetBit(p)
      BY <1>1, KeptBits
    <3> QED
      BY <1>6, <1>7, <1>8, <3>1, <3>2, <3>3
  <2>3. (Base = 0 /\ prefixSum = 0)' \/ (/\ prefixSum' \in Written' /\ Base' = EndOf(prefixSum)'
                                         /\ Past(prefixSum + 1)')
    <3>1. CASE Base = 0 /\ prefixSum = 0
      BY <1>1, <1>8, <3>1
    <3>2. CASE prefixSum \in Written /\ Base = EndOf(prefixSum) /\ Past(prefixSum + 1)
      <4>1. \A h : EndOf(h)' = EndOf(h)
        BY <1>1, KeptWords
      <4>2. Written' = Written
        BY <1>1, KeptInputs
      <4>3. \A h : Past(h) => Past(h)'
        BY <1>1, <1>2, PastKept
      <4> QED
        BY <1>1, <1>8, <3>2, <4>1, <4>2, <4>3
    <3> QED
      BY <1>2, <3>1, <3>2 DEF UnaryInv
  <2> QED
    BY <2>1, <2>2, <2>3 DEF UnaryInv
<1> QED
  BY <1>1, <1>5, <1>9, Reading

\* A word not yet read begins at Base, or further on.
LEMMA NotRead ==
  ASSUME InputsInv, StringInv, UnaryInv, NEW h \in Written, Base # 0 => prefixSum < h
  PROVE  Base <= Start(h) /\ Base \in Nat
<1>1. Start(h) \in Nat
  BY WordIs
<1>2. CASE Base = 0 /\ prefixSum = 0
  BY <1>1, <1>2
<1>3. CASE prefixSum \in Written /\ Base = EndOf(prefixSum)
  <2>1. EndOf(prefixSum) \in Nat /\ One(prefixSum) \in Nat /\ div \in Nat
        /\ EndOf(prefixSum) = One(prefixSum) + 1 + div
    BY <1>3, WordIs
  <2>2. prefixSum < h
    BY <1>3, <2>1
  <2> QED
    BY <1>3, <2>1, <2>2, WordsInOrder
<1> QED
  BY <1>2, <1>3 DEF UnaryInv

LEMMA NoMoreWordsInv ==
  ASSUME GolombInv, NoMoreWords
  PROVE  GolombInv'
<1>1. /\ pc = "unary" /\ it >= size /\ pc' = "done" /\ UNCHANGED inputs
      /\ UNCHANGED <<arrIt, res>>
  BY DEF NoMoreWords, matching
<1>2. InputsInv /\ ResInv /\ StringInv /\ UnaryInv
  BY <1>1 DEF GolombInv
<1>3. /\ it \in Nat /\ offset \in Nat /\ size \in Nat /\ quotient \in Nat /\ prefixSum \in Nat
  BY <1>2, CharSizeAssumption DEF StringInv, StringOK, Bit
<1>4. Pos(size, 0) <= Pos(it, offset) /\ Pos(it, offset) \in Nat /\ Pos(size, 0) \in Nat
  <2>1. Pos(size, 0) <= Pos(it, 0) /\ 0 \in Nat
    BY <1>1, <1>3, PosGrows
  <2>2. Pos(it, offset) = Pos(it, 0) + offset /\ Pos(it, offset) \in Nat /\ Pos(size, 0) \in Nat
        /\ Pos(it, 0) \in Nat
    BY <1>3, <2>1, PosIs
  <2> QED
    BY <1>3, <2>1, <2>2
\* A word not yet read would have its one among the zeros read last.
<1>5. ASSUME NEW h \in Written, Base # 0 => prefixSum < h PROVE FALSE
  <2>1. Base <= Start(h) /\ Base \in Nat
    BY <1>2, <1>5, NotRead
  <2>2. /\ Start(h) \in Nat /\ One(h) \in Nat /\ EndOf(h) \in Nat /\ Start(h) <= One(h)
        /\ EndOf(h) = One(h) + 1 + div /\ div \in Nat
    BY <1>2, WordIs
  <2>3. EndOf(h) <= Pos(size, 0)
    BY <1>2 DEF StringInv
  <2>4. One(h) \in Base .. Pos(it, offset) - 1
    BY <1>4, <2>1, <2>2, <2>3
  <2>5. SetBit(One(h))
    BY DEF SetBit, WordBit
  <2> QED
    BY <1>2, <2>4, <2>5 DEF UnaryInv
<1>6. ASSUME NEW a \in arrIt .. clientSize - 1, clientHashes[a] \in Written PROVE FALSE
  <2> DEFINE h == clientHashes[a]
  <2>1. h \in Written /\ h \in Nat
    BY <1>2, <1>6, WrittenFinite
  <2>2. CASE Base = 0
    BY <1>5, <2>1, <2>2
  <2>3. CASE Base # 0
    <3>1. ~ (prefixSum < h)
      BY <1>5, <2>1
    <3>2. Past(prefixSum + 1)
      BY <1>2, <2>3 DEF UnaryInv
    <3>3. h < prefixSum + 1
      BY <1>3, <2>1, <3>1
    <3>4. h < clientHashes[a]
      BY <2>1, <3>2, <3>3 DEF Past
    <3> QED
      BY <2>1, <3>4
  <2> QED
    BY <2>2, <2>3
<1> QED
  BY <1>1, <1>6, Finished

LEMMA PowerZero == 2^0 = 1 /\ \A x \in Nat : x % 2^0 = 0
<1>1. Cardinality(SUBSET (1 .. 0)) = 2^0
  <2>1. 0 \in Nat
    OBVIOUS
  <2> QED
    BY <2>1, Subsets, Zenon
<1>2. SUBSET (1 .. 0) = {{}}
  OBVIOUS
<1>3. Cardinality({{}}) = 1
  BY FS_Singleton
<1>4. 2^0 = 1
  BY <1>1, <1>2, <1>3, Zenon
<1>5. \A x \in Nat : x % 1 = 0
  OBVIOUS
<1> QED
  BY <1>4, <1>5, Zenon

\* The next one in the string ends the unary part of the next word.
LEMMA NextOne ==
  ASSUME InputsInv, StringInv, UnaryInv, it < size, Unread # {}
  PROVE  /\ FE!Min(Unread) \in Bit /\ offset <= FE!Min(Unread)
         /\ \E h \in Written :
              /\ Pos(it, FE!Min(Unread)) = One(h)
              /\ Base = Start(h) /\ prefixSum = Before(h)
              /\ Past(h)
<1> DEFINE o == FE!Min(Unread)
           p == Pos(it, o)
<1>1. /\ it \in Nat /\ offset \in Bit /\ quotient \in Nat /\ prefixSum \in Nat /\ size \in Nat
      /\ offset \in Nat /\ offset < CharSize /\ CharSize \in Nat \ {0}
      /\ it \in 0 .. size - 1 /\ bytes[it] \in SUBSET Bit
  BY CharSizeAssumption DEF StringInv, StringOK, Bit
<1>2. /\ o \in Unread /\ \A b \in Unread : o <= b
  <2>1. Unread \in SUBSET Nat
    BY <1>1 DEF Unread, Bit
  <2> QED
    BY <2>1, Smallest
<1> HIDE DEF o
<1>3. o \in Bit /\ o \in bytes[it] /\ offset <= o /\ o \in Nat
  BY <1>1, <1>2 DEF Unread, Bit
<1>4. /\ p = Pos(it, 0) + o /\ Pos(it, 0) \in Nat /\ p \in Nat
      /\ Pos(it, offset) = Pos(it, 0) + offset
  <2>1. 0 \in Nat
    OBVIOUS
  <2> QED
    BY <1>1, <1>3, <2>1, PosIs
<1>5. SetBit(p)
  BY <1>1, <1>3 DEF StringInv
<1>6. Base \in Int /\ Base <= Pos(it, offset)
  BY <1>1, <1>4 DEF Base
<1> HIDE DEF p
<1>7. ASSUME NEW q \in Base .. p - 1 PROVE ~ SetBit(q)
  <2>1. CASE q < Pos(it, offset)
    <3>1. q \in Base .. Pos(it, offset) - 1
      BY <1>1, <1>4, <1>6, <2>1
    <3> QED
      BY <3>1 DEF UnaryInv
  <2>2. CASE ~ (q < Pos(it, offset))
    <3> DEFINE b == q - Pos(it, 0)
    <3>1. b \in Bit /\ q = Pos(it, 0) + b /\ b >= offset /\ b \in Nat /\ b < o
      BY <1>1, <1>3, <1>4, <1>6, <2>2 DEF Bit
    <3>2. Pos(it, b) = q
      BY <1>1, <3>1, PosIs
    <3> HIDE DEF b
    <3>3. b \in bytes[it] <=> SetBit(q)
      BY <1>1, <3>1, <3>2 DEF StringInv
    <3>4. b \notin Unread
      BY <1>2, <1>3, <3>1
    <3> QED
      BY <3>1, <3>3, <3>4 DEF Unread
  <2> QED
    BY <2>1, <2>2
<1>8. PICK h \in Written : WordBit(h, p)
  BY <1>5 DEF SetBit
<1>9. /\ h \in Nat /\ Start(h) \in Nat /\ One(h) \in Nat /\ EndOf(h) \in Nat
      /\ Start(h) <= One(h) /\ One(h) <= p /\ p < EndOf(h)
  BY <1>2, <1>4, <1>8, WordIs, WordBitInside
<1>10. Base # 0 => /\ prefixSum \in Written /\ Base = EndOf(prefixSum)
                   /\ Past(prefixSum + 1)
  BY DEF UnaryInv
<1>11. Base # 0 => prefixSum < h
  <2> SUFFICES ASSUME Base # 0, h <= prefixSum PROVE FALSE
    BY <1>1, <1>9
  <2>1. EndOf(h) <= EndOf(prefixSum) /\ EndOf(prefixSum) \in Nat
    BY <1>10, EndsInOrder, WordIs
  <2> QED
    BY <1>1, <1>3, <1>4, <1>6, <1>9, <1>10, <2>1
<1>12. Base <= Start(h) /\ Base \in Nat
  BY <1>11, NotRead
<1>13. One(h) = p
  <2> SUFFICES ASSUME One(h) # p PROVE FALSE
    OBVIOUS
  <2>1. One(h) \in Base .. p - 1
    BY <1>4, <1>9, <1>12
  <2>2. SetBit(One(h))
    BY DEF SetBit, WordBit
  <2> QED
    BY <1>7, <2>1, <2>2
\* No word is left out.
<1>14. ASSUME NEW g \in Written, g < h, Base # 0 => prefixSum < g PROVE FALSE
  <2>1. Base <= Start(g)
    BY <1>14, NotRead
  <2>2. /\ One(g) \in Nat /\ Start(g) \in Nat /\ Start(g) <= One(g) /\ EndOf(g) \in Nat
        /\ EndOf(g) = One(g) + 1 + div /\ div \in Nat
    BY WordIs
  <2>3. EndOf(g) <= Start(h)
    BY <1>14, WordsInOrder
  <2>4. One(g) \in Base .. p - 1
    BY <1>4, <1>9, <1>12, <2>1, <2>2, <2>3
  <2>5. SetBit(One(g))
    BY DEF SetBit, WordBit
  <2> QED
    BY <1>7, <2>4, <2>5
<1>15. Base = Start(h) /\ prefixSum = Before(h) /\ Past(h)
  <2>1. CASE Base = 0
    <3>1. \A g \in Written : ~ (g < h)
      BY <1>14, <2>1
    <3>2. Start(h) = 0 /\ Before(h) = 0
      BY <3>1, Words
    <3>3. prefixSum = 0
      <4> SUFFICES ASSUME prefixSum # 0 PROVE FALSE
        OBVIOUS
      <4>1. prefixSum \in Written /\ Base = EndOf(prefixSum)
        BY DEF UnaryInv
      <4>2. EndOf(prefixSum) = One(prefixSum) + 1 + div /\ One(prefixSum) \in Nat /\ div \in Nat
        BY <4>1, WordIs
      <4> QED
        BY <2>1, <4>1, <4>2
    <3> QED
      BY <2>1, <3>1, <3>2, <3>3 DEF Past
  <2>2. CASE Base # 0
    <3>1. prefixSum \in Written /\ Base = EndOf(prefixSum) /\ Past(prefixSum + 1) /\ prefixSum < h
      BY <1>10, <1>11, <2>2
    <3>2. Before(h) \in Written /\ Before(h) < h /\ prefixSum <= Before(h)
      BY <1>9, <3>1, BeforeWritten
    <3>3. ~ (prefixSum < Before(h))
      BY <1>14, <3>2
    <3>4. Before(h) \in Nat
      BY <3>2, WordIs
    <3>5. prefixSum = Before(h)
      BY <1>1, <3>2, <3>3, <3>4
    <3>6. Start(h) = EndOf(Before(h))
      BY <3>2, Words
    <3>7. \A g \in Written : g < h => g < prefixSum + 1
      <4>1. \A g \in Written : g \in Nat /\ (g < h => ~ (prefixSum < g))
        BY <1>14, WrittenFinite
      <4> QED
        BY <1>1, <4>1
    <3> QED
      BY <3>1, <3>5, <3>6, <3>7 DEF Past
  <2> QED
    BY <2>1, <2>2
<1> QED
  BY <1>3, <1>13, <1>15 DEF o, p

LEMMA EndUnaryInv ==
  ASSUME GolombInv, EndUnary
  PROVE  GolombInv'
<1> DEFINE o == FE!Min(Unread)
<1>1. /\ pc = "unary" /\ it < size /\ Unread # {} /\ oneIdx' = o
      /\ quotient' = quotient + o - offset /\ binaryStart' = (o + 1) % CharSize
      /\ it' = (IF binaryStart' = 0 THEN it + 1 ELSE it)
      /\ binaryIdx' = 0 /\ remainder' = 0 /\ pc' = "binary"
      /\ UNCHANGED inputs /\ UNCHANGED <<bytes, size>> /\ UNCHANGED <<arrIt, res>>
      /\ UNCHANGED <<offset, prefixSum>>
  BY DEF EndUnary
<1>2. InputsInv /\ ResInv /\ StringInv /\ UnaryInv
  BY <1>1 DEF GolombInv
<1>3. /\ it \in Nat /\ offset \in Bit /\ quotient \in Nat /\ prefixSum \in Nat /\ size \in Nat
      /\ offset \in Nat /\ CharSize \in Nat \ {0}
  BY <1>2, CharSizeAssumption DEF StringInv, StringOK, Bit
<1> HIDE DEF o
<1>4. /\ o \in Bit /\ offset <= o
      /\ \E h \in Written : /\ Pos(it, o) = One(h) /\ Base = Start(h) /\ prefixSum = Before(h)
                            /\ Past(h)
  BY <1>1, <1>2, NextOne DEF o
<1>5. PICK h \in Written : /\ Pos(it, o) = One(h) /\ Base = Start(h) /\ prefixSum = Before(h)
                           /\ Past(h)
  BY <1>4
<1>6. /\ Start(h) \in Nat /\ One(h) \in Nat /\ One(h) = Start(h) + Delta(h) \div 2^div
      /\ Delta(h) \div 2^div \in Nat /\ Rest(h) \in Nat /\ div \in Nat
  <2>1. h \in Nat /\ div \in Nat
    BY <1>2, WordIs
  <2>2. Rest(h) \in 0 .. 2^div - 1 /\ 2^div \in Nat
    BY <1>2, <2>1, DeltaIs, Power
  <2>3. Rest(h) \in Nat
    BY <2>2
  <2> QED
    BY <1>2, <2>1, <2>3, WordIs, DeltaIs
<1>7. /\ o \in Nat /\ o < CharSize
      /\ Pos(it, o) = Pos(it, 0) + o /\ Pos(it, offset) = Pos(it, 0) + offset
      /\ Pos(it, 0) \in Nat /\ Pos(it + 1, 0) = Pos(it, 0) + CharSize
  <2>1. o \in Nat /\ o < CharSize
    BY <1>3, <1>4 DEF Bit
  <2> QED
    BY <1>3, <2>1, PosIs
<1>8. quotient' = Delta(h) \div 2^div
  <2> DEFINE d == Delta(h) \div 2^div
  <2>1. One(h) = Start(h) + d /\ d \in Nat
    BY <1>6
  <2> HIDE DEF d
  <2>2. quotient + o - offset = d
    BY <1>3, <1>5, <1>6, <1>7, <2>1 DEF Base
  <2> QED
    BY <1>1, <2>2 DEF d
<1>9. binaryStart' \in Bit /\ it' \in Nat /\ Pos(it', binaryStart') = One(h) + 1
  <2>1. CASE o + 1 = CharSize
    <3>1. binaryStart' = 0
      BY <1>1, <1>3, <2>1
    <3> QED
      BY <1>1, <1>3, <1>5, <1>7, <2>1, <3>1 DEF Bit
  <2>2. CASE o + 1 # CharSize
    <3>1. o + 1 \in Nat /\ o + 1 < CharSize
      BY <1>3, <1>7, <2>2
    <3>2. (o + 1) % CharSize = o + 1
      BY <1>3, <3>1
    <3>3. binaryStart' = o + 1 /\ it' = it
      BY <1>1, <1>7, <3>2
    <3>4. Pos(it, o + 1) = Pos(it, 0) + (o + 1)
      BY <1>3, <3>1, PosIs
    <3> QED
      BY <1>3, <1>5, <1>7, <3>1, <3>3, <3>4 DEF Bit
  <2> QED
    BY <2>1, <2>2
<1>10. StringInv'
  <2>1. quotient' \in Nat /\ it' \in Nat /\ offset' \in Bit /\ prefixSum' \in Nat
    BY <1>1, <1>3, <1>6, <1>8, <1>9 DEF Bit
  <2> QED
    BY <1>1, <1>2, <2>1, StringKept
<1>11. ReadUpTo(h)'
  <2>1. /\ Before(h)' = Before(h) /\ Delta(h)' = Delta(h) /\ One(h)' = One(h) /\ Rest(h)' = Rest(h)
    BY <1>1, KeptWords
  <2>2. div' = div
    BY <1>1, KeptInputs
  <2>3. Past(h)'
    BY <1>1, <1>2, <1>5, PastKept
  <2>4. prefixSum' = Before(h)' /\ quotient' = Delta(h)' \div 2^div'
    BY <1>1, <1>5, <1>8, <2>1, <2>2, Zenon
  <2>5. oneIdx' = One(h)' % CharSize
    <3>1. Pos(it, o) % CharSize = o
      BY <1>3, <1>4, ByteOf
    <3> QED
      BY <1>1, <1>5, <2>1, <3>1, Zenon
  <2>6. binaryIdx' \in 0 .. div'
    BY <1>1, <1>6, <2>2
  <2>7. remainder' = Rest(h)' % 2^binaryIdx'
    BY <1>1, <1>6, <2>1, PowerZero, Zenon
  <2>8. Pos(it, binaryStart)' = NextBit(h)'
    BY <1>1, <1>6, <1>9, <2>1 DEF NextBit, Pos
  <2>9. ~ (binaryIdx' > 0)
    BY <1>1
  <2>10. binaryStart' \in Bit'
    BY <1>9 DEF Bit
  <2> QED
    BY <2>3, <2>4, <2>5, <2>6, <2>7, <2>8, <2>9, <2>10, Zenon DEF ReadUpTo
<1>12. (\E g \in Written : ReadUpTo(g))'
  <2>1. Written' = Written
    BY <1>1, KeptInputs
  <2> QED
    BY <1>11, <2>1
<1> QED
  BY <1>1, <1>10, <1>12, Reading

\* While bits of a word are to be read, the byte at it has one.
LEMMA ReadInside ==
  ASSUME GolombInv, pc = "binary", binaryIdx < div, NEW h \in Written, ReadUpTo(h)
  PROVE  /\ it \in 0 .. size - 1 /\ Pos(it, binaryStart) = NextBit(h)
         /\ NextBit(h) < EndOf(h)
<1>1. InputsInv /\ StringInv
  BY DEF GolombInv
<1>2. /\ One(h) \in Nat /\ EndOf(h) \in Nat /\ EndOf(h) = One(h) + 1 + div /\ div \in Nat
  BY <1>1, WordIs
<1>3. binaryIdx \in Nat /\ binaryIdx # div /\ binaryStart \in Bit
  BY <1>2 DEF ReadUpTo
<1>4. Pos(it, binaryStart) = NextBit(h)
  BY <1>3 DEF ReadUpTo
<1>5. NextBit(h) < EndOf(h) /\ NextBit(h) \in Nat
  BY <1>2, <1>3 DEF NextBit
<1>6. EndOf(h) <= Pos(size, 0) /\ it \in Nat /\ size \in Nat
  BY <1>1 DEF StringInv, StringOK
<1>7. Pos(size, 0) \in Nat
  BY <1>6, PosIs
<1>8. it < size
  <2>1. Pos(it, binaryStart) < Pos(size, 0)
    BY <1>2, <1>4, <1>5, <1>6, <1>7
  <2> QED
    BY <1>3, <1>6, <2>1, PosOrder
<1> QED
  BY <1>4, <1>5, <1>6, <1>8

LEMMA ReadBitsInv ==
  ASSUME GolombInv, ReadBits
  PROVE  GolombInv'
<1> DEFINE n   == FE!Min({CharSize - binaryStart, div - binaryIdx})
           set == {b \in 0 .. n - 1 : binaryStart + b \in bytes[it]}
<1>1. /\ pc = "binary" /\ binaryIdx < div /\ pc' = "binary"
      /\ remainder' = remainder + FE!MapThenSumSet(LAMBDA b : 2^(binaryIdx + b), set)
      /\ binaryIdx' = binaryIdx + n /\ binaryStart' = 0 /\ it' = it + 1
      /\ UNCHANGED inputs /\ UNCHANGED <<bytes, size>> /\ UNCHANGED <<arrIt, res>>
      /\ UNCHANGED <<offset, quotient, oneIdx, prefixSum>>
  BY DEF ReadBits, matching
<1>2. InputsInv /\ ResInv /\ StringInv /\ \E h \in Written : ReadUpTo(h)
  BY <1>1 DEF GolombInv
<1>3. PICK h \in Written : ReadUpTo(h)
  BY <1>2
<1>4. /\ it \in 0 .. size - 1 /\ Pos(it, binaryStart) = NextBit(h) /\ NextBit(h) < EndOf(h)
  BY <1>1, <1>3, ReadInside
<1>5. /\ One(h) \in Nat /\ Start(h) \in Nat /\ Start(h) <= One(h) /\ EndOf(h) \in Nat
      /\ EndOf(h) = One(h) + 1 + div /\ div \in Nat /\ h \in Nat
  BY <1>2, WordIs
<1>6. /\ it \in Nat /\ offset \in Bit /\ quotient \in Nat /\ prefixSum \in Nat /\ size \in Nat
      /\ binaryStart \in Bit /\ binaryStart \in Nat /\ binaryStart < CharSize
      /\ binaryIdx \in Nat /\ CharSize \in Nat \ {0}
  BY <1>2, <1>3, <1>4, <1>5, CharSizeAssumption DEF StringInv, StringOK, Bit, ReadUpTo
<1>7. /\ n \in Nat \ {0} /\ n <= CharSize - binaryStart /\ n <= div - binaryIdx
      /\ n = CharSize - binaryStart \/ n = div - binaryIdx
  <2> DEFINE S == {CharSize - binaryStart, div - binaryIdx}
  <2>0. div - binaryIdx \in Nat \ {0} /\ CharSize - binaryStart \in Nat \ {0}
    <3>1. binaryIdx \in Nat /\ div \in Nat /\ binaryIdx < div /\ CharSize \in Nat
          /\ binaryStart \in Nat /\ binaryStart < CharSize
      BY <1>1, <1>5, <1>6, Zenon
    <3> HIDE DEF n, set, S
    <3> QED
      BY <3>1
  <2>1. S \in SUBSET Nat /\ S # {} /\ \A i \in S : i # 0
    BY <2>0
  <2>2. n \in S /\ \A i \in S : n <= i
    <3>1. n = FE!Min(S)
      OBVIOUS
    <3> HIDE DEF S, n
    <3> QED
      BY <2>1, <3>1, Smallest
  <2> HIDE DEF n
  <2> QED
    BY <2>1, <2>2
<1>8. Rest(h) \in Nat
  <2>1. Rest(h) \in 0 .. 2^div - 1 /\ 2^div \in Nat
    BY <1>2, <1>5, DeltaIs, Power
  <2> QED
    BY <2>1
<1> HIDE DEF n
\* The bits read are bits of the rest.
<1>9. ASSUME NEW b \in 0 .. n - 1
      PROVE  binaryStart + b \in bytes[it] <=> BitOf(Rest(h), binaryIdx + b)
  <2> DEFINE c == binaryStart + b
             p == Pos(it, c)
  <2>1. b \in Nat /\ c \in Nat /\ c \in Bit /\ c = binaryStart + b /\ binaryIdx + b < div
        /\ binaryIdx + b \in Nat
    BY <1>5, <1>6, <1>7 DEF Bit
  <2> HIDE DEF c
  <2>2. p = One(h) + 1 + (binaryIdx + b)
    <3>1. /\ p = Pos(it, 0) + c /\ Pos(it, 0) \in Nat
          /\ Pos(it, binaryStart) = Pos(it, 0) + binaryStart
      BY <1>6, <2>1, PosIs
    <3> HIDE DEF p
    <3>2. NextBit(h) = One(h) + 1 + binaryIdx
      BY Zenon DEF NextBit
    <3> DEFINE X == Pos(it, 0)
               o == One(h)
    <3>3. o \in Nat /\ X \in Nat /\ p = X + c /\ X + binaryStart = o + 1 + binaryIdx
      BY <1>4, <1>5, <3>1, <3>2, Zenon
    <3> HIDE DEF X, o
    <3>4. p = o + 1 + (binaryIdx + b)
      BY <1>6, <2>1, <3>3
    <3> QED
      BY <3>4 DEF o
  <2>3. c \in bytes[it] <=> SetBit(p)
    BY <1>2, <1>4, <2>1 DEF StringInv
  <2> HIDE DEF p
  <2>4. /\ p \in Nat /\ Start(h) <= p /\ p < EndOf(h) /\ One(h) < p /\ p # One(h)
        /\ p - One(h) - 1 = binaryIdx + b
    BY <1>5, <2>1, <2>2
  <2>5. SetBit(p) <=> WordBit(h, p)
    BY <1>2, <2>4, OwnBits
  <2>6. WordBit(h, p) <=> BitOf(Rest(h), binaryIdx + b)
    BY <2>4, Zenon DEF WordBit
  <2> QED
    BY <2>1, <2>3, <2>5, <2>6
<1>10. remainder' = Rest(h) % 2^binaryIdx'
  <2>1. set = {b \in 0 .. n - 1 : BitOf(Rest(h), binaryIdx + b)}
    BY <1>9
  <2>2. remainder' = remainder + PowerSum(binaryIdx, set)
    BY <1>1 DEF PowerSum
  <2> HIDE DEF set
  <2>3. remainder = Rest(h) % 2^binaryIdx
    BY <1>3 DEF ReadUpTo
  <2>4. (Rest(h) % 2^binaryIdx)
          + PowerSum(binaryIdx, {b \in 0 .. n - 1 : BitOf(Rest(h), binaryIdx + b)})
          = Rest(h) % 2^(binaryIdx + n)
    <3>1. n \in Nat
      BY <1>7
    <3> QED
      BY <1>6, <1>8, <3>1, MoreBits
  <2> QED
    BY <1>1, <2>1, <2>2, <2>3, <2>4, Zenon
<1>11. StringInv'
  <2>1. it' \in Nat /\ offset' \in Bit /\ quotient' \in Nat /\ prefixSum' \in Nat
    <3>1. it + 1 \in Nat
      BY <1>6
    <3> QED
      BY <1>1, <1>6, <3>1
  <2> QED
    BY <1>1, <1>2, <2>1, StringKept
<1>12. ReadUpTo(h)'
  <2>1. /\ Before(h)' = Before(h) /\ Delta(h)' = Delta(h) /\ One(h)' = One(h) /\ Rest(h)' = Rest(h)
    BY <1>1, KeptWords
  <2>2. div' = div
    BY <1>1, KeptInputs
  <2>3. Past(h)'
    <3>1. Past(h)
      BY <1>3 DEF ReadUpTo
    <3> QED
      BY <1>1, <1>2, <3>1, PastKept
  <2>4. /\ prefixSum' = Before(h)' /\ quotient' = Delta(h)' \div 2^div'
        /\ oneIdx' = One(h)' % CharSize
    <3>1. prefixSum = Before(h) /\ quotient = Delta(h) \div 2^div /\ oneIdx = One(h) % CharSize
      BY <1>3 DEF ReadUpTo
    <3>2. prefixSum' = prefixSum /\ quotient' = quotient /\ oneIdx' = oneIdx
      BY <1>1
    <3> QED
      BY <2>1, <2>2, <3>1, <3>2, Zenon
  <2>5. binaryIdx' \in 0 .. div'
    <3>1. binaryIdx + n \in 0 .. div
      BY <1>5, <1>6, <1>7
    <3> QED
      BY <1>1, <2>2, <3>1
  <2>6. remainder' = Rest(h)' % 2^binaryIdx'
    BY <1>10, <2>1, Zenon
  <2>7. \/ Pos(it, binaryStart)' = NextBit(h)'
        \/ /\ binaryIdx' = div' /\ div' > 0
           /\ Pos(it, 0)' < NextBit(h)' + CharSize /\ NextBit(h)' < Pos(it, 0)'
    <3> DEFINE X == Pos(it, 0)
               o == One(h)
    <3>1. 0 \in Nat
      OBVIOUS
    <3>2. /\ Pos(it, binaryStart) = X + binaryStart /\ X \in Nat /\ Pos(it + 1, 0) = X + CharSize
      BY <1>6, <3>1, PosIs
    <3>3. X + binaryStart = o + 1 + binaryIdx /\ o \in Nat
      BY <1>4, <1>5, <3>2, Zenon DEF NextBit
    <3>4. NextBit(h)' = o + 1 + (binaryIdx + n)
      BY <1>1, <2>1 DEF NextBit
    <3>5. Pos(it, binaryStart)' = X + CharSize /\ Pos(it, 0)' = X + CharSize
      BY <1>1, <3>2 DEF Pos
    <3> HIDE DEF X, o
    <3>6. CASE n = CharSize - binaryStart
      <4>1. X + CharSize = o + 1 + (binaryIdx + n)
        BY <1>6, <3>2, <3>3, <3>6
      <4> QED
        BY <3>4, <3>5, <4>1, Zenon
    <3>7. CASE n # CharSize - binaryStart
      <4>1. n = div - binaryIdx /\ n < CharSize - binaryStart
        BY <1>6, <1>7, <3>7
      <4>2. /\ binaryIdx + n = div /\ div > 0
            /\ X + CharSize < o + 1 + (binaryIdx + n) + CharSize
            /\ o + 1 + (binaryIdx + n) < X + CharSize
        BY <1>5, <1>6, <1>7, <3>2, <3>3, <4>1
      <4>3. binaryIdx' = div' /\ div' > 0
        BY <1>1, <2>2, <4>2
      <4>4. Pos(it, 0)' < NextBit(h)' + CharSize
        BY <3>4, <3>5, <4>2
      <4>5. NextBit(h)' < Pos(it, 0)'
        BY <3>4, <3>5, <4>2
      <4> QED
        BY <4>3, <4>4, <4>5, Zenon
    <3> QED
      BY <3>6, <3>7
  <2>8. binaryStart' \in Bit' /\ (binaryIdx' > 0 => binaryStart' = 0)
    <3>1. 0 \in Bit
      BY <1>6 DEF Bit
    <3> QED
      BY <1>1, <3>1 DEF Bit
  <2> QED
    BY <2>3, <2>4, <2>5, <2>6, <2>7, <2>8, Zenon DEF ReadUpTo
<1>13. (\E g \in Written : ReadUpTo(g))'
  <2>1. Written' = Written
    BY <1>1, KeptInputs
  <2> QED
    BY <1>12, <2>1
<1> QED
  BY <1>1, <1>11, <1>13, Reading

LEMMA EndWordInv ==
  ASSUME GolombInv, EndWord
  PROVE  GolombInv'
<1>1. /\ pc = "binary" /\ binaryIdx >= div /\ pc' = "match"
      /\ offset' = (oneIdx + 1 + div) % CharSize
      /\ it' = it - TakenBack(offset')
      /\ prefixSum' = prefixSum + quotient * 2^div + remainder
      /\ UNCHANGED inputs /\ UNCHANGED <<bytes, size>> /\ UNCHANGED <<arrIt, res>>
      /\ quotient' = quotient
  BY DEF EndWord
<1>2. InputsInv /\ ResInv /\ StringInv /\ \E h \in Written : ReadUpTo(h)
  BY <1>1 DEF GolombInv
<1>3. PICK h \in Written : ReadUpTo(h)
  BY <1>2
<1>4. /\ One(h) \in Nat /\ EndOf(h) \in Nat /\ EndOf(h) = One(h) + 1 + div
      /\ div \in Nat /\ h \in Nat
  BY <1>2, WordIs
<1>5. binaryIdx = div
  BY <1>1, <1>3, <1>4 DEF ReadUpTo
<1>6. /\ it \in Nat /\ quotient \in Nat /\ binaryStart \in Bit /\ binaryStart \in Nat
      /\ CharSize \in Nat \ {0} /\ 0 \in Bit /\ size \in Nat
  BY <1>2, <1>3, CharSizeAssumption DEF StringInv, StringOK, Bit, ReadUpTo
<1>7. NextBit(h) = EndOf(h)
  BY <1>4, <1>5 DEF NextBit
\* The bit after the word's last one.
<1>8. offset' = EndOf(h) % CharSize
  <2> DEFINE q == One(h) \div CharSize
             t == oneIdx + 1 + div
             e == t \div CharSize
             r == t % CharSize
             a == CharSize * q
             f == CharSize * e
  <2>1. oneIdx = One(h) % CharSize
    BY <1>3 DEF ReadUpTo
  <2>2. q \in Nat /\ oneIdx \in 0 .. CharSize - 1 /\ One(h) = a + oneIdx
    BY <1>4, <1>6, <2>1, Division
  <2>3. t \in Nat
    BY <1>4, <1>6, <2>2
  <2>4. e \in Nat /\ r \in 0 .. CharSize - 1 /\ t = f + r
    <3> HIDE DEF t
    <3> QED
      BY <1>6, <2>3, Division
  <2> HIDE DEF q, e, r
  <2>5. CharSize * (q + e) = a + f /\ a \in Nat /\ f \in Nat
    BY <1>6, <2>2, <2>4, SMT
  <2>6. EndOf(h) = a + t
    <3> HIDE DEF a
    <3> QED
      BY <1>4, <1>6, <2>2, <2>5
  <2>7. EndOf(h) = CharSize * (q + e) + r
    <3> HIDE DEF a, f, t
    <3> QED
      BY <1>6, <2>3, <2>4, <2>5, <2>6
  <2>8. q + e \in Nat
    BY <2>2, <2>4
  <2>9. (CharSize * (q + e) + r) % CharSize = r
    BY <1>6, <2>4, <2>8, QuotientIs
  <2> QED
    BY <1>1, <2>7, <2>9, Zenon DEF r, t
<1> DEFINE k == EndOf(h) \div CharSize
           b == EndOf(h) % CharSize
<1>9. k \in Nat /\ b \in Bit /\ b \in Nat /\ Pos(k, b) = EndOf(h) /\ offset' = b
  BY <1>4, <1>6, <1>8, PosOf DEF Bit
<1> HIDE DEF k, b
<1>10. it' = k
  <2>1. CASE Pos(it, binaryStart) = NextBit(h)
    <3>1. it = k /\ binaryStart = b
      BY <1>6, <1>7, <1>9, <2>1, PosOrder
    <3>2. div > 0 => b = 0
      BY <1>3, <1>5, <3>1 DEF ReadUpTo
    <3>3. TakenBack(offset') = 0
      BY <1>9, <3>2 DEF TakenBack
    <3> QED
      BY <1>1, <1>6, <3>1, <3>3
  <2>2. CASE div > 0 /\ Pos(it, 0) < NextBit(h) + CharSize /\ NextBit(h) < Pos(it, 0)
    <3>1. k < it
      BY <1>6, <1>7, <1>9, <2>2, PosOrder
    <3> DEFINE i == it - 1
    <3>2. i \in Nat /\ it = i + 1
      BY <1>6, <1>9, <3>1
    <3> HIDE DEF i
    <3>3. Pos(it, 0) = Pos(i, 0) + CharSize /\ Pos(i, 0) \in Nat
      BY <1>6, <3>2, PosIs
    <3>4. Pos(i, 0) < Pos(k, b)
      BY <1>4, <1>6, <1>7, <1>9, <2>2, <3>3
    <3>5. i < k \/ (i = k /\ 0 < b)
      BY <1>6, <1>9, <3>2, <3>4, PosOrder
    <3>6. i = k /\ b # 0
      BY <1>6, <1>9, <3>1, <3>2, <3>5
    <3>7. TakenBack(offset') = 1
      BY <1>9, <2>2, <3>6 DEF TakenBack
    <3> QED
      BY <1>1, <3>2, <3>6, <3>7
  <2> QED
    BY <1>3, <2>1, <2>2 DEF ReadUpTo
<1>11. prefixSum' = h
  <2> DEFINE m == 2^div
             d == Delta(h) \div m
  <2>1. /\ h = Before(h) + Delta(h) /\ Before(h) \in Nat /\ Delta(h) \in Nat
        /\ d \in Nat /\ Rest(h) \in 0 .. m - 1 /\ Delta(h) = m * d + Rest(h) /\ m \in Nat \ {0}
    BY <1>2, <1>4, DeltaIs, BeforeIs, Power
  <2>2. prefixSum = Before(h) /\ quotient = d /\ remainder = Rest(h) % m
    BY <1>3, <1>5 DEF ReadUpTo
  <2>3. prefixSum' = prefixSum + quotient * m + remainder
    BY <1>1
  <2> HIDE DEF m, d
  <2>4. remainder = Rest(h)
    <3>1. Rest(h) \in Nat /\ m * 0 + Rest(h) = Rest(h)
      BY <2>1
    <3>2. 0 \in Nat
      OBVIOUS
    <3>3. (m * 0 + Rest(h)) % m = Rest(h)
      BY <2>1, <3>2, QuotientIs
    <3> QED
      BY <2>2, <3>1, <3>3, Zenon
  <2>5. quotient * m = m * d /\ m * d \in Nat
    BY <2>1, <2>2, SMT
  <2> DEFINE x == m * d
  <2>6. prefixSum' = Before(h) + x + Rest(h) /\ Delta(h) = x + Rest(h) /\ x \in Nat
    BY <2>1, <2>2, <2>3, <2>4, <2>5, Zenon
  <2>7. Rest(h) \in Nat
    BY <2>1
  <2> HIDE DEF x
  <2> QED
    BY <2>1, <2>6, <2>7
<1>12. StringInv'
  BY <1>1, <1>2, <1>4, <1>6, <1>9, <1>10, <1>11, StringKept DEF Bit
<1>13. MatchInv'
  <2>1. Written' = Written
    BY <1>1, KeptInputs
  <2>2. \A g : EndOf(g)' = EndOf(g)
    BY <1>1, KeptWords
  <2>3. Past(h)'
    <3>1. Past(h)
      BY <1>3 DEF ReadUpTo
    <3> QED
      BY <1>1, <1>2, <3>1, PastKept
  <2>4. Pos(it, offset)' = EndOf(h)
    BY <1>9, <1>10 DEF Pos
  <2>5. EndOf(prefixSum)' = EndOf(h)
    BY <1>11, <2>2
  <2>6. Past(prefixSum)'
    BY <1>11, <2>3 DEF Past
  <2> QED
    BY <1>11, <2>1, <2>4, <2>5, <2>6 DEF MatchInv
<1> QED
  BY <1>1, <1>12, <1>13, Reading

\* The walk over the client's hashes.
LEMMA AdvanceClientInv ==
  ASSUME GolombInv, AdvanceClient
  PROVE  GolombInv'
<1>1. /\ pc = "match" /\ arrIt < clientSize /\ clientHashes[arrIt] < prefixSum
      /\ arrIt' = arrIt + 1 /\ UNCHANGED inputs /\ UNCHANGED <<bytes, size, it>>
      /\ UNCHANGED <<offset, quotient, prefixSum, res, pc>>
  BY DEF AdvanceClient, writing
<1>2. InputsInv /\ ResInv /\ StringInv /\ MatchInv
  BY <1>1 DEF GolombInv
<1>3. /\ arrIt \in 0 .. clientSize - 1 /\ clientSize \in Nat /\ prefixSum \in Nat
      /\ it \in Nat /\ offset \in Bit /\ quotient \in Nat
  BY <1>1, <1>2 DEF ResInv, InputsInv, StringInv
<1>4. clientHashes[arrIt] \notin Written
  <2> SUFFICES ASSUME clientHashes[arrIt] \in Written PROVE FALSE
    OBVIOUS
  <2>1. arrIt \in arrIt .. clientSize - 1 /\ clientHashes[arrIt] \in Nat
    BY <1>2, <1>3, WrittenFinite
  <2>2. clientHashes[arrIt] < clientHashes[arrIt]
    BY <1>1, <1>2, <2>1 DEF MatchInv, Past
  <2> QED
    BY <2>1, <2>2
<1>5. /\ InputsInv' /\ Written' = Written
      /\ clientHashes' = clientHashes /\ clientSize' = clientSize
  BY <1>1, <1>2, KeptInputs, KeptInputsInv
<1>6. ResInv'
  <2>1. {a \in 0 .. arrIt' - 1 : clientHashes[a] \in Written}
          = {a \in 0 .. arrIt - 1 : clientHashes[a] \in Written}
    <3>1. \A a : a \in 0 .. arrIt' - 1 <=> a \in 0 .. arrIt - 1 \/ a = arrIt
      BY <1>1, <1>3
    <3> QED
      BY <1>4, <3>1
  <2>2. arrIt' \in 0 .. clientSize
    BY <1>1, <1>3
  <2>3. /\ res \in Seq(0 .. clientSize - 1)
        /\ {res[p] : p \in 1 .. Len(res)} = {a \in 0 .. arrIt - 1 : clientHashes[a] \in Written}
        /\ \A p, q \in 1 .. Len(res) : p < q => res[p] < res[q]
    BY <1>2 DEF ResInv
  <2>4. res' = res
    BY <1>1
  <2> QED
    BY <1>5, <2>1, <2>2, <2>3, <2>4, Zenon DEF ResInv
<1>7. StringInv'
  BY <1>1, <1>2, <1>3, StringKept DEF Bit
<1>8. MatchInv'
  <2>1. \A g : EndOf(g)' = EndOf(g)
    BY <1>1, KeptWords
  <2>2. \A g : Past(g) => Past(g)'
    BY <1>1, <1>2, PastKept
  <2>3. Past(prefixSum) /\ prefixSum \in Written /\ Pos(it, offset) = EndOf(prefixSum)
    BY <1>2 DEF MatchInv
  <2>4. Past(prefixSum)'
    BY <1>1, <2>2, <2>3
  <2>5. Pos(it, offset)' = EndOf(prefixSum)'
    BY <1>1, <2>1, <2>3 DEF Pos
  <2> QED
    BY <1>1, <1>5, <2>3, <2>4, <2>5 DEF MatchInv
<1> QED
  BY <1>1, <1>5, <1>6, <1>7, <1>8 DEF GolombInv, IntersectionIsExact

LEMMA HitInv ==
  ASSUME GolombInv, Hit
  PROVE  GolombInv'
<1>1. /\ pc = "match" /\ arrIt < clientSize /\ clientHashes[arrIt] = prefixSum
      /\ arrIt' = arrIt + 1 /\ UNCHANGED inputs /\ UNCHANGED <<bytes, size, it>>
      /\ UNCHANGED <<offset, quotient, prefixSum, pc>> /\ res' = Append(res, arrIt)
  BY DEF Hit, writing
<1>2. InputsInv /\ ResInv /\ StringInv /\ MatchInv
  BY <1>1 DEF GolombInv
<1>3. /\ arrIt \in 0 .. clientSize - 1 /\ clientSize \in Nat /\ prefixSum \in Nat
      /\ it \in Nat /\ offset \in Bit /\ quotient \in Nat
  BY <1>1, <1>2 DEF ResInv, InputsInv, StringInv
<1>4. clientHashes[arrIt] \in Written
  BY <1>1, <1>2 DEF MatchInv
<1>5. /\ InputsInv' /\ Written' = Written
      /\ clientHashes' = clientHashes /\ clientSize' = clientSize
  BY <1>1, <1>2, KeptInputs, KeptInputsInv
<1>6. /\ res \in Seq(0 .. clientSize - 1)
      /\ {res[p] : p \in 1 .. Len(res)} = {a \in 0 .. arrIt - 1 : clientHashes[a] \in Written}
      /\ \A p, q \in 1 .. Len(res) : p < q => res[p] < res[q]
  BY <1>2 DEF ResInv
<1>7. /\ res' \in Seq(0 .. clientSize - 1) /\ Len(res') = Len(res) + 1 /\ Len(res) \in Nat
      /\ res'[Len(res) + 1] = arrIt /\ \A p \in 1 .. Len(res) : res'[p] = res[p]
  BY <1>1, <1>3, <1>6
<1>8. {res'[p] : p \in 1 .. Len(res')} = {a \in 0 .. arrIt' - 1 : clientHashes[a] \in Written}
  <2>1. \A p : p \in 1 .. Len(res') <=> p \in 1 .. Len(res) \/ p = Len(res) + 1
    BY <1>7
  <2>2. {res'[p] : p \in 1 .. Len(res')} = {res[p] : p \in 1 .. Len(res)} \cup {arrIt}
    BY <1>7, <2>1
  <2>3. \A a : a \in 0 .. arrIt' - 1 <=> a \in 0 .. arrIt - 1 \/ a = arrIt
    BY <1>1, <1>3
  <2>4. {a \in 0 .. arrIt' - 1 : clientHashes[a] \in Written}
          = {a \in 0 .. arrIt - 1 : clientHashes[a] \in Written} \cup {arrIt}
    BY <1>4, <2>3
  <2> QED
    BY <1>6, <2>2, <2>4, Zenon
<1>9. \A p, q \in 1 .. Len(res') : p < q => res'[p] < res'[q]
  <2>1. \A p \in 1 .. Len(res) : res[p] \in 0 .. arrIt - 1
    BY <1>6
  <2>2. \A p \in 1 .. Len(res) : res[p] < arrIt
    BY <1>3, <2>1
  <2>3. \A p, q \in 1 .. Len(res') : p < q =>
          p \in 1 .. Len(res) /\ (q \in 1 .. Len(res) \/ q = Len(res) + 1)
    BY <1>7
  <2> QED
    BY <1>6, <1>7, <2>2, <2>3
<1>10. ResInv'
  <2>1. arrIt' \in 0 .. clientSize
    BY <1>1, <1>3
  <2> QED
    BY <1>5, <1>7, <1>8, <1>9, <2>1, Zenon DEF ResInv
<1>11. StringInv'
  BY <1>1, <1>2, <1>3, StringKept DEF Bit
<1>12. MatchInv'
  <2>1. \A g : EndOf(g)' = EndOf(g)
    BY <1>1, KeptWords
  <2>2. \A g : Past(g) => Past(g)'
    BY <1>1, <1>2, PastKept
  <2>3. Past(prefixSum) /\ prefixSum \in Written /\ Pos(it, offset) = EndOf(prefixSum)
    BY <1>2 DEF MatchInv
  <2>4. Past(prefixSum)'
    BY <1>1, <2>2, <2>3
  <2>5. Pos(it, offset)' = EndOf(prefixSum)'
    BY <1>1, <2>1, <2>3 DEF Pos
  <2> QED
    BY <1>1, <1>5, <2>3, <2>4, <2>5 DEF MatchInv
<1> QED
  BY <1>1, <1>5, <1>10, <1>11, <1>12 DEF GolombInv, IntersectionIsExact

LEMMA NextWordInv ==
  ASSUME GolombInv, NextWord
  PROVE  GolombInv'
<1>1. /\ pc = "match" /\ (arrIt < clientSize => clientHashes[arrIt] > prefixSum)
      /\ quotient' = 0 /\ pc' = (IF arrIt = clientSize THEN "done" ELSE "unary")
      /\ UNCHANGED inputs /\ UNCHANGED <<bytes, size, it>>
      /\ UNCHANGED <<offset, prefixSum>> /\ UNCHANGED <<arrIt, res>>
  BY DEF NextWord, writing
<1>2. InputsInv /\ ResInv /\ StringInv /\ MatchInv
  BY <1>1 DEF GolombInv
<1>3. /\ arrIt \in 0 .. clientSize /\ clientSize \in Nat /\ prefixSum \in Nat
      /\ it \in Nat /\ offset \in Bit /\ offset \in Nat /\ size \in Nat
  BY <1>2, CharSizeAssumption DEF ResInv, InputsInv, StringInv, StringOK, Bit
<1>4. CASE arrIt = clientSize
  <2>1. \A a \in arrIt .. clientSize - 1 : clientHashes[a] \notin Written
    BY <1>3, <1>4
  <2> QED
    BY <1>1, <1>4, <2>1, Finished
<1>5. CASE arrIt # clientSize
  <2>1. arrIt \in 0 .. clientSize - 1 /\ clientHashes[arrIt] > prefixSum /\ pc' = "unary"
    BY <1>1, <1>3, <1>5
  <2>2. StringInv'
    <3>1. quotient' \in Nat /\ it' \in Nat /\ offset' \in Bit /\ prefixSum' \in Nat
      BY <1>1, <1>3 DEF Bit
    <3> QED
      BY <1>1, <1>2, <3>1, StringKept
  <2>3. prefixSum \in Written /\ Pos(it, offset) = EndOf(prefixSum) /\ Past(prefixSum)
    BY <1>2 DEF MatchInv
  \* The hash found or passed is behind the client, too.
  <2>4. Past(prefixSum + 1)
    <3> SUFFICES ASSUME NEW a \in arrIt .. clientSize - 1, NEW g \in Written, g < prefixSum + 1
                 PROVE  g < clientHashes[a]
      BY DEF Past
    <3>1. g \in Nat
      BY <1>2, WrittenFinite
    <3>2. CASE g < prefixSum
      BY <2>3, <3>2 DEF Past
    <3>3. CASE g = prefixSum
      <4>1. \A c \in 0 .. clientSize - 1 : clientHashes[c] \in Nat
        BY <1>2, GolombAssumption DEF InputsInv, Ascending
      <4>2. \A c, d \in 0 .. clientSize - 1 : c < d => clientHashes[c] <= clientHashes[d]
        BY <1>2 DEF InputsInv, Ascending
      <4>3. a \in 0 .. clientSize - 1 /\ (arrIt < a \/ arrIt = a)
        BY <1>3
      <4>4. clientHashes[arrIt] <= clientHashes[a]
        BY <2>1, <4>1, <4>2, <4>3
      <4> QED
        BY <2>1, <3>1, <3>3, <4>1, <4>3, <4>4
    <3> QED
      BY <1>3, <3>1, <3>2, <3>3
  <2>5. it <= size
    <3> SUFFICES ASSUME size < it PROVE FALSE
      BY <1>3
    <3>1. EndOf(prefixSum) <= Pos(size, 0)
      BY <1>2, <2>3 DEF StringInv
    <3>2. Pos(size + 1, 0) <= Pos(it, 0) /\ 0 \in Nat /\ size + 1 \in Nat
      BY <1>3, PosGrows
    <3>3. /\ Pos(size + 1, 0) = Pos(size, 0) + CharSize /\ Pos(size, 0) \in Nat
          /\ Pos(it, offset) = Pos(it, 0) + offset /\ Pos(it, 0) \in Nat
      BY <1>3, <3>2, PosIs
    <3> QED
      BY <1>3, <2>3, <3>1, <3>2, <3>3, CharSizeAssumption
  <2>6. UnaryInv'
    <3>1. Pos(it, offset)' = Pos(it, offset) /\ Pos(it, offset) \in Nat
      <4>1. Pos(it, offset) \in Nat
        BY <1>3, PosIs
      <4> QED
        BY <1>1, <4>1 DEF Pos
    <3>2. Base' = Pos(it, offset)
      BY <1>1, <3>1 DEF Base
    <3>3. \A g : EndOf(g)' = EndOf(g)
      BY <1>1, KeptWords
    <3>4. \A g : Past(g) => Past(g)'
      BY <1>1, <1>2, PastKept
    <3>5. Written' = Written
      BY <1>1, KeptInputs
    <3>6. prefixSum' \in Written' /\ Base' = EndOf(prefixSum)' /\ Past(prefixSum + 1)'
      BY <1>1, <2>3, <2>4, <3>2, <3>3, <3>4, <3>5
    <3>7. \A p \in Base' .. Pos(it, offset)' - 1 : ~ SetBit(p)'
      BY <3>1, <3>2
    <3>8. it' <= size'
      BY <1>1, <2>5
    <3> QED
      BY <3>6, <3>7, <3>8 DEF UnaryInv
  <2> QED
    BY <1>1, <2>1, <2>2, <2>6, Reading
<1> QED
  BY <1>4, <1>5

-----------------------------------------------------------------------------
LEMMA GolombStutter ==
  ASSUME GolombInv, UNCHANGED inputs, UNCHANGED writing, UNCHANGED copying, UNCHANGED matching,
         pc' = pc
  PROVE  GolombInv'
<1>1. /\ UNCHANGED <<bytes, size, it, prev, start, resIdx>>
      /\ UNCHANGED <<remainder, binaryIdx, binaryStart, at>>
      /\ UNCHANGED <<offset, quotient, oneIdx, prefixSum, arrIt, res>>
  BY DEF writing, copying, matching
<1>2. InputsInv /\ ResInv /\ InputsInv' /\ ResInv'
  <2>1. UNCHANGED <<inputs, arrIt, res>>
    BY <1>1
  <2> QED
    BY <2>1, KeptInputsInv, ResKept DEF GolombInv
<1>3. /\ Written' = Written /\ div' = div /\ serverHashes' = serverHashes
      /\ serverSize' = serverSize /\ clientHashes' = clientHashes /\ clientSize' = clientSize
  BY KeptInputs
<1>4. \A h : /\ Before(h)' = Before(h) /\ Delta(h)' = Delta(h) /\ EndOf(h)' = EndOf(h)
             /\ One(h)' = One(h) /\ Rest(h)' = Rest(h)
  BY KeptWords
<1>5. \A h : Past(h) => Past(h)'
  BY <1>1, <1>2, PastKept
<1>6. CASE pc \in {"word", "copy"}
  <2>1. WriteInv
    BY <1>6 DEF GolombInv
  <2>2. \A p : WrittenBit(p)' <=> WrittenBit(p)
    <3>1. \A h, p : One(h)' = One(h) /\ (WordBit(h, p)' <=> WordBit(h, p))
      BY KeptWords, KeptWordBits
    <3> QED
      BY <1>1, <1>3, <3>1, Zenon DEF WrittenBit
  <2>3. StringOK'
    BY <1>1, <2>1 DEF WriteInv, StringOK, Bit
  <2>4. \A k \in 0 .. size' - 1, b \in Bit : b \in bytes'[k] <=> WrittenBit(Pos(k, b))'
    <3>1. \A k \in 0 .. size - 1, b \in Bit : b \in bytes[k] <=> WrittenBit(Pos(k, b))
      BY <2>1 DEF WriteInv
    <3> QED
      BY <1>1, <2>2, <3>1 DEF Pos
  <2>5. /\ it' \in 0 .. serverSize' /\ prev' \in Nat /\ start' \in BOOLEAN /\ resIdx' \in Nat
        /\ pc' = "copy" => it' < serverSize' /\ serverHashes'[it'] = prev' /\ ~ start'
        /\ start' => it' = 0 /\ prev' = 0 /\ resIdx' = 0
        /\ \A a \in 0 .. it' - 1 : ~ start' /\ serverHashes'[a] <= prev'
        /\ arrIt' = 0 /\ offset' = 0 /\ quotient' = 0 /\ prefixSum' = 0
    BY <1>1, <1>3, <2>1 DEF WriteInv
  <2>6. ~ start' => prev' \in Written' /\ resIdx' = EndOf(prev)'
    BY <1>1, <1>3, <1>4, <2>1 DEF WriteInv
  <2>7. size' = DivCeil(resIdx, CharSize)'
    BY <1>1, <2>1 DEF WriteInv, DivCeil
  <2>8. WriteInv'
    BY <2>3, <2>4, <2>5, <2>6, <2>7 DEF WriteInv
  <2>9. ASSUME pc = "copy" PROVE CopyInv'
    <3>1. CopyInv
      BY <2>9 DEF GolombInv
    <3>2. Pos(at, binaryStart)' = Pos(at, binaryStart)
      BY <1>1 DEF Pos
    <3>3. Rest(prev)' = Rest(prev) /\ One(prev)' = One(prev)
      BY <1>1, <1>4
    <3> QED
      BY <1>1, <3>1, <3>2, <3>3 DEF CopyInv, Bit
  <2> QED
    BY <1>1, <1>6, <2>8, <2>9, Writing
<1>7. CASE pc \in {"unary", "binary", "match"}
  <2>1. StringInv
    BY <1>7 DEF GolombInv
  <2>2. StringInv'
    <3>1. it' \in Nat /\ offset' \in Bit /\ quotient' \in Nat /\ prefixSum' \in Nat
      BY <1>1, <2>1 DEF StringInv
    <3> QED
      BY <1>1, <2>1, <3>1, StringKept
  <2>3. ASSUME pc = "unary" PROVE UnaryInv'
    <3>1. UnaryInv
      BY <2>3 DEF GolombInv
    <3>2. Pos(it, offset)' = Pos(it, offset) /\ Base' = Base
      BY <1>1 DEF Pos, Base
    <3>3. \A p : SetBit(p)' <=> SetBit(p)
      BY KeptBits
    <3>4. EndOf(prefixSum)' = EndOf(prefixSum)
      BY <1>1, <1>4
    <3>5. Past(prefixSum + 1) => Past(prefixSum + 1)'
      BY <1>1, <1>5
    <3>6. \A p \in Base' .. Pos(it, offset)' - 1 : ~ SetBit(p)'
      BY <3>1, <3>2, <3>3 DEF UnaryInv
    <3> QED
      BY <1>1, <1>3, <3>1, <3>2, <3>4, <3>5, <3>6 DEF UnaryInv
  <2>4. ASSUME pc = "binary" PROVE (\E h \in Written : ReadUpTo(h))'
    <3>1. PICK h \in Written : ReadUpTo(h)
      BY <2>4 DEF GolombInv
    <3>2. /\ Pos(it, binaryStart)' = Pos(it, binaryStart) /\ Pos(it, 0)' = Pos(it, 0)
          /\ NextBit(h)' = NextBit(h)
      BY <1>1, <1>4 DEF Pos, NextBit
    <3>3. Past(h)'
      BY <1>5, <3>1 DEF ReadUpTo
    <3>4. ReadUpTo(h)'
      BY <1>1, <1>3, <1>4, <3>1, <3>2, <3>3, Zenon DEF ReadUpTo, Bit
    <3> QED
      BY <1>3, <3>4
  <2>5. ASSUME pc = "match" PROVE MatchInv'
    <3>1. MatchInv
      BY <2>5 DEF GolombInv
    <3>2. Pos(it, offset)' = Pos(it, offset)
      BY <1>1 DEF Pos
    <3>3. EndOf(prefixSum)' = EndOf(prefixSum)
      BY <1>1, <1>4
    <3>4. Past(prefixSum) => Past(prefixSum)'
      BY <1>1, <1>5
    <3> QED
      BY <1>1, <1>3, <3>1, <3>2, <3>3, <3>4 DEF MatchInv
  <2> QED
    BY <1>1, <1>7, <2>2, <2>3, <2>4, <2>5, Reading
<1>8. CASE pc = "done"
  <2>1. IntersectionIsExact
    BY DEF GolombInv
  <2>2. IntersectionIsExact'
    BY <1>1, <1>3, <2>1, Zenon DEF IntersectionIsExact
  <2> QED
    BY <1>2, <1>8, <2>2 DEF GolombInv
<1> QED
  BY <1>6, <1>7, <1>8 DEF GolombInv

\* Each of the steps keeps it.
LEMMA GolombInvariance == GolombSpec => []GolombInv
<1>1. ASSUME GolombInv, [GolombNext]_golombVars PROVE GolombInv'
  <2>1. CASE UNCHANGED golombVars
    <3>1. UNCHANGED inputs /\ UNCHANGED writing /\ UNCHANGED copying /\ UNCHANGED matching
          /\ pc' = pc
      BY <2>1 DEF golombVars
    <3> QED
      BY <1>1, <3>1, GolombStutter
  <2> QED
    BY <1>1, <2>1, SkipRepeatInv, WriteUnaryInv, CopyByteInv, EndCopyInv, CompressedInv,
       SkipByteInv, NoMoreWordsInv, EndUnaryInv, ReadBitsInv, EndWordInv, AdvanceClientInv,
       HitInv, NextWordInv DEF GolombNext
<1> QED
  BY <1>1, GolombInitInv, PTL DEF GolombSpec

-----------------------------------------------------------------------------
(***************************************************************************)
(* Bytes are written and read only inside the string, though neither the   *)
(* write of a unary part's last bit nor the loops that copy or read a      *)
(* remainder test for its end (golomb.cpp:69, :78, :145).                  *)
(***************************************************************************)
THEOREM BytesStayInBounds == GolombSpec => []BytesInBounds
<1>1. GolombInv => BytesInBounds
  <2> SUFFICES ASSUME GolombInv PROVE BytesInBounds
    OBVIOUS
  <2>1. ASSUME pc = "copy", binaryIdx = 0
        PROVE  (at * CharSize + binaryStart - 1) \div CharSize < size
    BY <2>1, UnaryInside
  <2>2. ASSUME pc = "copy", binaryIdx < div PROVE at < size
    <3>1. at \in 0 .. size - 1 /\ size \in Nat
      BY <2>2, CopyInside DEF GolombInv, WriteInv, StringOK
    <3> QED
      BY <3>1
  <2>3. ASSUME pc = "binary", binaryIdx < div PROVE it < size
    <3>1. PICK h \in Written : ReadUpTo(h)
      BY <2>3 DEF GolombInv
    <3>2. it \in 0 .. size - 1 /\ size \in Nat
      BY <2>3, <3>1, ReadInside DEF GolombInv, StringInv, StringOK
    <3> QED
      BY <3>2
  <2> QED
    BY <2>1, <2>2, <2>3 DEF BytesInBounds
<1> QED
  BY <1>1, GolombInvariance, PTL

(***************************************************************************)
(* Each time a word has been read, the cursor is where that word was       *)
(* written to end and the sum is its hash: golomb_intersect never goes on  *)
(* from a bit or a byte beside it.                                         *)
(***************************************************************************)
THEOREM CursorFollowsTheWords == GolombSpec => []CursorAtWordEnd
<1>1. GolombInv => CursorAtWordEnd
  BY DEF GolombInv, MatchInv, CursorAtWordEnd, Pos
<1> QED
  BY <1>1, GolombInvariance, PTL

(***************************************************************************)
(* golomb_intersect finds each of the client's hashes that golomb_compress *)
(* wrote, repeats included, and no other, in the client's order.           *)
(***************************************************************************)
THEOREM IntersectionFound == GolombSpec => []IntersectionIsExact
<1>1. GolombInv => IntersectionIsExact
  BY DEF GolombInv
<1> QED
  BY <1>1, GolombInvariance, PTL
=============================================================================
