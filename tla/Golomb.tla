------------------------------- MODULE Golomb -------------------------------
(***************************************************************************)
(* GCS (cpp/datastructure/gcs.cpp): the hashes of the server's elements,   *)
(* sorted and without repeats, are written as Golomb code words of their   *)
(* differences (golomb_compress) into bytes; the client reads the words    *)
(* back while it walks through its own sorted hashes (golomb_intersect).   *)
(*                                                                         *)
(* A difference d is written as d \div 2^div zeros, a one, and the lowest  *)
(* div bits of d.  The bits follow each other from the lowest of each byte *)
(* and do not stop at its end.  A byte is the set of its bits that are 1.  *)
(*                                                                         *)
(* div is any parameter: the code estimates one in floating point, and the *)
(* words are right for each.  Code and client are given as hashes.         *)
(***************************************************************************)
EXTENDS Bytes

CONSTANTS
  Hash,         \* the hashes: 0 .. hash_range - 1
  Div,          \* the parameters div
  ServerSizes,  \* the lengths of sorted_arr, of the server ...
  ClientSizes   \* ... and of the client

ASSUME GolombAssumption ==
  /\ Hash \subseteq Nat /\ Div \subseteq Nat
  /\ ServerSizes \subseteq Nat /\ ClientSizes \subseteq Nat

Ascending(n) ==
  {f \in [0 .. n - 1 -> Hash] : \A a, b \in 0 .. n - 1 : a < b => f[a] <= f[b]}

VARIABLES
  div,
  serverHashes, serverSize,       \* sorted_arr of golomb_compress
  clientHashes, clientSize,       \* sorted_arr of golomb_intersect
  bytes, size,                    \* compressed, golomb_compressed
  pc,
  it, prev, start, resIdx,        \* golomb_compress: its loop ...
  remainder, binaryIdx, binaryStart, at,  \* ... and the copy of a remainder
  offset, quotient, oneIdx, prefixSum, arrIt, res   \* golomb_intersect

inputs   == <<div, serverHashes, serverSize, clientHashes, clientSize>>
writing  == <<bytes, size, it, prev, start, resIdx>>
copying  == <<remainder, binaryIdx, binaryStart, at>>
matching == <<offset, quotient, oneIdx, prefixSum, arrIt, res>>
golombVars == <<inputs, writing, copying, matching, pc>>

GolombInit ==
  /\ serverSize \in ServerSizes /\ serverHashes \in Ascending(serverSize)
  /\ clientSize \in ClientSizes /\ clientHashes \in Ascending(clientSize)
  /\ div \in IF serverSize = 0 THEN {0} ELSE Div
  /\ bytes = << >> /\ size = 0
  /\ it = 0 /\ prev = 0 /\ start = TRUE /\ resIdx = 0
  /\ remainder = 0 /\ binaryIdx = 0 /\ binaryStart = 0 /\ at = 0
  /\ offset = 0 /\ quotient = 0 /\ oneIdx = 0 /\ prefixSum = 0
  /\ arrIt = 0 /\ res = << >>
  /\ pc = "word"

-----------------------------------------------------------------------------
(***************************************************************************)
(* golomb_compress.                                                        *)
(***************************************************************************)
BitOf(x, b) == (x \div 2^b) % 2 = 1

\* compressed.resize(n, 0)
Resized(n) == [b \in 0 .. n - 1 |-> IF b < size THEN bytes[b] ELSE {}]

IsNew == start \/ serverHashes[it] > prev

SkipRepeat ==
  /\ pc = "word" /\ it < serverSize /\ ~ IsNew
  /\ it' = it + 1
  /\ UNCHANGED <<inputs, bytes, size, prev, start, resIdx, copying, matching, pc>>

\* Mutant: the bit that ends the unary part is not counted.
WordLengthShort(d) == d \div 2^div + div

WordLength(d) == d \div 2^div + 1 + div

WriteUnary ==
  /\ pc = "word" /\ it < serverSize /\ IsNew
  /\ LET delta    == serverHashes[it] - prev
         unaryEnd == resIdx + delta \div 2^div
         n        == DivCeil(resIdx + WordLength(delta), CharSize)
     IN  /\ size' = n
         /\ bytes' = [Resized(n) EXCEPT ![unaryEnd \div CharSize] =
                        @ \cup {unaryEnd % CharSize}]
         /\ remainder' = delta % 2^div
         /\ binaryStart' = (unaryEnd + 1) % CharSize
         /\ at' = (unaryEnd + 1) \div CharSize
         /\ binaryIdx' = 0
         /\ resIdx' = resIdx + WordLength(delta)
  /\ prev' = serverHashes[it] /\ start' = FALSE
  /\ pc' = "copy"
  /\ UNCHANGED <<inputs, it, matching>>

\* Mutant: every byte takes the remainder's lowest bits.
LowestBits == {b \in Bit : b >= binaryStart /\ BitOf(remainder, b - binaryStart)}

\* (remainder >> binary_idx) << binary_start, as much of it as a char holds.
ShiftedBits ==
  {b \in Bit : b >= binaryStart /\ BitOf(remainder, binaryIdx + b - binaryStart)}

CopyByte ==
  /\ pc = "copy" /\ binaryIdx < div
  /\ bytes' = [bytes EXCEPT ![at] = @ \cup ShiftedBits]
  /\ binaryIdx' = binaryIdx + CharSize - binaryStart
  /\ binaryStart' = 0
  /\ at' = at + 1
  /\ UNCHANGED <<inputs, size, it, prev, start, resIdx, remainder, matching, pc>>

EndCopy ==
  /\ pc = "copy" /\ binaryIdx >= div
  /\ it' = it + 1
  /\ pc' = "word"
  /\ UNCHANGED <<inputs, bytes, size, prev, start, resIdx, copying, matching>>

\* The bytes go to the client; nothing to read is nothing to find.
Compressed ==
  /\ pc = "word" /\ it = serverSize
  /\ it' = 0
  /\ pc' = IF size = 0 THEN "done" ELSE "unary"
  /\ UNCHANGED <<inputs, bytes, size, prev, start, resIdx, copying, matching>>

-----------------------------------------------------------------------------
(***************************************************************************)
(* golomb_intersect: it is the byte being read, offset the first of its    *)
(* bits not yet read.                                                      *)
(***************************************************************************)
Unread == {b \in bytes[it] : b >= offset}

SkipByte ==
  /\ pc = "unary" /\ it < size /\ Unread = {}
  /\ quotient' = quotient + CharSize - offset
  /\ offset' = 0
  /\ it' = it + 1
  /\ UNCHANGED <<inputs, bytes, size, prev, start, resIdx, copying,
                 oneIdx, prefixSum, arrIt, res, pc>>

\* What is left was padding.
NoMoreWords ==
  /\ pc = "unary" /\ it >= size
  /\ pc' = "done"
  /\ UNCHANGED <<inputs, writing, copying, matching>>

EndUnary ==
  /\ pc = "unary" /\ it < size /\ Unread # {}
  /\ oneIdx' = FE!Min(Unread)
  /\ quotient' = quotient + oneIdx' - offset
  /\ binaryStart' = (oneIdx' + 1) % CharSize
  /\ it' = IF binaryStart' = 0 THEN it + 1 ELSE it
  /\ binaryIdx' = 0 /\ remainder' = 0
  /\ pc' = "binary"
  /\ UNCHANGED <<inputs, bytes, size, prev, start, resIdx, at,
                 offset, prefixSum, arrIt, res>>

ReadBits ==
  /\ pc = "binary" /\ binaryIdx < div
  /\ LET numBits == FE!Min({CharSize - binaryStart, div - binaryIdx})
         set     == {b \in 0 .. numBits - 1 : binaryStart + b \in bytes[it]}
     IN  /\ remainder' = remainder + FE!MapThenSumSet(LAMBDA b : 2^(binaryIdx + b), set)
         /\ binaryIdx' = binaryIdx + numBits
  /\ binaryStart' = 0
  /\ it' = it + 1
  /\ UNCHANGED <<inputs, bytes, size, prev, start, resIdx, at, matching, pc>>

\* Mutant: the byte is never taken back.
NeverBack(o) == 0

\* The last byte read is not used up: the next word begins in it.
TakenBack(o) == IF div > 0 /\ o # 0 THEN 1 ELSE 0

EndWord ==
  /\ pc = "binary" /\ binaryIdx >= div
  /\ offset' = (oneIdx + 1 + div) % CharSize
  /\ it' = it - TakenBack(offset')
  /\ prefixSum' = prefixSum + quotient * 2^div + remainder
  /\ pc' = "match"
  /\ UNCHANGED <<inputs, bytes, size, prev, start, resIdx, copying,
                 quotient, oneIdx, arrIt, res>>

AdvanceClient ==
  /\ pc = "match" /\ arrIt < clientSize /\ clientHashes[arrIt] < prefixSum
  /\ arrIt' = arrIt + 1
  /\ UNCHANGED <<inputs, writing, copying, offset, quotient, oneIdx, prefixSum, res, pc>>

Hit ==
  /\ pc = "match" /\ arrIt < clientSize /\ clientHashes[arrIt] = prefixSum
  /\ res' = Append(res, arrIt)
  /\ arrIt' = arrIt + 1
  /\ UNCHANGED <<inputs, writing, copying, offset, quotient, oneIdx, prefixSum, pc>>

NextWord ==
  /\ pc = "match" /\ (arrIt < clientSize => clientHashes[arrIt] > prefixSum)
  /\ quotient' = 0
  /\ pc' = IF arrIt = clientSize THEN "done" ELSE "unary"
  /\ UNCHANGED <<inputs, writing, copying, offset, oneIdx, prefixSum, arrIt, res>>

GolombNext ==
  \/ SkipRepeat
  \/ WriteUnary
  \/ CopyByte
  \/ EndCopy
  \/ Compressed
  \/ SkipByte
  \/ NoMoreWords
  \/ EndUnary
  \/ ReadBits
  \/ EndWord
  \/ AdvanceClient
  \/ Hit
  \/ NextWord

GolombSpec == GolombInit /\ [][GolombNext]_golombVars

-----------------------------------------------------------------------------
Written == {serverHashes[a] : a \in 0 .. serverSize - 1}

\* Where the word of a written hash ends, in bits from the first byte's first.
Before(h)    == FE!Max({0} \cup {g \in Written : g < h})
EndOf(h) ==
  FE!MapThenSumSet(LAMBDA g : (g - Before(g)) \div 2^div + 1 + div,
                   {g \in Written : g <= h})

\* Bytes are written and read only inside the string, though neither the write of
\* a unary part's last bit (the one before the cursor, golomb.cpp:69) nor the loops
\* over a remainder test for its end (golomb.cpp:78, :145).
BytesInBounds ==
  /\ pc = "copy" /\ binaryIdx = 0 => (at * CharSize + binaryStart - 1) \div CharSize < size
  /\ pc = "copy" /\ binaryIdx < div => at < size
  /\ pc = "binary" /\ binaryIdx < div => it < size

\* Each time a word has been read, the cursor is where that word was written to
\* end, whichever bits and bytes it went over, and the sum is its hash: a cursor
\* one byte or bit off would go on decoding something (golomb.cpp:154-157).
CursorAtWordEnd ==
  pc = "match" => prefixSum \in Written /\ it * CharSize + offset = EndOf(prefixSum)

\* The client finds every one of its hashes that the server wrote, repeats
\* included, and no other, in its own order.
IntersectionIsExact ==
  pc = "done" =>
    /\ {res[p] : p \in 1 .. Len(res)} = {a \in 0 .. clientSize - 1 : clientHashes[a] \in Written}
    /\ \A p, q \in 1 .. Len(res) : p < q => res[p] < res[q]
=============================================================================
