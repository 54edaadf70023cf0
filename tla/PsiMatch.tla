------------------------------ MODULE PsiMatch ------------------------------
(***************************************************************************)
(* PsiMatch of cpp/psi_match.{h,cpp}: the client's last step over a Raw    *)
(* setup, with the setup and the response fed in windows of bytes cut      *)
(* anywhere.                                                               *)
(*                                                                         *)
(* One action is one round of a loop of the code: a tag byte, a length     *)
(* byte, a run of body bytes, a batch decrypted, a probe of the binary     *)
(* search.  The caller drives the four calls in any order and chooses the  *)
(* bytes.  A byte is a number below 256, an element a sequence of bytes.   *)
(* Statuses are named for their refusal instead of carrying its wording.   *)
(***************************************************************************)
EXTENDS Integers, Sequences

CONSTANTS
  Byte,             \* the bytes in use, of 0 .. 255
  SetupWindows,     \* the windows a caller may pass to AddSetupBytes ...
  ResponseWindows,  \* ... and to MatchResponsePiece
  MaxSent,          \* bound: bytes sent of each message
  MaxElementBytes,  \* kMaxElementBytes, 33 in the code
  MaxVarintBytes,   \* kMaxVarint32Bytes, 5 in the code
  BatchElements,    \* kBatchElements, 2^16 in the code
  MinInputsForThreads,  \* kMinInputsForThreads of parallel_ec.cpp, 1024 in the code
  MaxElements,      \* kMaxElements, 2^32 - 1 in the code
  Decrypt(_),       \* the client cipher's Decrypt ...
  Undecryptable     \* ... and its value where it refuses

Element == Seq(Byte)

ASSUME PsiMatchAssumption ==
  /\ Byte \subseteq 0 .. 255
  /\ SetupWindows \subseteq Seq(Byte) /\ ResponseWindows \subseteq Seq(Byte)
  /\ MaxSent \in Nat
  /\ MaxElementBytes \in Nat
  /\ MaxVarintBytes \in 1 .. 5
  /\ BatchElements \in Nat \ {0}
  /\ MinInputsForThreads \in Nat
  /\ MaxElements \in Nat
  /\ \A n \in 0 .. MaxElementBytes : \A e \in [1 .. n -> Byte] :
       Decrypt(e) # Undecryptable => Decrypt(e) \in Element

VARIABLES
  reveal,          \* reveal_intersection_
  phase,           \* phase_
  failure,         \* failure_
  frame,           \* setup_frame_
  rawLength,       \* raw_length_
  rawLengthBytes,  \* raw_length_bytes_
  rawRemaining,    \* raw_remaining_
  reader,          \* setup_reader_ and response_reader_
  setup,           \* setup_blocks_ and setup_count_
  batch,           \* batch_
  decryptedCount,  \* decrypted_count_
  matched,         \* matched_setup_, the set of its bits
  pairs,           \* response_indices_ and setup_indices_
  pc,              \* what the call in progress is doing, or "idle", or "thrown"
  window,          \* the bytes of the call that are not consumed yet
  plain,           \* MatchBatch: decrypted
  item,            \* MatchBatch: k
  low, high,       \* FindInSetup
  returned,        \* the status of the last call that returned
  result,          \* what Finish returned
  sent,            \* history: the bytes of each message passed so far
  received         \* history: the response's entries, in order

framing  == <<frame, rawLength, rawLengthBytes, rawRemaining>>
matching == <<decryptedCount, matched, pairs>>
search   == <<plain, item, low, high>>
history  == <<sent, received>>
vars == <<reveal, phase, failure, framing, reader, setup, batch, matching,
          pc, window, search, returned, result, history>>

Stream == {"setup", "response"}

-----------------------------------------------------------------------------
FieldTag == 10   \* kField1LengthDelimited, 0x0A

Smaller(a, b) == IF a <= b THEN a ELSE b

\* CompareElements(a, b) < 0: unsigned byte order, a proper prefix first.
Less(a, b) ==
  \/ \E i \in 1 .. Smaller(Len(a), Len(b)) :
       a[i] < b[i] /\ \A j \in 1 .. i - 1 : a[j] = b[j]
  \/ Len(a) < Len(b) /\ \A j \in 1 .. Len(a) : a[j] = b[j]

\* AddVarint32Byte: the value after one more byte, when that is not refused.
VarintRefused(byte, count) == count = MaxVarintBytes - 1 /\ byte >= 16
Shift == <<1, 128, 16384, 2097152, 268435456>>  \* 1 << (7 * count)
VarintValue(byte, value, count) == value + (byte % 128) * Shift[count + 1]
VarintDone(byte) == byte < 128

-----------------------------------------------------------------------------
NewReader == [state |-> "tag", length |-> 0, lengthBytes |-> 0, body |-> << >>]

Init ==
  /\ reveal \in BOOLEAN
  /\ phase = "setup" /\ failure = "OK"
  /\ frame = "tag" /\ rawLength = 0 /\ rawLengthBytes = 0 /\ rawRemaining = 0
  /\ reader = [m \in Stream |-> NewReader]
  /\ setup = << >> /\ batch = << >>
  /\ decryptedCount = 0 /\ matched = {} /\ pairs = << >>
  /\ pc = "idle" /\ window = << >>
  /\ plain = << >> /\ item = 0 /\ low = 0 /\ high = 0
  /\ returned = "OK"
  /\ result = [decrypted |-> 0, size |-> {}, pairs |-> << >>]
  /\ sent = [m \in Stream |-> << >>] /\ received = << >>

\* The call returns a refusal, and it is kept.
Fail(status) ==
  /\ failure' = status /\ returned' = status
  /\ pc' = "idle" /\ window' = << >>

\* Mutant: a call out of order is refused but the refusal is not kept.
RefusedOnce(status) ==
  /\ failure' = failure /\ returned' = status
  /\ UNCHANGED <<reveal, phase, framing, reader, setup, batch, matching, pc,
                 window, search, result, history>>

\* A call that touches nothing but the kept failure.
Refused(status) ==
  /\ Fail(status)
  /\ UNCHANGED <<reveal, phase, framing, reader, setup, batch, matching,
                 search, result, history>>

\* Every call first looks at the kept failure.
AlreadyFailed ==
  /\ failure # "OK" /\ returned' = failure
  /\ UNCHANGED <<reveal, phase, failure, framing, reader, setup, batch,
                 matching, pc, window, search, result, history>>

-----------------------------------------------------------------------------
(***************************************************************************)
(* AddSetupBytes and SealSetup.                                            *)
(***************************************************************************)
BeginWindow(m, bytes) ==
  /\ Len(sent[m]) + Len(bytes) <= MaxSent
  /\ window' = bytes
  /\ sent' = [sent EXCEPT ![m] = @ \o bytes]
  /\ pc' = m
  /\ UNCHANGED <<reveal, phase, failure, framing, reader, setup, batch,
                 matching, search, returned, result, received>>

AddSetupBytes(bytes) ==
  /\ pc = "idle"
  /\ \/ AlreadyFailed
     \/ failure = "OK" /\ phase # "setup" /\ Refused("out_of_order")
     \/ failure = "OK" /\ phase = "setup" /\ BeginWindow("setup", bytes)

SetupTag ==
  /\ pc = "setup" /\ window # << >> /\ frame = "tag"
  /\ IF Head(window) # FieldTag
     THEN Fail("wrong_field") /\ UNCHANGED frame
     ELSE /\ frame' = "length" /\ window' = Tail(window)
          /\ UNCHANGED <<failure, returned, pc>>
  /\ UNCHANGED <<reveal, phase, rawLength, rawLengthBytes, rawRemaining, reader,
                 setup, batch, matching, search, result, history>>

SetupLength ==
  LET byte  == Head(window)
      value == VarintValue(byte, rawLength, rawLengthBytes)
  IN
  /\ pc = "setup" /\ window # << >> /\ frame = "length"
  /\ IF VarintRefused(byte, rawLengthBytes)
     THEN Fail("length_too_big") /\ UNCHANGED framing
     ELSE /\ rawLength' = value /\ rawLengthBytes' = rawLengthBytes + 1
          /\ window' = Tail(window)
          /\ IF VarintDone(byte)
             THEN /\ rawRemaining' = value
                  /\ frame' = IF value = 0 THEN "done" ELSE "body"
             ELSE UNCHANGED <<rawRemaining, frame>>
          /\ UNCHANGED <<failure, returned, pc>>
  /\ UNCHANGED <<reveal, phase, reader, setup, batch, matching, search,
                 result, history>>

\* Mutant: the end of the Raw field is not checked against the last entry's.
RawEndsAnywhere ==
  /\ pc = "setup" /\ frame = "body" /\ rawRemaining = 0
  /\ frame' = "done"
  /\ UNCHANGED <<reveal, phase, failure, rawLength, rawLengthBytes, rawRemaining,
                 reader, setup, batch, matching, pc, window, search, returned,
                 result, history>>

\* The Raw field's last byte is consumed: its last entry must be whole.
RawEnds ==
  /\ pc = "setup" /\ frame = "body" /\ rawRemaining = 0
  /\ IF reader["setup"].state = "tag"
     THEN frame' = "done" /\ UNCHANGED <<failure, returned, pc, window>>
     ELSE Fail("runs_past_end") /\ UNCHANGED frame
  /\ UNCHANGED <<reveal, phase, rawLength, rawLengthBytes, rawRemaining, reader,
                 setup, batch, matching, search, result, history>>

SetupTrailing ==
  /\ pc = "setup" /\ window # << >> /\ frame = "done"
  /\ Refused("trailing_bytes")

SetupReturns ==
  /\ pc = "setup" /\ window = << >>
  /\ ~ (frame = "body" /\ rawRemaining = 0)
  /\ pc' = "idle" /\ returned' = "OK"
  /\ UNCHANGED <<reveal, phase, failure, framing, reader, setup, batch,
                 matching, window, search, result, history>>

SealSetup ==
  /\ pc = "idle"
  /\ \/ AlreadyFailed
     \/ failure = "OK" /\ phase # "setup" /\ Refused("out_of_order")
     \/ failure = "OK" /\ phase = "setup" /\ frame # "done" /\ Refused("incomplete")
     \/ /\ failure = "OK" /\ phase = "setup" /\ frame = "done"
        /\ phase' = "matching" /\ matched' = {} /\ returned' = "OK"
        /\ UNCHANGED <<reveal, failure, framing, reader, setup, batch,
                       decryptedCount, pairs, pc, window, search, result, history>>

-----------------------------------------------------------------------------
(***************************************************************************)
(* What is done with a whole entry: on_entry of EntryReader::Feed.  rest   *)
(* is the part of the window that follows it.                              *)
(***************************************************************************)
\* Mutant: of two elements only the common length is compared.
AscendsByPrefix(e) ==
  setup = << >> \/ Less(setup[Len(setup)], SubSeq(e, 1, Smaller(Len(setup[Len(setup)]), Len(e))))

Ascends(e) == setup = << >> \/ Less(setup[Len(setup)], e)

AddSetupElement(e, rest) ==
  /\ IF Len(setup) >= MaxElements
     THEN Fail("too_many") /\ UNCHANGED setup
     ELSE IF ~ Ascends(e)
     THEN Fail("not_ascending") /\ UNCHANGED setup
     ELSE /\ setup' = Append(setup, e) /\ window' = rest
          /\ UNCHANGED <<failure, returned, pc>>
  /\ UNCHANGED <<batch, received>>

\* Mutant: the batch is decrypted at the end of each window only.
BatchNeverFull(size) == FALSE

BatchFull(size) == size >= BatchElements

AddResponseElement(e, rest) ==
  /\ IF decryptedCount + Len(batch) >= MaxElements
     THEN Fail("too_many") /\ UNCHANGED <<batch, received>>
     ELSE /\ batch' = Append(batch, e) /\ received' = Append(received, e)
          /\ window' = rest
          /\ pc' = IF BatchFull(Len(batch) + 1) THEN "decrypt" ELSE pc
          /\ UNCHANGED <<failure, returned>>
  /\ UNCHANGED setup

OnEntry(m, e, rest) ==
  IF m = "setup" THEN AddSetupElement(e, rest) ELSE AddResponseElement(e, rest)

(***************************************************************************)
(* EntryReader::Feed, over the setup's raw field or over the response.     *)
(***************************************************************************)
Available(m) ==
  IF m = "setup" THEN Smaller(rawRemaining, Len(window)) ELSE Len(window)

InFeed(m) == pc = m /\ (m = "setup" => frame = "body") /\ Available(m) > 0

\* n bytes of the window are consumed.  The code takes them off raw_remaining_
\* when the run they belong to has been fed, which nothing sees earlier.
After(n) == SubSeq(window, n + 1, Len(window))
CountDown(m, n) ==
  rawRemaining' = IF m = "setup" THEN rawRemaining - n ELSE rawRemaining

Unfed == <<reveal, phase, frame, rawLength, rawLengthBytes, matching, search,
           result, sent>>

FeedTag(m) ==
  /\ InFeed(m) /\ reader[m].state = "tag"
  /\ IF Head(window) # FieldTag
     THEN Fail("wrong_field") /\ UNCHANGED reader
     ELSE /\ reader' = [reader EXCEPT ![m].state = "length", ![m].length = 0,
                                      ![m].lengthBytes = 0]
          /\ window' = After(1)
          /\ UNCHANGED <<failure, returned, pc>>
  /\ CountDown(m, 1)
  /\ UNCHANGED <<Unfed, setup, batch, received>>

FeedLength(m) ==
  LET r     == reader[m]
      byte  == Head(window)
      value == VarintValue(byte, r.length, r.lengthBytes)
      read(state, body) == [state |-> state, length |-> value,
                            lengthBytes |-> r.lengthBytes + 1, body |-> body]
  IN
  /\ InFeed(m) /\ r.state = "length"
  /\ CountDown(m, 1)
  /\ UNCHANGED Unfed
  /\ \/ /\ VarintRefused(byte, r.lengthBytes)
        /\ Fail("length_too_big") /\ UNCHANGED <<reader, setup, batch, received>>
     \/ /\ ~ VarintRefused(byte, r.lengthBytes) /\ ~ VarintDone(byte)
        /\ reader' = [reader EXCEPT ![m] = read("length", r.body)] /\ window' = After(1)
        /\ UNCHANGED <<failure, returned, pc, setup, batch, received>>
     \/ /\ ~ VarintRefused(byte, r.lengthBytes) /\ VarintDone(byte)
        /\ \/ /\ value > MaxElementBytes
              /\ Fail("element_too_long")
              /\ reader' = [reader EXCEPT ![m] = read("length", r.body)]
              /\ UNCHANGED <<setup, batch, received>>
           \/ /\ 0 < value /\ value <= MaxElementBytes
              /\ reader' = [reader EXCEPT ![m] = read("body", << >>)] /\ window' = After(1)
              /\ UNCHANGED <<failure, returned, pc, setup, batch, received>>
           \/ /\ value = 0
              /\ reader' = [reader EXCEPT ![m] = read("tag", << >>)]
              /\ OnEntry(m, << >>, After(1))

FeedBody(m) ==
  LET r      == reader[m]
      wanted == r.length - Len(r.body)
      taken  == Smaller(wanted, Available(m))
      body   == r.body \o SubSeq(window, 1, taken)
      whole  == taken = wanted
      kept   == IF whole /\ r.body = << >> THEN << >> ELSE body
  IN
  /\ InFeed(m) /\ r.state = "body"
  /\ CountDown(m, taken)
  /\ reader' = [reader EXCEPT ![m].body = kept,
                              ![m].state = IF whole THEN "tag" ELSE "body"]
  /\ IF whole
     THEN OnEntry(m, body, After(taken))
     ELSE /\ window' = After(taken)
          /\ UNCHANGED <<failure, returned, pc, setup, batch, received>>
  /\ UNCHANGED Unfed

-----------------------------------------------------------------------------
(***************************************************************************)
(* MatchResponsePiece, MatchBatch and FindInSetup.                         *)
(***************************************************************************)
MatchResponsePiece(bytes) ==
  /\ pc = "idle"
  /\ \/ AlreadyFailed
     \/ failure = "OK" /\ phase # "matching" /\ Refused("out_of_order")
     \/ failure = "OK" /\ phase = "matching" /\ BeginWindow("response", bytes)

\* The window is consumed; what is left of the batch is matched now.
ResponseEnds ==
  /\ pc = "response" /\ window = << >>
  /\ IF batch = << >>
     THEN pc' = "idle" /\ returned' = "OK"
     ELSE pc' = "decrypt" /\ UNCHANGED returned
  /\ UNCHANGED <<reveal, phase, failure, framing, reader, setup, batch, matching,
                 window, search, result, history>>

\* DecryptElements over the whole batch: all of the images, or a refusal.
DecryptBatch ==
  /\ pc = "decrypt"
  /\ IF \E i \in 1 .. Len(batch) : Decrypt(batch[i]) = Undecryptable
     THEN Fail("undecryptable") /\ UNCHANGED search
     ELSE /\ plain' = [i \in 1 .. Len(batch) |-> Decrypt(batch[i])]
          /\ item' = 0 /\ low' = 0 /\ high' = Len(setup)
          /\ pc' = "search" /\ UNCHANGED <<failure, returned, window>>
  /\ UNCHANGED <<reveal, phase, framing, reader, setup, batch, matching,
                 result, history>>

\* In a sharded batch the want of a clone or of memory is a shard's status.
DecryptExhausted ==
  /\ pc = "decrypt" /\ Len(batch) >= MinInputsForThreads /\ Fail("exhausted")
  /\ UNCHANGED <<reveal, phase, framing, reader, setup, batch, matching,
                 search, result, history>>

\* On the calling thread, where smaller batches run whole, nothing catches a
\* bad_alloc: it unwinds through the call past Fail, keeps no refusal, and ends
\* the process of both bindings.
DecryptThrows ==
  /\ pc = "decrypt" /\ pc' = "thrown"
  /\ UNCHANGED <<reveal, phase, failure, framing, reader, setup, batch, matching,
                 window, search, returned, result, history>>

Middle == low + (high - low) \div 2

Probing == pc = "search" /\ item < Len(plain)

\* Mutant: the upper half excludes the element below the middle as well.
ProbeLowTooFar ==
  /\ Probing /\ low < high /\ Less(plain[item + 1], setup[Middle + 1])
  /\ high' = Middle - 1
  /\ UNCHANGED <<reveal, phase, failure, framing, reader, setup, batch, matching,
                 pc, window, plain, item, low, returned, result, history>>

ProbeLow ==
  /\ Probing /\ low < high /\ Less(plain[item + 1], setup[Middle + 1])
  /\ high' = Middle
  /\ UNCHANGED <<reveal, phase, failure, framing, reader, setup, batch, matching,
                 pc, window, plain, item, low, returned, result, history>>

\* Mutant: the lower bound stays at the middle.
ProbeHighStuck ==
  /\ Probing /\ low < high /\ Less(setup[Middle + 1], plain[item + 1])
  /\ low' = Middle
  /\ UNCHANGED <<reveal, phase, failure, framing, reader, setup, batch, matching,
                 pc, window, plain, item, high, returned, result, history>>

ProbeHigh ==
  /\ Probing /\ low < high /\ Less(setup[Middle + 1], plain[item + 1])
  /\ low' = Middle + 1
  /\ UNCHANGED <<reveal, phase, failure, framing, reader, setup, batch, matching,
                 pc, window, plain, item, high, returned, result, history>>

\* Mutant: the response index restarts with each batch.
IndexInBatch == item

ResponseIndex == decryptedCount + item

Found ==
  /\ Probing /\ low < high /\ plain[item + 1] = setup[Middle + 1]
  /\ matched' = matched \cup {Middle}
  /\ pairs' = IF reveal THEN Append(pairs, <<ResponseIndex, Middle>>) ELSE pairs
  /\ item' = item + 1 /\ low' = 0 /\ high' = Len(setup)
  /\ UNCHANGED <<reveal, phase, failure, framing, reader, setup, batch,
                 decryptedCount, pc, window, plain, returned, result, history>>

NotFound ==
  /\ Probing /\ low >= high
  /\ item' = item + 1 /\ low' = 0 /\ high' = Len(setup)
  /\ UNCHANGED <<reveal, phase, failure, framing, reader, setup, batch, matching,
                 pc, window, plain, returned, result, history>>

BatchMatched ==
  /\ pc = "search" /\ item = Len(plain)
  /\ decryptedCount' = decryptedCount + Len(plain)
  /\ batch' = << >> /\ plain' = << >> /\ item' = 0 /\ low' = 0 /\ high' = 0
  /\ pc' = "response"
  /\ UNCHANGED <<reveal, phase, failure, framing, reader, setup, matched, pairs,
                 window, returned, result, history>>

Finish ==
  /\ pc = "idle"
  /\ \/ AlreadyFailed
     \/ failure = "OK" /\ phase # "matching" /\ Refused("out_of_order")
     \/ /\ failure = "OK" /\ phase = "matching" /\ reader["response"].state # "tag"
        /\ Refused("ends_inside_element")
     \/ /\ failure = "OK" /\ phase = "matching" /\ reader["response"].state = "tag"
        /\ result' = [decrypted |-> decryptedCount, size |-> matched, pairs |-> pairs]
        /\ setup' = << >> /\ matched' = {} /\ pairs' = << >> /\ batch' = << >>
        /\ phase' = "finished" /\ returned' = "OK"
        /\ UNCHANGED <<reveal, failure, framing, reader, decryptedCount, pc, window,
                       search, history>>

-----------------------------------------------------------------------------
NewCall ==
  \/ \E bytes \in SetupWindows : AddSetupBytes(bytes)
  \/ \E bytes \in ResponseWindows : MatchResponsePiece(bytes)
  \/ SealSetup
  \/ Finish

Step ==
  \/ SetupTag \/ SetupLength \/ RawEnds \/ SetupTrailing \/ SetupReturns
  \/ \E m \in Stream : FeedTag(m) \/ FeedLength(m) \/ FeedBody(m)
  \/ ResponseEnds \/ DecryptBatch \/ DecryptExhausted \/ DecryptThrows
  \/ ProbeLow \/ ProbeHigh \/ Found \/ NotFound \/ BatchMatched

Next == NewCall \/ Step

\* A call that has begun runs on; nothing makes the caller call.
Spec == Init /\ [][Next]_vars /\ WF_vars(Step)

-----------------------------------------------------------------------------
Statuses ==
  {"OK", "out_of_order", "wrong_field", "length_too_big", "element_too_long",
   "runs_past_end", "trailing_bytes", "not_ascending", "too_many",
   "incomplete", "ends_inside_element", "undecryptable",
   "exhausted"}

Reader == [state : {"tag", "length", "body"}, length : Nat, lengthBytes : Nat,
           body : Element]

\* Every variable keeps its type; of the response a match never holds more than
\* a batch, whatever the size of the window (psi_match.cpp:303).
TypeOK ==
  /\ reveal \in BOOLEAN /\ phase \in {"setup", "matching", "finished"}
  /\ failure \in Statuses /\ returned \in Statuses
  /\ frame \in {"tag", "length", "body", "done"}
  /\ rawLength \in Nat /\ rawLengthBytes \in Nat /\ rawRemaining \in Nat
  /\ reader \in [Stream -> Reader]
  /\ setup \in Seq(Element) /\ plain \in Seq(Element)
  /\ batch \in Seq(Element) /\ Len(batch) <= BatchElements
  /\ decryptedCount \in Nat /\ matched \in SUBSET Nat /\ pairs \in Seq(Nat \X Nat)
  /\ pc \in {"idle", "setup", "response", "decrypt", "search", "thrown"}
  /\ window \in Seq(Byte)
  /\ item \in 0 .. Len(plain) /\ low \in Nat /\ high \in Nat
  /\ result \in [decrypted : Nat, size : SUBSET Nat, pairs : Seq(Nat \X Nat)]
  /\ sent \in [Stream -> Seq(Byte)] /\ received \in Seq(Element)

\* The whole state of a match but its last status.
state == <<reveal, phase, failure, framing, reader, setup, batch, matching,
           pc, search, result, history>>

\* "After any refusal every later call returns the same status"
\* (psi_match.h:73-74), and none changes anything.
RefusalIsFinal ==
  [][returned # "OK" => returned' = returned /\ UNCHANGED state]_vars

\* The position of e in the setup, from 0, or -1.
PlaceOf(e) ==
  IF \E j \in 1 .. Len(setup) : setup[j] = e
  THEN (CHOOSE j \in 1 .. Len(setup) : setup[j] = e) - 1
  ELSE -1

\* The response entries before position n whose image is in the setup.
Hits(n) == {i \in 0 .. n - 1 : PlaceOf(Decrypt(received[i + 1])) >= 0}

(***************************************************************************)
(* Between calls the elements of the response seen so far have been        *)
(* decrypted, each once, and matched: the bits are the setup positions hit *)
(* and the pairs, when they are recorded, all of the equal pairs in        *)
(* response order, however the bytes were cut and the batches fell         *)
(* (psi_match.h:33-45).                                                    *)
(***************************************************************************)
MatchedExactly ==
  pc = "idle" /\ phase = "matching" /\ failure = "OK" =>
    /\ decryptedCount = Len(received)
    /\ matched = {PlaceOf(Decrypt(received[i + 1])) : i \in Hits(Len(received))}
    /\ ~ reveal => pairs = << >>
    /\ reveal =>
         /\ \A i \in 1 .. Len(pairs) - 1 : pairs[i][1] < pairs[i + 1][1]
         /\ {pairs[i] : i \in 1 .. Len(pairs)} =
              {<<i, PlaceOf(Decrypt(received[i + 1]))>> : i \in Hits(Len(received))}

\* Every call returns or throws: in particular every binary search ends.
CallReturns == (pc # "idle") ~> (pc \in {"idle", "thrown"})
=============================================================================
