-------------------------- MODULE PsiMatch_proofs --------------------------
(***************************************************************************)
(* Proofs about PsiMatch and PsiMatchGrammar, for any setup, response and  *)
(* windows.                                                                *)
(***************************************************************************)
EXTENDS PsiMatchGrammar, SequenceTheorems, FiniteSetTheorems, NaturalsInduction,
        WellFoundedInduction, TLAPS

\* A refusal is kept as it was returned, and no call is in progress after it.
RefusalInv ==
  /\ failure = "OK" => returned = "OK"
  /\ failure # "OK" => pc = "idle" /\ returned = failure

LEMMA FailInv ==
  ASSUME NEW status, status # "OK", Fail(status)
  PROVE  RefusalInv'
BY DEF Fail, RefusalInv

LEMMA AlreadyFailedInv ==
  ASSUME RefusalInv, AlreadyFailed
  PROVE  RefusalInv' /\ UNCHANGED state
BY DEF AlreadyFailed, RefusalInv, state, framing, matching, search, history

LEMMA NewCallInv ==
  ASSUME RefusalInv, NewCall
  PROVE  RefusalInv'
<1>1. ASSUME NEW bytes, AddSetupBytes(bytes) PROVE RefusalInv'
  BY <1>1, FailInv, AlreadyFailedInv DEF AddSetupBytes, Refused, BeginWindow, RefusalInv
<1>2. ASSUME NEW bytes, MatchResponsePiece(bytes) PROVE RefusalInv'
  BY <1>2, FailInv, AlreadyFailedInv DEF MatchResponsePiece, Refused, BeginWindow, RefusalInv
<1>3. ASSUME SealSetup PROVE RefusalInv'
  BY <1>3, FailInv, AlreadyFailedInv DEF SealSetup, Refused, RefusalInv
<1>4. ASSUME Finish PROVE RefusalInv'
  BY <1>4, FailInv, AlreadyFailedInv DEF Finish, Refused, RefusalInv
<1> QED
  BY <1>1, <1>2, <1>3, <1>4 DEF NewCall

LEMMA EntryInv ==
  ASSUME RefusalInv, pc # "idle", NEW m, NEW e, NEW rest, OnEntry(m, e, rest)
  PROVE  RefusalInv'
<1>1. CASE AddSetupElement(e, rest)
  BY <1>1, FailInv DEF AddSetupElement, RefusalInv
<1>2. CASE AddResponseElement(e, rest)
  BY <1>2, FailInv DEF AddResponseElement, RefusalInv
<1> QED
  BY <1>1, <1>2 DEF OnEntry

LEMMA StepInv ==
  ASSUME RefusalInv, Step
  PROVE  RefusalInv'
<1>1. CASE SetupTag \/ SetupLength \/ RawEnds \/ SetupTrailing \/ SetupReturns
  BY <1>1, FailInv
  DEF SetupTag, SetupLength, RawEnds, SetupTrailing, SetupReturns, Refused, RefusalInv
<1>2. ASSUME NEW m \in Stream, FeedTag(m) \/ FeedLength(m) \/ FeedBody(m)
      PROVE  RefusalInv'
  <2>1. pc # "idle"
    BY <1>2 DEF FeedTag, FeedLength, FeedBody, InFeed, Stream
  <2>2. CASE FeedTag(m)
    BY <2>1, <2>2, FailInv DEF FeedTag, RefusalInv
  <2>3. CASE FeedLength(m)
    BY <2>1, <2>3, FailInv, EntryInv DEF FeedLength, RefusalInv
  <2>4. CASE FeedBody(m)
    BY <2>1, <2>4, FailInv, EntryInv DEF FeedBody, RefusalInv
  <2> QED
    BY <1>2, <2>2, <2>3, <2>4
<1>3. CASE ResponseEnds \/ DecryptBatch \/ DecryptExhausted \/ DecryptThrows
  BY <1>3, FailInv DEF ResponseEnds, DecryptBatch, DecryptExhausted, DecryptThrows, RefusalInv
<1>4. CASE ProbeLow \/ ProbeHigh \/ Found \/ NotFound \/ BatchMatched
  BY <1>4 DEF ProbeLow, ProbeHigh, Found, NotFound, BatchMatched, Probing, RefusalInv
<1> QED
  BY <1>1, <1>2, <1>3, <1>4 DEF Step

LEMMA RefusalInvHolds == Spec => []RefusalInv
<1>1. Init => RefusalInv
  BY DEF Init, RefusalInv
<1>2. RefusalInv /\ UNCHANGED vars => RefusalInv'
  BY DEF RefusalInv, vars
<1> QED
  BY <1>1, <1>2, NewCallInv, StepInv, PTL DEF Spec, Next

\* Whatever the messages, their cuts and the calls, once a call has been refused
\* every later one returns the same status and changes nothing.
THEOREM RefusalsAreFinal == Spec => RefusalIsFinal
<1>1. ASSUME RefusalInv, [Next]_vars, returned # "OK"
      PROVE  (returned' = returned /\ UNCHANGED state) \/ UNCHANGED vars
  <2>1. failure # "OK" /\ pc = "idle"
    BY <1>1 DEF RefusalInv
  <2>2. CASE Step
    BY <2>1, <2>2
    DEF Step, SetupTag, SetupLength, RawEnds, SetupTrailing, SetupReturns, Stream, FeedTag,
        FeedLength, FeedBody, InFeed, ResponseEnds, DecryptBatch, DecryptExhausted,
        DecryptThrows, ProbeLow, ProbeHigh, Found, NotFound, BatchMatched, Probing
  <2>3. CASE NewCall
    <3>1. AlreadyFailed
      BY <2>1, <2>3 DEF NewCall, AddSetupBytes, MatchResponsePiece, SealSetup, Finish
    <3> QED
      BY <1>1, <3>1, AlreadyFailedInv DEF AlreadyFailed, RefusalInv
  <2> QED
    BY <1>1, <2>2, <2>3 DEF Next
<1> QED
  BY <1>1, RefusalInvHolds, PTL DEF Spec, RefusalIsFinal

-----------------------------------------------------------------------------
(***************************************************************************)
(* Types.  TypeOK is not inductive alone: what keeps every value in range  *)
(* is how far a reader may be into a length or a body, and how full the    *)
(* batch may be where an entry can still be added to it.                   *)
(***************************************************************************)
BodyInv ==
  \A m \in Stream : reader[m].state = "body" =>
    Len(reader[m].body) < reader[m].length /\ reader[m].length <= MaxElementBytes

LengthInv ==
  failure = "OK" =>
    /\ frame = "tag" => rawLengthBytes = 0
    /\ frame = "length" => rawLengthBytes < MaxVarintBytes
    /\ \A m \in Stream :
         reader[m].state = "length" => reader[m].lengthBytes < MaxVarintBytes

BatchInv ==
  /\ \A i \in 1 .. Len(batch) : Len(batch[i]) <= MaxElementBytes
  /\ failure = "OK" /\ pc \notin {"decrypt", "search", "thrown"} => Len(batch) < BatchElements

ShapeInv == TypeOK /\ RefusalInv /\ BodyInv /\ LengthInv /\ BatchInv

\* The types a new failure leaves.
LEMMA FailTypes ==
  ASSUME NEW status \in Statuses, Fail(status)
  PROVE  failure' \in Statuses /\ returned' \in Statuses /\ pc' = "idle" /\ window' \in Seq(Byte)
BY EmptySeq DEF Fail

LEMMA RefusedTypes ==
  ASSUME ShapeInv, NEW status \in Statuses \ {"OK"}, Refused(status)
  PROVE  ShapeInv'
<1>1. failure' # "OK" /\ Fail(status)
  BY DEF Refused, Fail
<1>2. TypeOK'
  BY <1>1, FailTypes DEF ShapeInv, TypeOK, Refused, framing, matching, search, history
<1>3. BodyInv' /\ LengthInv' /\ BatchInv'
  BY <1>1 DEF ShapeInv, BodyInv, LengthInv, BatchInv, Refused
<1> QED
  BY <1>1, <1>2, <1>3, FailInv DEF ShapeInv

LEMMA AlreadyFailedTypes ==
  ASSUME ShapeInv, AlreadyFailed
  PROVE  ShapeInv'
<1>1. TypeOK'
  BY DEF ShapeInv, TypeOK, AlreadyFailed, framing, matching, search, history
<1>2. BodyInv' /\ LengthInv' /\ BatchInv'
  BY DEF ShapeInv, BodyInv, LengthInv, BatchInv, AlreadyFailed, framing
<1> QED
  BY <1>1, <1>2, AlreadyFailedInv DEF ShapeInv

LEMMA BeginWindowTypes ==
  ASSUME ShapeInv, NEW m \in Stream, NEW bytes \in Seq(Byte), BeginWindow(m, bytes),
         failure = "OK", pc = "idle"
  PROVE  ShapeInv'
<1>1. sent' \in [Stream -> Seq(Byte)]
  BY ConcatProperties DEF ShapeInv, TypeOK, BeginWindow
<1>2. TypeOK'
  BY <1>1 DEF ShapeInv, TypeOK, BeginWindow, framing, matching, search, Stream
<1>3. BodyInv' /\ LengthInv' /\ BatchInv'
  BY DEF ShapeInv, BodyInv, LengthInv, BatchInv, BeginWindow, framing, Stream
<1>4. RefusalInv'
  BY DEF ShapeInv, RefusalInv, BeginWindow
<1> QED
  BY <1>2, <1>3, <1>4 DEF ShapeInv

LEMMA NewCallTypes ==
  ASSUME ShapeInv, NewCall
  PROVE  ShapeInv'
<1> USE PsiMatchAssumption
<1>0. RefusalInv'
  BY NewCallInv DEF ShapeInv
<1>1. ASSUME NEW bytes \in SetupWindows, AddSetupBytes(bytes) PROVE ShapeInv'
  BY <1>1, RefusedTypes, AlreadyFailedTypes, BeginWindowTypes
  DEF AddSetupBytes, Statuses, Stream
<1>2. ASSUME NEW bytes \in ResponseWindows, MatchResponsePiece(bytes) PROVE ShapeInv'
  BY <1>2, RefusedTypes, AlreadyFailedTypes, BeginWindowTypes
  DEF MatchResponsePiece, Statuses, Stream
<1>3. ASSUME SealSetup PROVE ShapeInv'
  <2>1. CASE phase' = "matching" /\ matched' = {} /\ returned' = "OK"
        /\ UNCHANGED <<reveal, failure, framing, reader, setup, batch,
                       decryptedCount, pairs, pc, window, search, result, history>>
    <3>1. TypeOK'
      BY <2>1 DEF ShapeInv, TypeOK, framing, search, history, Statuses
    <3>2. BodyInv' /\ LengthInv' /\ BatchInv'
      BY <2>1 DEF ShapeInv, BodyInv, LengthInv, BatchInv, framing
    <3> QED
      BY <1>0, <3>1, <3>2 DEF ShapeInv
  <2> QED
    BY <1>3, <2>1, RefusedTypes, AlreadyFailedTypes DEF SealSetup, Statuses
<1>4. ASSUME Finish PROVE ShapeInv'
  <2>1. CASE /\ result' = [decrypted |-> decryptedCount, size |-> matched, pairs |-> pairs]
        /\ setup' = << >> /\ matched' = {} /\ pairs' = << >> /\ batch' = << >>
        /\ phase' = "finished" /\ returned' = "OK"
        /\ UNCHANGED <<reveal, failure, framing, reader, decryptedCount, pc, window,
                       search, history>>
    <3>1. TypeOK'
      BY <2>1 DEF ShapeInv, TypeOK, framing, search, history, Statuses
    <3>2. BodyInv' /\ LengthInv' /\ BatchInv'
      BY <2>1 DEF ShapeInv, BodyInv, LengthInv, BatchInv, framing
    <3> QED
      BY <1>0, <3>1, <3>2 DEF ShapeInv
  <2> QED
    BY <1>4, <2>1, RefusedTypes, AlreadyFailedTypes DEF Finish, Statuses
<1> QED
  BY <1>1, <1>2, <1>3, <1>4 DEF NewCall

\* What a byte adds to a varint that has room for it.
LEMMA VarintTypes ==
  ASSUME NEW byte \in Byte, NEW value \in Nat, NEW count \in Nat, count < MaxVarintBytes
  PROVE  /\ VarintValue(byte, value, count) \in Nat
         /\ ~ VarintRefused(byte, count) /\ ~ VarintDone(byte) => count + 1 < MaxVarintBytes
<1>1. byte \in 0 .. 255 /\ count \in 0 .. 4 /\ MaxVarintBytes \in 1 .. 5
  BY PsiMatchAssumption
<1>2. byte % 128 \in Nat
  BY <1>1
<1>3. Shift[count + 1] \in Nat
  BY <1>1 DEF Shift
<1>4. (byte % 128) * Shift[count + 1] \in Nat
  BY <1>2, <1>3
<1> QED
  BY <1>1, <1>4 DEF VarintValue, VarintRefused, VarintDone

\* The window that is left lies within the bytes in use.
LEMMA AfterTypes ==
  ASSUME TypeOK, NEW n \in 0 .. Len(window)
  PROVE  After(n) \in Seq(Byte) /\ Len(After(n)) = Len(window) - n
<1>1. window \in Seq(Byte) /\ Len(window) \in Nat
  BY DEF TypeOK
<1>2. \A i \in n + 1 .. Len(window) : window[i] \in Byte
  BY <1>1, ElementOfSeq
<1> QED
  BY <1>1, <1>2, SubSeqProperties DEF After

LEMMA AvailableTypes ==
  ASSUME TypeOK, NEW m \in Stream
  PROVE  /\ Available(m) \in 0 .. Len(window)
         /\ m = "setup" => Available(m) <= rawRemaining
BY DEF TypeOK, Available, Smaller

LEMMA SetupTypes ==
  ASSUME ShapeInv, SetupTag \/ SetupLength \/ RawEnds \/ SetupTrailing \/ SetupReturns
  PROVE  ShapeInv'
<1>0. RefusalInv' /\ failure = "OK"
  BY StepInv
  DEF Step, ShapeInv, RefusalInv, SetupTag, SetupLength, RawEnds, SetupTrailing, SetupReturns
<1>1. CASE SetupTag
  <2>1. window' \in Seq(Byte) /\ failure' \in Statuses /\ returned' \in Statuses
        /\ pc' \in {"idle", "setup"} /\ frame' \in {"tag", "length"}
    <3>1. window \in Seq(Byte) /\ window # << >> /\ failure \in Statuses
          /\ returned \in Statuses /\ pc = "setup" /\ frame = "tag"
      BY <1>1 DEF SetupTag, ShapeInv, TypeOK
    <3>2. Tail(window) \in Seq(Byte)
      BY <3>1, HeadTailProperties
    <3>3. "wrong_field" \in Statuses
      BY DEF Statuses
    <3> QED
      BY <1>1, <3>1, <3>2, <3>3, FailTypes DEF SetupTag
  <2>2. TypeOK'
    BY <1>1, <2>1 DEF SetupTag, ShapeInv, TypeOK, matching, search, history
  <2>3. BodyInv' /\ BatchInv'
    BY <1>0, <1>1 DEF SetupTag, ShapeInv, BodyInv, BatchInv, Fail
  <2>4. LengthInv'
    BY <1>0, <1>1, PsiMatchAssumption DEF SetupTag, ShapeInv, LengthInv, Fail
  <2> QED
    BY <1>0, <2>2, <2>3, <2>4 DEF ShapeInv
<1>2. CASE SetupLength
  <2> DEFINE byte  == Head(window)
             value == VarintValue(byte, rawLength, rawLengthBytes)
  <2>1. byte \in Byte /\ Tail(window) \in Seq(Byte)
    BY <1>2, HeadTailProperties DEF SetupLength, ShapeInv, TypeOK
  <2>2. rawLengthBytes < MaxVarintBytes /\ rawLength \in Nat /\ rawLengthBytes \in Nat
    BY <1>0, <1>2 DEF SetupLength, ShapeInv, TypeOK, LengthInv
  <2>3. value \in Nat
        /\ (~ VarintRefused(byte, rawLengthBytes) /\ ~ VarintDone(byte) =>
              rawLengthBytes + 1 < MaxVarintBytes)
    BY <2>1, <2>2, VarintTypes
  <2>4. CASE VarintRefused(byte, rawLengthBytes)
    <3>1. Fail("length_too_big") /\ UNCHANGED framing
      BY <1>2, <2>4 DEF SetupLength
    <3>2. TypeOK'
      BY <1>2, <3>1, FailTypes
      DEF SetupLength, ShapeInv, TypeOK, framing, matching, search, history, Statuses
    <3>3. BodyInv' /\ BatchInv' /\ LengthInv'
      BY <1>2, <3>1 DEF SetupLength, ShapeInv, BodyInv, BatchInv, LengthInv, Fail
    <3> QED
      BY <1>0, <3>2, <3>3 DEF ShapeInv
  <2>5. CASE ~ VarintRefused(byte, rawLengthBytes)
    <3>1. /\ rawLength' = value /\ rawLengthBytes' = rawLengthBytes + 1
          /\ window' = Tail(window) /\ UNCHANGED <<failure, returned, pc>>
          /\ IF VarintDone(byte)
             THEN /\ rawRemaining' = value
                  /\ frame' = IF value = 0 THEN "done" ELSE "body"
             ELSE UNCHANGED <<rawRemaining, frame>>
      BY <1>2, <2>5 DEF SetupLength
    <3> HIDE DEF byte, value
    <3>2. TypeOK'
      BY <1>2, <2>1, <2>2, <2>3, <3>1, SMTT(60)
      DEF SetupLength, ShapeInv, TypeOK, matching, search, history
    <3>3. BodyInv' /\ BatchInv'
      BY <1>2, <3>1 DEF SetupLength, ShapeInv, BodyInv, BatchInv
    <3>4. LengthInv'
      BY <1>0, <1>2, <2>3, <2>5, <3>1 DEF SetupLength, ShapeInv, LengthInv
    <3> QED
      BY <1>0, <3>2, <3>3, <3>4 DEF ShapeInv
  <2> QED
    BY <2>4, <2>5
<1>3. CASE RawEnds
  <2>1. TypeOK'
    BY <1>3, FailTypes DEF RawEnds, ShapeInv, TypeOK, matching, search, history, Statuses
  <2>2. BodyInv' /\ BatchInv' /\ LengthInv'
    BY <1>0, <1>3 DEF RawEnds, ShapeInv, BodyInv, BatchInv, LengthInv, Fail
  <2> QED
    BY <1>0, <2>1, <2>2 DEF ShapeInv
<1>4. CASE SetupTrailing
  BY <1>4, RefusedTypes DEF SetupTrailing, Statuses
<1>5. CASE SetupReturns
  <2>1. TypeOK'
    BY <1>5 DEF SetupReturns, ShapeInv, TypeOK, framing, matching, search, history, Statuses
  <2>2. BodyInv' /\ BatchInv' /\ LengthInv'
    BY <1>0, <1>5 DEF SetupReturns, ShapeInv, BodyInv, BatchInv, LengthInv, framing
  <2> QED
    BY <1>0, <2>1, <2>2 DEF ShapeInv
<1> QED
  BY <1>1, <1>2, <1>3, <1>4, <1>5

\* What OnEntry does to the types, for an entry of legal length.
EntryTypes ==
  /\ window' \in Seq(Byte) /\ failure' \in Statuses /\ returned' \in Statuses
  /\ pc' \in {"idle", "setup", "response", "decrypt"}
  /\ setup' \in Seq(Element) /\ received' \in Seq(Element)
  /\ batch' \in Seq(Element) /\ Len(batch') <= BatchElements
  /\ BatchInv'

LEMMA OnEntryTypes ==
  ASSUME ShapeInv, NEW m \in Stream, pc = m, NEW e \in Element, Len(e) <= MaxElementBytes,
         NEW rest \in Seq(Byte), OnEntry(m, e, rest)
  PROVE  EntryTypes
<1> USE PsiMatchAssumption
<1>1. /\ setup \in Seq(Element) /\ batch \in Seq(Element) /\ received \in Seq(Element)
      /\ Len(setup) \in Nat /\ Len(batch) \in Nat /\ pc \in {"setup", "response"}
      /\ failure = "OK" /\ failure \in Statuses /\ returned \in Statuses
      /\ Len(batch) < BatchElements /\ \A i \in 1 .. Len(batch) : Len(batch[i]) <= MaxElementBytes
  BY DEF ShapeInv, TypeOK, RefusalInv, BatchInv, Stream
<1>2. "too_many" \in Statuses /\ "not_ascending" \in Statuses
      /\ "too_many" # "OK" /\ "not_ascending" # "OK"
  BY DEF Statuses
<1>3. CASE m = "setup"
  <2>1. AddSetupElement(e, rest)
    BY <1>3 DEF OnEntry
  <2>2. CASE Fail("too_many") /\ UNCHANGED <<setup, batch, received>>
    BY <1>1, <1>2, <2>2, FailTypes DEF EntryTypes, BatchInv, Fail
  <2>3. CASE Fail("not_ascending") /\ UNCHANGED <<setup, batch, received>>
    BY <1>1, <1>2, <2>3, FailTypes DEF EntryTypes, BatchInv, Fail
  <2>4. CASE setup' = Append(setup, e) /\ window' = rest
             /\ UNCHANGED <<failure, returned, pc, batch, received>>
    <3>1. setup' \in Seq(Element)
      BY <1>1, <2>4, AppendProperties
    <3> QED
      BY <1>1, <2>4, <3>1 DEF EntryTypes, BatchInv
  <2> QED
    BY <2>1, <2>2, <2>3, <2>4 DEF AddSetupElement
<1>4. CASE m = "response"
  <2>1. AddResponseElement(e, rest)
    BY <1>4 DEF OnEntry
  <2>2. CASE Fail("too_many") /\ UNCHANGED <<setup, batch, received>>
    BY <1>1, <1>2, <2>2, FailTypes DEF EntryTypes, BatchInv, Fail
  <2>3. CASE /\ batch' = Append(batch, e) /\ received' = Append(received, e)
             /\ window' = rest
             /\ pc' = IF BatchFull(Len(batch) + 1) THEN "decrypt" ELSE pc
             /\ UNCHANGED <<failure, returned, setup>>
    <3>1. /\ batch' \in Seq(Element) /\ Len(batch') = Len(batch) + 1
          /\ \A i \in 1 .. Len(batch) : batch'[i] = batch[i]
          /\ batch'[Len(batch) + 1] = e
      BY <1>1, <2>3, AppendProperties
    <3>2. received' \in Seq(Element)
      BY <1>1, <2>3, AppendProperties
    <3>3. ASSUME NEW i \in 1 .. Len(batch') PROVE Len(batch'[i]) <= MaxElementBytes
      <4>1. i \in 1 .. Len(batch) \/ i = Len(batch) + 1
        BY <1>1, <3>1
      <4> QED
        BY <1>1, <3>1, <4>1
    <3>4. pc' \notin {"decrypt", "search"} => Len(batch') < BatchElements
      BY <1>1, <2>3, <3>1 DEF BatchFull
    <3>5. pc' \in {"idle", "setup", "response", "decrypt"}
      BY <1>1, <2>3
    <3> QED
      BY <1>1, <2>3, <3>1, <3>2, <3>3, <3>4, <3>5 DEF EntryTypes, BatchInv
  <2> QED
    BY <2>1, <2>2, <2>3 DEF AddResponseElement
<1> QED
  BY <1>3, <1>4 DEF Stream

\* Taking n > 0 available bytes leaves a count of raw bytes.
LEMMA CountDownTypes ==
  ASSUME TypeOK, NEW m \in Stream, NEW n \in Nat, n <= Available(m), CountDown(m, n)
  PROVE  rawRemaining' \in Nat
BY AvailableTypes DEF TypeOK, CountDown

LEMMA FeedingState ==
  ASSUME ShapeInv, NEW m \in Stream, InFeed(m)
  PROVE  /\ pc = m /\ failure = "OK" /\ pc \in {"setup", "response"}
         /\ Available(m) \in 1 .. Len(window) /\ window # << >>
         /\ window \in Seq(Byte) /\ Len(window) \in Nat
         /\ Head(window) \in Byte
         /\ After(1) \in Seq(Byte)
         /\ reader[m] \in Reader
<1>1. pc = m /\ failure = "OK" /\ pc \in {"setup", "response"}
  BY DEF InFeed, ShapeInv, RefusalInv, Stream
<1>2. TypeOK /\ window \in Seq(Byte) /\ Len(window) \in Nat
  BY DEF ShapeInv, TypeOK
<1>3. Available(m) \in 1 .. Len(window)
  BY <1>2, AvailableTypes DEF InFeed
<1>4. window # << >>
  BY <1>3
<1>5. Head(window) \in Byte
  BY <1>2, <1>4, HeadTailProperties
<1>6. After(1) \in Seq(Byte)
  BY <1>2, <1>3, AfterTypes
<1>7. reader[m] \in Reader
  BY <1>2 DEF TypeOK
<1> QED
  BY <1>1, <1>2, <1>3, <1>4, <1>5, <1>6, <1>7

\* Feeding leaves alone what OnEntry does not change.
LEMMA FedTypes ==
  ASSUME TypeOK, EntryTypes, UNCHANGED Unfed, rawRemaining' \in Nat,
         reader' \in [Stream -> Reader]
  PROVE  TypeOK'
BY DEF TypeOK, EntryTypes, Unfed, matching, search

\* What is left to show of a step of a reader.
ReaderShape(r) ==
  /\ r \in Reader
  /\ r.state = "body" => Len(r.body) < r.length /\ r.length <= MaxElementBytes

LEMMA ReaderStep ==
  ASSUME ShapeInv, NEW m \in Stream, NEW r, ReaderShape(r), reader' = [reader EXCEPT ![m] = r],
         failure' = "OK" => (r.state = "length" => r.lengthBytes < MaxVarintBytes),
         failure = "OK", frame' = frame, rawLengthBytes' = rawLengthBytes
  PROVE  reader' \in [Stream -> Reader] /\ BodyInv' /\ LengthInv'
<1>1. reader \in [Stream -> Reader]
  BY DEF ShapeInv, TypeOK
<1>2. reader'[m] = r /\ \A k \in Stream \ {m} : reader'[k] = reader[k]
  BY <1>1
<1>3. reader' \in [Stream -> Reader]
  BY <1>1 DEF ReaderShape
<1>4. BodyInv'
  BY <1>2 DEF ShapeInv, BodyInv, ReaderShape
<1>5. LengthInv'
  BY <1>2 DEF ShapeInv, LengthInv
<1> QED
  BY <1>3, <1>4, <1>5

LEMMA FeedTagTypes ==
  ASSUME ShapeInv, NEW m \in Stream, FeedTag(m)
  PROVE  ShapeInv'
<1> DEFINE r == [reader[m] EXCEPT !.state = "length", !.length = 0, !.lengthBytes = 0]
<1>0. RefusalInv' /\ TypeOK /\ InFeed(m) /\ CountDown(m, 1) /\ UNCHANGED Unfed
      /\ UNCHANGED <<setup, batch, received>> /\ BatchInv
  BY StepInv DEF Step, ShapeInv, FeedTag
<1>1. /\ pc = m /\ failure = "OK" /\ pc \in {"setup", "response"}
      /\ Available(m) \in 1 .. Len(window) /\ After(1) \in Seq(Byte) /\ reader[m] \in Reader
      /\ Len(window) \in Nat
  BY <1>0, FeedingState
<1>2. rawRemaining' \in Nat
  BY <1>0, <1>1, CountDownTypes
<1>3. CASE Head(window) # FieldTag
  <2>1. Fail("wrong_field") /\ UNCHANGED reader
    BY <1>3 DEF FeedTag
  <2>2. EntryTypes
    BY <1>0, <2>1, FailTypes DEF EntryTypes, TypeOK, BatchInv, Fail, Statuses
  <2>3. TypeOK' /\ BodyInv' /\ LengthInv'
    BY <1>0, <1>2, <2>1, <2>2, FedTypes DEF TypeOK, ShapeInv, BodyInv, LengthInv, Fail
  <2> QED
    BY <1>0, <2>2, <2>3 DEF ShapeInv, EntryTypes
<1>4. CASE Head(window) = FieldTag
  <2>1. /\ reader' = [reader EXCEPT ![m].state = "length", ![m].length = 0, ![m].lengthBytes = 0]
        /\ window' = After(1) /\ UNCHANGED <<failure, returned, pc>>
    BY <1>4 DEF FeedTag
  <2>2. reader' = [reader EXCEPT ![m] = r]
    BY <1>0, <2>1 DEF TypeOK, Reader
  <2>3. ReaderShape(r) /\ r.state = "length" /\ r.lengthBytes = 0
    BY <1>1 DEF ReaderShape, Reader
  <2>4. frame' = frame /\ rawLengthBytes' = rawLengthBytes /\ MaxVarintBytes > 0
    BY <1>0, PsiMatchAssumption DEF Unfed
  <2> HIDE DEF r
  <2>5. reader' \in [Stream -> Reader] /\ BodyInv' /\ LengthInv'
    BY <1>1, <2>2, <2>3, <2>4, ReaderStep
  <2>6. EntryTypes
    BY <1>0, <1>1, <2>1 DEF EntryTypes, TypeOK, BatchInv
  <2> QED
    BY <1>0, <1>2, <2>5, <2>6, FedTypes DEF ShapeInv, EntryTypes
<1> QED
  BY <1>3, <1>4

LEMMA FeedLengthTypes ==
  ASSUME ShapeInv, NEW m \in Stream, FeedLength(m)
  PROVE  ShapeInv'
<1> DEFINE byte  == Head(window)
           value == VarintValue(byte, reader[m].length, reader[m].lengthBytes)
           read(st, body) == [state |-> st, length |-> value,
                              lengthBytes |-> reader[m].lengthBytes + 1, body |-> body]
<1>0. RefusalInv' /\ TypeOK /\ InFeed(m) /\ CountDown(m, 1) /\ UNCHANGED Unfed
      /\ BatchInv /\ reader[m].state = "length"
  BY StepInv DEF Step, ShapeInv, FeedLength
<1>1. /\ pc = m /\ failure = "OK" /\ pc \in {"setup", "response"}
      /\ Available(m) \in 1 .. Len(window) /\ After(1) \in Seq(Byte) /\ reader[m] \in Reader
      /\ Len(window) \in Nat /\ byte \in Byte
  BY <1>0, FeedingState
<1>2. rawRemaining' \in Nat
  BY <1>0, <1>1, CountDownTypes
<1>3. /\ reader[m].length \in Nat /\ reader[m].lengthBytes \in Nat /\ reader[m].body \in Element
      /\ reader[m].lengthBytes < MaxVarintBytes
  BY <1>0, <1>1 DEF Reader, ShapeInv, LengthInv
<1>4. value \in Nat
      /\ (~ VarintRefused(byte, reader[m].lengthBytes) /\ ~ VarintDone(byte) =>
            reader[m].lengthBytes + 1 < MaxVarintBytes)
  BY <1>1, <1>3, VarintTypes
<1>5. frame' = frame /\ rawLengthBytes' = rawLengthBytes /\ << >> \in Element /\ Len(<< >>) = 0
  BY <1>0, EmptySeq DEF Unfed, Element
<1>6. \A body \in Element : \A st \in {"length", "body", "tag"} : read(st, body) \in Reader
  BY <1>3, <1>4 DEF Reader
<1>7. CASE VarintRefused(byte, reader[m].lengthBytes)
           /\ Fail("length_too_big") /\ UNCHANGED <<reader, setup, batch, received>>
  <2>2. EntryTypes
    BY <1>0, <1>7, FailTypes DEF EntryTypes, TypeOK, BatchInv, Fail, Statuses
  <2>3. TypeOK' /\ BodyInv' /\ LengthInv'
    BY <1>0, <1>2, <1>7, <2>2, FedTypes DEF TypeOK, ShapeInv, BodyInv, LengthInv, Fail
  <2> QED
    BY <1>0, <2>2, <2>3 DEF ShapeInv, EntryTypes
<1>8. ASSUME NEW st \in {"length", "body", "tag"}, NEW body \in Element, EntryTypes,
             reader' = [reader EXCEPT ![m] = read(st, body)],
             st = "body" => body = << >> /\ 0 < value /\ value <= MaxElementBytes,
             failure' = "OK" /\ st = "length" => reader[m].lengthBytes + 1 < MaxVarintBytes
      PROVE  ShapeInv'
  <2>1. ReaderShape(read(st, body))
    BY <1>4, <1>5, <1>6, <1>8 DEF ReaderShape
  <2>2. failure' = "OK" =>
          (read(st, body).state = "length" => read(st, body).lengthBytes < MaxVarintBytes)
    BY <1>8
  <2>3. reader' \in [Stream -> Reader] /\ BodyInv' /\ LengthInv'
    <3> HIDE DEF read, value
    <3> QED
      BY <1>1, <1>5, <1>8, <2>1, <2>2, ReaderStep
  <2> QED
    BY <1>0, <1>2, <1>8, <2>3, FedTypes DEF ShapeInv, EntryTypes
<1>9. CASE /\ ~ VarintRefused(byte, reader[m].lengthBytes) /\ ~ VarintDone(byte)
           /\ reader' = [reader EXCEPT ![m] = read("length", reader[m].body)] /\ window' = After(1)
           /\ UNCHANGED <<failure, returned, pc, setup, batch, received>>
  <2>1. EntryTypes
    BY <1>0, <1>1, <1>9 DEF EntryTypes, TypeOK, BatchInv
  <2> QED
    BY <1>3, <1>4, <1>8, <1>9, <2>1
<1>10. CASE /\ Fail("element_too_long")
            /\ reader' = [reader EXCEPT ![m] = read("length", reader[m].body)]
            /\ UNCHANGED <<setup, batch, received>>
  <2>1. EntryTypes /\ failure' # "OK"
    BY <1>0, <1>10, FailTypes DEF EntryTypes, TypeOK, BatchInv, Fail, Statuses
  <2> QED
    BY <1>3, <1>8, <1>10, <2>1
<1>11. CASE /\ 0 < value /\ value <= MaxElementBytes
            /\ reader' = [reader EXCEPT ![m] = read("body", << >>)] /\ window' = After(1)
            /\ UNCHANGED <<failure, returned, pc, setup, batch, received>>
  <2>1. EntryTypes
    BY <1>0, <1>1, <1>11 DEF EntryTypes, TypeOK, BatchInv
  <2> QED
    BY <1>5, <1>8, <1>11, <2>1
<1>12. CASE /\ reader' = [reader EXCEPT ![m] = read("tag", << >>)]
            /\ OnEntry(m, << >>, After(1))
  <2>1. EntryTypes
    BY <1>1, <1>5, <1>12, OnEntryTypes, PsiMatchAssumption
  <2> QED
    BY <1>5, <1>8, <1>12, <2>1
<1> QED
  BY <1>7, <1>9, <1>10, <1>11, <1>12 DEF FeedLength

\* The run of body bytes FeedBody takes.
LEMMA FeedBodyEntry ==
  ASSUME ShapeInv, NEW m \in Stream, FeedBody(m)
  PROVE  LET wanted == reader[m].length - Len(reader[m].body)
             taken  == Smaller(wanted, Available(m))
             body   == reader[m].body \o SubSeq(window, 1, taken)
         IN  /\ taken \in 1 .. Available(m) /\ taken <= wanted /\ wanted \in Nat
             /\ After(taken) \in Seq(Byte)
             /\ body \in Element /\ Len(body) = Len(reader[m].body) + taken
<1> DEFINE wanted == reader[m].length - Len(reader[m].body)
           taken  == Smaller(wanted, Available(m))
           body   == reader[m].body \o SubSeq(window, 1, taken)
<1>0. TypeOK /\ InFeed(m) /\ reader[m].state = "body"
  BY DEF ShapeInv, FeedBody
<1>1. /\ Available(m) \in 1 .. Len(window) /\ reader[m] \in Reader
      /\ Len(window) \in Nat /\ window \in Seq(Byte)
  BY <1>0, FeedingState
<1>2. /\ reader[m].length \in Nat /\ reader[m].body \in Element /\ Len(reader[m].body) \in Nat
      /\ Len(reader[m].body) < reader[m].length
  BY <1>0, <1>1 DEF Reader, ShapeInv, BodyInv, Element
<1>3. taken \in 1 .. Available(m) /\ taken <= wanted /\ wanted \in Nat
  BY <1>1, <1>2, SMTT(60) DEF Smaller
<1>5. After(taken) \in Seq(Byte)
  BY <1>0, <1>1, <1>3, AfterTypes
<1>6. SubSeq(window, 1, taken) \in Seq(Byte) /\ Len(SubSeq(window, 1, taken)) = taken
  <2>1. \A i \in 1 .. taken : window[i] \in Byte
    BY <1>1, <1>3, ElementOfSeq
  <2> QED
    BY <1>1, <1>3, <2>1, SubSeqProperties
<1>7. body \in Element /\ Len(body) = Len(reader[m].body) + taken
  BY <1>2, <1>6, ConcatProperties DEF Element
<1> QED
  BY <1>3, <1>5, <1>7

LEMMA FeedBodyTypes ==
  ASSUME ShapeInv, NEW m \in Stream, FeedBody(m)
  PROVE  ShapeInv'
<1> DEFINE wanted == reader[m].length - Len(reader[m].body)
           taken  == Smaller(wanted, Available(m))
           body   == reader[m].body \o SubSeq(window, 1, taken)
           whole  == taken = wanted
           kept   == IF whole /\ reader[m].body = << >> THEN << >> ELSE body
           r      == [reader[m] EXCEPT !.body = kept, !.state = IF whole THEN "tag" ELSE "body"]
<1>0. RefusalInv' /\ TypeOK /\ InFeed(m) /\ CountDown(m, taken) /\ UNCHANGED Unfed
      /\ BatchInv /\ reader[m].state = "body"
  BY StepInv DEF Step, ShapeInv, FeedBody
<1>1. /\ pc = m /\ failure = "OK" /\ pc \in {"setup", "response"}
      /\ Available(m) \in 1 .. Len(window) /\ reader[m] \in Reader
      /\ Len(window) \in Nat /\ window \in Seq(Byte)
  BY <1>0, FeedingState
<1>2. /\ reader[m].length \in Nat /\ reader[m].body \in Element /\ Len(reader[m].body) \in Nat
      /\ Len(reader[m].body) < reader[m].length /\ reader[m].length <= MaxElementBytes
      /\ Len(reader[m].body) \in Nat
  BY <1>0, <1>1 DEF Reader, ShapeInv, BodyInv, Element
<1>3. /\ taken \in 1 .. Available(m) /\ taken <= wanted /\ wanted \in Nat
      /\ After(taken) \in Seq(Byte)
      /\ body \in Element /\ Len(body) = Len(reader[m].body) + taken
  BY FeedBodyEntry
<1>4. rawRemaining' \in Nat
  BY <1>0, <1>1, <1>3, CountDownTypes
<1>8. Len(body) <= MaxElementBytes /\ kept \in Element /\ (~ whole => Len(body) < reader[m].length)
  BY <1>2, <1>3, EmptySeq, PsiMatchAssumption, SMTT(60) DEF Element
<1>9. reader' = [reader EXCEPT ![m] = r]
  <2>1. reader' = [reader EXCEPT ![m].body = kept, ![m].state = IF whole THEN "tag" ELSE "body"]
    BY DEF FeedBody
  <2> QED
    BY <1>0, <2>1 DEF TypeOK, Reader
<1>10. ReaderShape(r) /\ r.state # "length"
  BY <1>1, <1>2, <1>8 DEF ReaderShape, Reader
<1>11. frame' = frame /\ rawLengthBytes' = rawLengthBytes
  BY <1>0 DEF Unfed
<1>12. reader' \in [Stream -> Reader] /\ BodyInv' /\ LengthInv'
  <2> HIDE DEF r
  <2> QED
    BY <1>1, <1>9, <1>10, <1>11, ReaderStep
<1>13. EntryTypes
  <2>1. CASE whole
    <3>1. OnEntry(m, body, After(taken))
      BY <2>1 DEF FeedBody
    <3> QED
      BY <1>1, <1>3, <1>8, <3>1, OnEntryTypes
  <2>2. CASE ~ whole
    <3>1. window' = After(taken) /\ UNCHANGED <<failure, returned, pc, setup, batch, received>>
      BY <2>2 DEF FeedBody
    <3> QED
      BY <1>0, <1>1, <1>3, <3>1 DEF EntryTypes, TypeOK, BatchInv
  <2> QED
    BY <2>1, <2>2
<1> QED
  BY <1>0, <1>4, <1>12, <1>13, FedTypes DEF ShapeInv, EntryTypes

\* An element of legal length decrypts to an element or is refused.
LEMMA DecryptTypes ==
  ASSUME NEW e \in Element, Len(e) <= MaxElementBytes, Decrypt(e) # Undecryptable
  PROVE  Decrypt(e) \in Element
<1>1. Len(e) \in 0 .. MaxElementBytes /\ e \in [1 .. Len(e) -> Byte]
  BY LenProperties, PsiMatchAssumption DEF Element
<1> QED
  BY <1>1, PsiMatchAssumption

LEMMA DecryptBatchTypes ==
  ASSUME ShapeInv, DecryptBatch
  PROVE  ShapeInv' /\ (pc' = "search" => plain' \in Seq(Element) /\ Len(plain') = Len(batch))
<1>0. RefusalInv' /\ TypeOK /\ BatchInv /\ pc = "decrypt" /\ failure = "OK"
  BY StepInv DEF Step, ShapeInv, DecryptBatch, RefusalInv
<1>1. CASE \E i \in 1 .. Len(batch) : Decrypt(batch[i]) = Undecryptable
  <2>1. Fail("undecryptable") /\ UNCHANGED search
    BY <1>1 DEF DecryptBatch
  <2>2. TypeOK'
    BY <1>0, <2>1, FailTypes
    DEF DecryptBatch, TypeOK, framing, matching, search, history, Statuses
  <2>3. BodyInv' /\ LengthInv' /\ BatchInv' /\ pc' # "search"
    BY <1>0, <2>1 DEF DecryptBatch, ShapeInv, BodyInv, LengthInv, BatchInv, Fail
  <2> QED
    BY <1>0, <2>2, <2>3 DEF ShapeInv
<1>2. CASE ~ \E i \in 1 .. Len(batch) : Decrypt(batch[i]) = Undecryptable
  <2>1. /\ plain' = [i \in 1 .. Len(batch) |-> Decrypt(batch[i])]
        /\ item' = 0 /\ low' = 0 /\ high' = Len(setup)
        /\ pc' = "search" /\ UNCHANGED <<failure, returned, window>>
    BY <1>2 DEF DecryptBatch
  <2>2. batch \in Seq(Element) /\ Len(batch) \in Nat /\ Len(setup) \in Nat
    BY <1>0 DEF TypeOK
  <2>3. \A i \in 1 .. Len(batch) : Decrypt(batch[i]) \in Element
    <3>1. \A i \in 1 .. Len(batch) : batch[i] \in Element
      BY <2>2, ElementOfSeq
    <3> QED
      BY <1>0, <1>2, <3>1, DecryptTypes DEF BatchInv
  <2>4. plain' \in Seq(Element) /\ Len(plain') = Len(batch)
    BY <2>1, <2>2, <2>3
  <2>5. TypeOK'
    BY <1>0, <2>1, <2>2, <2>4 DEF DecryptBatch, TypeOK, framing, matching, history
  <2>6. BodyInv' /\ LengthInv' /\ BatchInv'
    BY <1>0, <2>1 DEF DecryptBatch, ShapeInv, BodyInv, LengthInv, BatchInv, framing
  <2> QED
    BY <1>0, <2>4, <2>5, <2>6 DEF ShapeInv
<1> QED
  BY <1>1, <1>2

LEMMA MiddleBetween ==
  ASSUME low \in Nat, high \in Nat, low < high
  PROVE  Middle \in low .. high - 1
BY DEF Middle

LEMMA MatchTypes ==
  ASSUME ShapeInv,
         ResponseEnds \/ DecryptExhausted \/ DecryptThrows \/ ProbeLow \/ ProbeHigh \/ Found
         \/ NotFound \/ BatchMatched
  PROVE  ShapeInv'
<1>0. RefusalInv' /\ TypeOK /\ BatchInv /\ failure = "OK"
  BY StepInv
  DEF Step, ShapeInv, RefusalInv, ResponseEnds, DecryptExhausted, DecryptThrows, Probing,
      ProbeLow, ProbeHigh, Found, NotFound, BatchMatched
<1>6. CASE DecryptThrows
  <2>1. TypeOK'
    BY <1>0, <1>6 DEF DecryptThrows, TypeOK, framing, matching, search, history
  <2>2. BodyInv' /\ LengthInv' /\ BatchInv'
    BY <1>0, <1>6 DEF DecryptThrows, ShapeInv, BodyInv, LengthInv, BatchInv, framing
  <2> QED
    BY <1>0, <2>1, <2>2 DEF ShapeInv
<1>1. CASE ResponseEnds
  <2>1. TypeOK'
    BY <1>0, <1>1 DEF ResponseEnds, TypeOK, framing, matching, search, history, Statuses
  <2>2. BodyInv' /\ LengthInv' /\ BatchInv'
    BY <1>0, <1>1 DEF ResponseEnds, ShapeInv, BodyInv, LengthInv, BatchInv, framing
  <2> QED
    BY <1>0, <2>1, <2>2 DEF ShapeInv
<1>2. CASE DecryptExhausted
  <2>1. TypeOK'
    BY <1>0, <1>2, FailTypes
    DEF DecryptExhausted, TypeOK, framing, matching, search, history, Statuses
  <2>2. BodyInv' /\ LengthInv' /\ BatchInv'
    BY <1>0, <1>2 DEF DecryptExhausted, ShapeInv, BodyInv, LengthInv, BatchInv, framing, Fail
  <2> QED
    BY <1>0, <2>1, <2>2 DEF ShapeInv
<1>3. CASE ProbeLow \/ ProbeHigh
  <2>1. low \in Nat /\ high \in Nat /\ low < high
    BY <1>0, <1>3 DEF TypeOK, ProbeLow, ProbeHigh
  <2>2. Middle \in Nat
    BY <2>1, MiddleBetween
  <2>3. low' \in Nat /\ high' \in Nat
    BY <1>3, <2>1, <2>2 DEF ProbeLow, ProbeHigh
  <2>5. TypeOK'
    BY <1>0, <1>3, <2>3 DEF ProbeLow, ProbeHigh, TypeOK, framing, matching, history
  <2>4. BodyInv' /\ LengthInv' /\ BatchInv'
    BY <1>0, <1>3 DEF ProbeLow, ProbeHigh, ShapeInv, BodyInv, LengthInv, BatchInv, framing
  <2> QED
    BY <1>0, <2>4, <2>5 DEF ShapeInv
<1>4. CASE Found \/ NotFound
  <2>1. /\ low \in Nat /\ high \in Nat /\ item \in Nat /\ plain \in Seq(Element)
        /\ Len(plain) \in Nat /\ item < Len(plain) /\ decryptedCount \in Nat
        /\ Len(setup) \in Nat /\ pairs \in Seq(Nat \X Nat) /\ matched \in SUBSET Nat
    BY <1>0, <1>4, SMTT(60) DEF TypeOK, Found, NotFound, Probing
  <2>2. item + 1 \in 0 .. Len(plain) /\ ResponseIndex \in Nat
    BY <2>1 DEF ResponseIndex
  <2>3. CASE Found
    <3>1. Middle \in Nat
      BY <2>1, <2>3, MiddleBetween DEF Found
    <3>2. <<ResponseIndex, Middle>> \in Nat \X Nat
      BY <2>2, <3>1
    <3>3. Append(pairs, <<ResponseIndex, Middle>>) \in Seq(Nat \X Nat)
      BY <2>1, <3>2, AppendProperties
    <3>4. matched' \in SUBSET Nat /\ pairs' \in Seq(Nat \X Nat)
      BY <2>1, <2>3, <3>1, <3>3 DEF Found
    <3>5. TypeOK'
      BY <1>0, <2>1, <2>2, <2>3, <3>4 DEF Found, TypeOK, framing, history
    <3>6. BodyInv' /\ LengthInv' /\ BatchInv'
      BY <1>0, <2>3 DEF Found, ShapeInv, BodyInv, LengthInv, BatchInv, framing
    <3> QED
      BY <1>0, <3>5, <3>6 DEF ShapeInv
  <2>4. CASE NotFound
    <3>1. TypeOK'
      BY <1>0, <2>1, <2>2, <2>4 DEF NotFound, TypeOK, framing, matching, history
    <3>2. BodyInv' /\ LengthInv' /\ BatchInv'
      BY <1>0, <2>4 DEF NotFound, ShapeInv, BodyInv, LengthInv, BatchInv, framing
    <3> QED
      BY <1>0, <3>1, <3>2 DEF ShapeInv
  <2> QED
    BY <1>4, <2>3, <2>4
<1>5. CASE BatchMatched
  <2>1. decryptedCount' \in Nat /\ Len(<< >>) = 0 /\ << >> \in Seq(Element)
    BY <1>0, <1>5, EmptySeq DEF BatchMatched, TypeOK
  <2>2. TypeOK'
    BY <1>0, <1>5, <2>1, PsiMatchAssumption DEF BatchMatched, TypeOK, framing, history
  <2>3. BodyInv' /\ LengthInv' /\ BatchInv'
    BY <1>0, <1>5, <2>1, PsiMatchAssumption
    DEF BatchMatched, ShapeInv, BodyInv, LengthInv, BatchInv, framing
  <2> QED
    BY <1>0, <2>2, <2>3 DEF ShapeInv
<1> QED
  BY <1>1, <1>2, <1>3, <1>4, <1>5, <1>6

LEMMA ShapeInit == Init => ShapeInv
<1> SUFFICES ASSUME Init PROVE ShapeInv
  OBVIOUS
<1> USE PsiMatchAssumption, EmptySeq DEF Init
<1>1. NewReader \in Reader /\ NewReader.state = "tag"
  BY DEF NewReader, Reader, Element
<1>2. reader \in [Stream -> Reader] /\ sent \in [Stream -> Seq(Byte)]
      /\ \A m \in Stream : reader[m].state = "tag"
  BY <1>1
<1>3. TypeOK
  BY <1>2 DEF TypeOK, Statuses
<1>4. RefusalInv /\ BodyInv /\ LengthInv /\ BatchInv
  BY <1>2 DEF RefusalInv, BodyInv, LengthInv, BatchInv
<1> QED
  BY <1>3, <1>4 DEF ShapeInv

LEMMA ShapeStep ==
  ASSUME ShapeInv, Next
  PROVE  ShapeInv'
BY NewCallTypes, SetupTypes, FeedTagTypes, FeedLengthTypes, FeedBodyTypes, DecryptBatchTypes,
   MatchTypes DEF Next, Step

LEMMA ShapeStutters ==
  ASSUME ShapeInv, UNCHANGED vars
  PROVE  ShapeInv'
<1>1. TypeOK'
  BY DEF ShapeInv, TypeOK, vars, framing, matching, search, history
<1>2. RefusalInv' /\ BodyInv' /\ LengthInv' /\ BatchInv'
  BY DEF ShapeInv, RefusalInv, BodyInv, LengthInv, BatchInv, vars, framing
<1> QED
  BY <1>1, <1>2 DEF ShapeInv

LEMMA ShapeInvHolds == Spec => []ShapeInv
BY ShapeInit, ShapeStep, ShapeStutters, PTL DEF Spec

\* Whatever the messages and their cuts, every variable keeps its type: no
\* varint is shifted past its five bytes, the bytes of the raw field are never
\* counted below zero, what is decrypted is never longer than an element, and
\* the match never holds more of the response than a batch.
THEOREM MatchTypesHold == Spec => []TypeOK
BY ShapeInvHolds, PTL DEF ShapeInv

-----------------------------------------------------------------------------
(***************************************************************************)
(* The order of CompareElements is strict, so a position of an ascending   *)
(* setup is found or excluded for good by a probe.                         *)
(***************************************************************************)
LEMMA ElementBytes ==
  ASSUME NEW a \in Element
  PROVE  Len(a) \in Nat /\ \A i \in 1 .. Len(a) : a[i] \in Int
<1>1. Byte \subseteq Int /\ a \in Seq(Byte)
  BY PsiMatchAssumption DEF Element
<1>2. a \in Seq(Int)
  BY <1>1, SeqMonotonic, Zenon
<1> QED
  BY <1>2, LenProperties, ElementOfSeq

LEMMA LessIrreflexive ==
  ASSUME NEW a \in Element
  PROVE  ~ Less(a, a)
<1>1. Len(a) \in Nat /\ \A i \in 1 .. Len(a) : a[i] \in Int
  BY ElementBytes
<1>2. ~ (Len(a) < Len(a)) /\ Smaller(Len(a), Len(a)) = Len(a)
  BY <1>1 DEF Smaller
<1>3. \A i \in 1 .. Len(a) : ~ (a[i] < a[i])
  BY <1>1
<1> QED
  BY <1>2, <1>3 DEF Less

LEMMA LessTransitive ==
  ASSUME NEW a \in Element, NEW b \in Element, NEW c \in Element, Less(a, b), Less(b, c)
  PROVE  Less(a, c)
<1>1. Len(a) \in Nat /\ Len(b) \in Nat /\ Len(c) \in Nat
  BY ElementBytes
<1>2. /\ \A i \in 1 .. Len(a) : a[i] \in Int
      /\ \A i \in 1 .. Len(b) : b[i] \in Int
      /\ \A i \in 1 .. Len(c) : c[i] \in Int
  BY ElementBytes
<1> DEFINE Differ(x, y, i) == /\ i \in 1 .. Len(x) /\ i \in 1 .. Len(y) /\ x[i] < y[i]
                              /\ \A j \in 1 .. i - 1 : x[j] = y[j]
           Prefix(x, y)    == Len(x) < Len(y) /\ \A j \in 1 .. Len(x) : x[j] = y[j]
<1>3. (\E i \in Nat : Differ(a, b, i)) \/ Prefix(a, b)
  BY <1>1 DEF Less, Smaller
<1>4. (\E i \in Nat : Differ(b, c, i)) \/ Prefix(b, c)
  BY <1>1 DEF Less, Smaller
<1>5. ASSUME NEW i \in Nat, Differ(a, c, i) PROVE Less(a, c)
  BY <1>1, <1>5 DEF Less, Smaller
<1>6. ASSUME NEW i \in Nat, NEW k \in Nat, Differ(a, b, i), Differ(b, c, k) PROVE Less(a, c)
  <2>1. CASE i <= k
    <3>1. i \in 1 .. Len(a) /\ i \in 1 .. Len(c) /\ i \in 1 .. Len(b)
      BY <1>1, <1>6, <2>1
    <3>2. \A j \in 1 .. i - 1 : j \in 1 .. k - 1 /\ a[j] = b[j] /\ b[j] = c[j]
      BY <1>6, <2>1
    <3>3. a[i] < b[i] /\ (b[i] = c[i] \/ b[i] < c[i])
      BY <1>6, <2>1
    <3>4. a[i] \in Int /\ b[i] \in Int /\ c[i] \in Int
      BY <1>2, <3>1
    <3>5. a[i] < c[i]
      BY <3>3, <3>4
    <3>6. Differ(a, c, i)
      BY <3>1, <3>2, <3>5
    <3> QED
      BY <1>5, <3>6
  <2>2. CASE k < i
    <3>1. Differ(a, c, k)
      BY <1>1, <1>2, <1>6, <2>2
    <3> QED
      BY <1>5, <3>1
  <2> QED
    BY <2>1, <2>2
<1>7. ASSUME NEW i \in Nat, Differ(a, b, i), Prefix(b, c) PROVE Less(a, c)
  <2>1. Differ(a, c, i)
    BY <1>1, <1>2, <1>7
  <2> QED
    BY <1>5, <2>1
<1>8. ASSUME NEW k \in Nat, Prefix(a, b), Differ(b, c, k) PROVE Less(a, c)
  <2>1. CASE k <= Len(a)
    <3>1. Differ(a, c, k)
      BY <1>1, <1>2, <1>8, <2>1
    <3> QED
      BY <1>5, <3>1
  <2>2. CASE k > Len(a)
    <3>1. Len(a) < Len(c) /\ \A j \in 1 .. Len(a) : a[j] = c[j]
      BY <1>1, <1>8, <2>2
    <3> QED
      BY <3>1 DEF Less
  <2> QED
    BY <1>1, <2>1, <2>2
<1>9. ASSUME Prefix(a, b), Prefix(b, c) PROVE Less(a, c)
  <2>1. Len(a) < Len(c) /\ \A j \in 1 .. Len(a) : a[j] = c[j]
    BY <1>1, <1>9
  <2> QED
    BY <2>1 DEF Less
<1> QED
  BY <1>3, <1>4, <1>6, <1>7, <1>8, <1>9

\* The elements of a setup strictly ascend.
StrictlyAscends(su) == \A i, j \in 1 .. Len(su) : i < j => Less(su[i], su[j])

LEMMA AscendsAppend ==
  ASSUME setup \in Seq(Element), StrictlyAscends(setup), NEW e \in Element, Ascends(e)
  PROVE  StrictlyAscends(Append(setup, e))
<1> DEFINE su == Append(setup, e)
           n  == Len(setup)
<1>1. /\ n \in Nat /\ Len(su) = n + 1 /\ su[n + 1] = e
      /\ \A i \in 1 .. n : su[i] = setup[i] /\ setup[i] \in Element
  BY AppendProperties, ElementOfSeq
<1> SUFFICES ASSUME NEW i \in 1 .. Len(su), NEW j \in 1 .. Len(su), i < j
             PROVE  Less(su[i], su[j])
  BY DEF StrictlyAscends
<1>2. CASE j <= n
  BY <1>1, <1>2 DEF StrictlyAscends
<1>3. CASE j = n + 1
  <2>1. i \in 1 .. n /\ n \in 1 .. n /\ setup # << >>
    BY <1>1, <1>3
  <2>2. Less(setup[n], e) /\ (i = n \/ Less(setup[i], setup[n]))
    BY <2>1 DEF Ascends, StrictlyAscends
  <2>3. Less(setup[i], e)
    BY <1>1, <2>1, <2>2, LessTransitive
  <2> QED
    BY <1>1, <1>3, <2>1, <2>3
<1> QED
  BY <1>1, <1>2, <1>3

LEMMA AscendsOnce ==
  ASSUME NEW su \in Seq(Element), StrictlyAscends(su), NEW i \in 1 .. Len(su),
         NEW j \in 1 .. Len(su),
         su[i] = su[j]
  PROVE  i = j
<1>1. Len(su) \in Nat /\ su[i] \in Element /\ su[j] \in Element
  BY ElementOfSeq
<1>2. ~ Less(su[i], su[j]) /\ ~ Less(su[j], su[i])
  BY <1>1, LessIrreflexive
<1> QED
  BY <1>1, <1>2 DEF StrictlyAscends

(***************************************************************************)
(* The bits and the pairs stand for the first n entries of the response    *)
(* re, and for no other.                                                   *)
(***************************************************************************)
BitsStand(n, su, re, bits) ==
  \A p : p \in bits <=> /\ p \in 0 .. Len(su) - 1
                        /\ \E i \in 1 .. n : su[p + 1] = Decrypt(re[i])

PairsAreEqual(n, su, re, ps) ==
  \A k \in 1 .. Len(ps) : \E i \in 1 .. n : \E p \in 1 .. Len(su) :
    ps[k] = <<i - 1, p - 1>> /\ su[p] = Decrypt(re[i])
EqualArePairs(n, su, re, ps) ==
  \A i \in 1 .. n : \A p \in 1 .. Len(su) :
    su[p] = Decrypt(re[i]) => \E k \in 1 .. Len(ps) : ps[k] = <<i - 1, p - 1>>
PairsInOrder(ps) ==
  \A k, l \in 1 .. Len(ps) : k < l => ps[k][1] < ps[l][1]

PairsStand(n, su, re, ps) ==
  PairsAreEqual(n, su, re, ps) /\ EqualArePairs(n, su, re, ps) /\ PairsInOrder(ps)

LEMMA NoneStand ==
  ASSUME NEW su
  PROVE  BitsStand(0, su, << >>, {}) /\ PairsStand(0, su, << >>, << >>)
BY DEF BitsStand, PairsStand, PairsAreEqual, EqualArePairs, PairsInOrder

LEMMA StandAppend ==
  ASSUME NEW su, NEW re \in Seq(Element), NEW e \in Element, NEW bits, NEW ps,
         NEW n \in Nat, n <= Len(re)
  PROVE  /\ BitsStand(n, su, re, bits) => BitsStand(n, su, Append(re, e), bits)
         /\ PairsStand(n, su, re, ps) => PairsStand(n, su, Append(re, e), ps)
<1>1. \A i \in 1 .. n : Append(re, e)[i] = re[i]
  BY AppendProperties
<1>2. BitsStand(n, su, re, bits) => BitsStand(n, su, Append(re, e), bits)
  BY <1>1 DEF BitsStand
<1>3. PairsStand(n, su, re, ps) => PairsStand(n, su, Append(re, e), ps)
  <2>1. PairsAreEqual(n, su, re, ps) => PairsAreEqual(n, su, Append(re, e), ps)
    <3>1. SUFFICES ASSUME PairsAreEqual(n, su, re, ps), NEW k \in 1 .. Len(ps)
                   PROVE  \E i \in 1 .. n : \E p \in 1 .. Len(su) :
                            /\ ps[k] = <<i - 1, p - 1>>
                            /\ su[p] = Decrypt(Append(re, e)[i])
      BY DEF PairsAreEqual
    <3>2. PICK i \in 1 .. n : \E p \in 1 .. Len(su) :
            ps[k] = <<i - 1, p - 1>> /\ su[p] = Decrypt(re[i])
      BY <3>1 DEF PairsAreEqual
    <3>3. Append(re, e)[i] = re[i]
      BY <1>1
    <3> QED
      BY <3>2, <3>3
  <2>2. EqualArePairs(n, su, re, ps) => EqualArePairs(n, su, Append(re, e), ps)
    BY <1>1 DEF EqualArePairs
  <2> QED
    BY <2>1, <2>2 DEF PairsStand
<1> QED
  BY <1>2, <1>3

LEMMA StandMiss ==
  ASSUME NEW su, NEW re, NEW bits, NEW ps, NEW n \in Nat,
         \A p \in 1 .. Len(su) : su[p] # Decrypt(re[n + 1]), Len(su) \in Nat
  PROVE  /\ BitsStand(n, su, re, bits) => BitsStand(n + 1, su, re, bits)
         /\ PairsStand(n, su, re, ps) => PairsStand(n + 1, su, re, ps)
<1>1. \A i : i \in 1 .. n + 1 <=> i \in 1 .. n \/ i = n + 1
  OBVIOUS
<1>2. ASSUME BitsStand(n, su, re, bits) PROVE BitsStand(n + 1, su, re, bits)
  <2>1. \A p \in 0 .. Len(su) - 1 : p + 1 \in 1 .. Len(su)
    OBVIOUS
  <2> QED
    BY <1>1, <1>2, <2>1 DEF BitsStand
<1>3. ASSUME PairsStand(n, su, re, ps) PROVE PairsStand(n + 1, su, re, ps)
  BY <1>1, <1>3 DEF PairsStand, PairsAreEqual, EqualArePairs
<1> QED
  BY <1>2, <1>3

LEMMA StandHit ==
  ASSUME NEW su \in Seq(Element), StrictlyAscends(su), NEW re, NEW bits,
         NEW ps \in Seq(Nat \X Nat),
         NEW n \in Nat, NEW q \in 1 .. Len(su), su[q] = Decrypt(re[n + 1])
  PROVE  /\ BitsStand(n, su, re, bits) => BitsStand(n + 1, su, re, bits \cup {q - 1})
         /\ PairsStand(n, su, re, ps) => PairsStand(n + 1, su, re, Append(ps, <<n, q - 1>>))
<1>0. Len(su) \in Nat /\ Len(ps) \in Nat /\ q \in Nat
  OBVIOUS
<1>1. \A i : i \in 1 .. n + 1 <=> i \in 1 .. n \/ i = n + 1
  OBVIOUS
<1>2. \A p \in 1 .. Len(su) : su[p] = Decrypt(re[n + 1]) <=> p = q
  BY AscendsOnce
<1>3. ASSUME BitsStand(n, su, re, bits) PROVE BitsStand(n + 1, su, re, bits \cup {q - 1})
  <2>1. \A p \in 0 .. Len(su) - 1 : p + 1 \in 1 .. Len(su) /\ (p + 1 = q <=> p = q - 1)
    BY <1>0
  <2>2. q - 1 \in 0 .. Len(su) - 1
    BY <1>0
  <2> QED
    BY <1>1, <1>2, <1>3, <2>1, <2>2 DEF BitsStand
<1>4. ASSUME PairsStand(n, su, re, ps)
      PROVE  PairsStand(n + 1, su, re, Append(ps, <<n, q - 1>>))
  <2> DEFINE qs == Append(ps, <<n, q - 1>>)
             m  == Len(ps)
  <2>1. <<n, q - 1>> \in Nat \X Nat
    BY <1>0
  <2>2. Len(qs) = m + 1 /\ qs[m + 1] = <<n, q - 1>> /\ \A k \in 1 .. m : qs[k] = ps[k]
    BY <2>1, AppendProperties
  <2>3. \A k : k \in 1 .. m + 1 <=> k \in 1 .. m \/ k = m + 1
    BY <1>0
  <2> HIDE DEF qs
  <2>4. ASSUME NEW k \in 1 .. Len(qs)
        PROVE  \E i \in 1 .. n + 1 : \E p \in 1 .. Len(su) :
                 qs[k] = <<i - 1, p - 1>> /\ su[p] = Decrypt(re[i])
    <3>1. CASE k \in 1 .. m
      BY <1>1, <1>4, <2>2, <3>1, ZenonT(60) DEF PairsStand, PairsAreEqual
    <3>2. CASE k = m + 1
      <4>1. qs[k] = <<(n + 1) - 1, q - 1>> /\ n + 1 \in 1 .. n + 1
        BY <2>2, <3>2
      <4> QED
        BY <4>1
    <3> QED
      BY <2>2, <2>3, <3>1, <3>2
  <2>5. ASSUME NEW i \in 1 .. n + 1, NEW p \in 1 .. Len(su), su[p] = Decrypt(re[i])
        PROVE  \E k \in 1 .. Len(qs) : qs[k] = <<i - 1, p - 1>>
    <3>1. CASE i \in 1 .. n
      <4>1. PICK k \in 1 .. m : ps[k] = <<i - 1, p - 1>>
        BY <1>4, <2>5, <3>1 DEF PairsStand, EqualArePairs
      <4> QED
        BY <2>2, <2>3, <4>1
    <3>2. CASE i = n + 1
      <4>1. p = q /\ i - 1 = n
        BY <1>2, <2>5, <3>2
      <4> QED
        BY <1>0, <2>2, <2>3, <4>1
    <3> QED
      BY <1>1, <3>1, <3>2
  <2>6. ASSUME NEW k \in 1 .. Len(qs), NEW l \in 1 .. Len(qs), k < l
        PROVE  qs[k][1] < qs[l][1]
    <3>1. k \in 1 .. m
      BY <1>0, <2>2, <2>6
    <3>2. CASE l \in 1 .. m
      BY <1>4, <2>2, <2>6, <3>1, <3>2 DEF PairsStand, PairsInOrder
    <3>3. CASE l = m + 1
      <4>1. \E i \in 1 .. n : \E p \in 1 .. Len(su) : ps[k] = <<i - 1, p - 1>>
        BY <1>4, <3>1 DEF PairsStand, PairsAreEqual
      <4> QED
        BY <2>2, <3>1, <3>3, <4>1, SMTT(60)
    <3> QED
      BY <2>2, <2>3, <3>2, <3>3
  <2>7. PairsAreEqual(n + 1, su, re, qs)
    BY <2>4 DEF PairsAreEqual
  <2>8. EqualArePairs(n + 1, su, re, qs)
    BY <2>5 DEF EqualArePairs
  <2>9. PairsInOrder(qs)
    BY <2>6 DEF PairsInOrder
  <2> QED
    BY <2>7, <2>8, <2>9 DEF PairsStand, qs
<1> QED
  BY <1>3, <1>4

(***************************************************************************)
(* The inductive invariant behind MatchedExactly.  done is the number of   *)
(* response entries whose search has ended.                                *)
(***************************************************************************)
done == decryptedCount + (IF pc = "search" THEN item ELSE 0)

PhaseInv ==
  /\ pc = "setup" => phase = "setup"
  /\ pc \in {"response", "decrypt", "search", "thrown"} => phase = "matching"
  /\ phase = "setup" =>
       decryptedCount = 0 /\ matched = {} /\ pairs = << >> /\ batch = << >> /\ received = << >>

\* What has been received is what has been decrypted and then the batch.
ReceivedInv ==
  failure = "OK" /\ phase = "matching" =>
    /\ Len(received) = decryptedCount + Len(batch)
    /\ \A i \in 1 .. Len(batch) : received[decryptedCount + i] = batch[i]
    /\ pc = "idle" => batch = << >>
    /\ pc = "search" =>
         Len(plain) = Len(batch) /\ \A i \in 1 .. Len(plain) : plain[i] = Decrypt(batch[i])

StandInv ==
  failure = "OK" /\ phase = "matching" =>
    /\ BitsStand(done, setup, received, matched)
    /\ reveal => PairsStand(done, setup, received, pairs)
    /\ ~ reveal => pairs = << >>

\* What lies outside the search's bounds is not the element searched for.
SearchInv ==
  pc = "search" /\ item < Len(plain) =>
    /\ high <= Len(setup)
    /\ \A j \in 1 .. low : j <= Len(setup) => Less(setup[j], plain[item + 1])
    /\ \A j \in high + 1 .. Len(setup) : Less(plain[item + 1], setup[j])

MatchInv ==
  /\ ShapeInv /\ PhaseInv /\ StrictlyAscends(setup) /\ ReceivedInv /\ StandInv /\ SearchInv

LEMMA RefusedMatch ==
  ASSUME MatchInv, NEW status \in Statuses \ {"OK"}, Refused(status)
  PROVE  MatchInv'
<1>1. ShapeInv' /\ failure' # "OK" /\ pc' = "idle"
  BY RefusedTypes DEF MatchInv, Refused, Fail
<1>2. PhaseInv' /\ StrictlyAscends(setup)' /\ ReceivedInv' /\ StandInv' /\ SearchInv'
  BY <1>1
  DEF MatchInv, Refused, PhaseInv, ReceivedInv, StandInv, SearchInv, StrictlyAscends, matching,
      history
<1> QED
  BY <1>1, <1>2 DEF MatchInv

LEMMA AlreadyFailedMatch ==
  ASSUME MatchInv, AlreadyFailed
  PROVE  MatchInv'
<1>1. ShapeInv' /\ failure' # "OK"
  BY AlreadyFailedTypes DEF MatchInv, AlreadyFailed
<1>2. PhaseInv' /\ StrictlyAscends(setup)' /\ ReceivedInv' /\ StandInv' /\ SearchInv'
  BY <1>1
  DEF MatchInv, AlreadyFailed, PhaseInv, ReceivedInv, StandInv, SearchInv, StrictlyAscends,
      matching,
              search, history
<1> QED
  BY <1>1, <1>2 DEF MatchInv

LEMMA BeginWindowMatch ==
  ASSUME MatchInv, NEW m \in Stream, NEW bytes \in Seq(Byte), BeginWindow(m, bytes),
         failure = "OK", pc = "idle", phase = IF m = "setup" THEN "setup" ELSE "matching"
  PROVE  MatchInv'
<1>1. ShapeInv'
  BY BeginWindowTypes DEF MatchInv
<1>2. done' = done /\ pc' = m
      /\ UNCHANGED <<phase, failure, setup, batch, matching, plain, received, reveal>>
  BY DEF BeginWindow, done, matching, search, Stream
<1>3. PhaseInv' /\ StrictlyAscends(setup)' /\ ReceivedInv' /\ StandInv' /\ SearchInv'
  BY <1>2
  DEF MatchInv, PhaseInv, ReceivedInv, StandInv, SearchInv, StrictlyAscends, matching, Stream
<1> QED
  BY <1>1, <1>3 DEF MatchInv

LEMMA NewCallMatch ==
  ASSUME MatchInv, NewCall
  PROVE  MatchInv'
<1> USE PsiMatchAssumption
<1>0. ShapeInv'
  BY NewCallTypes DEF MatchInv
<1>1. ASSUME NEW bytes \in SetupWindows, AddSetupBytes(bytes) PROVE MatchInv'
  BY <1>1, RefusedMatch, AlreadyFailedMatch, BeginWindowMatch
  DEF AddSetupBytes, Statuses, Stream
<1>2. ASSUME NEW bytes \in ResponseWindows, MatchResponsePiece(bytes) PROVE MatchInv'
  BY <1>2, RefusedMatch, AlreadyFailedMatch, BeginWindowMatch
  DEF MatchResponsePiece, Statuses, Stream
<1>3. ASSUME SealSetup PROVE MatchInv'
  <2>1. CASE failure = "OK" /\ phase = "setup" /\ phase' = "matching" /\ matched' = {}
             /\ UNCHANGED <<reveal, failure, framing, reader, setup, batch,
                       decryptedCount, pairs, pc, window, search, result, history>>
    <3>1. /\ pc = "idle" /\ decryptedCount' = 0 /\ pairs' = << >> /\ batch' = << >>
          /\ received' = << >> /\ setup' = setup /\ pc' = "idle" /\ matched' = {}
      BY <1>3, <2>1 DEF SealSetup, MatchInv, PhaseInv, history
    <3>2. done' = 0
      BY <3>1 DEF done
    <3>3. BitsStand(0, setup, << >>, {}) /\ PairsStand(0, setup, << >>, << >>)
      BY NoneStand
    <3>4. StandInv'
      BY <3>1, <3>2, <3>3 DEF StandInv
    <3>5. PhaseInv' /\ ReceivedInv' /\ SearchInv' /\ StrictlyAscends(setup)'
      BY <2>1, <3>1 DEF MatchInv, PhaseInv, ReceivedInv, SearchInv, StrictlyAscends
    <3> QED
      BY <1>0, <3>4, <3>5 DEF MatchInv
  <2> QED
    BY <1>3, <2>1, RefusedMatch, AlreadyFailedMatch DEF SealSetup, Statuses
<1>4. ASSUME Finish PROVE MatchInv'
  <2>1. CASE setup' = << >> /\ phase' = "finished" /\ UNCHANGED pc
    <3>1. pc' = "idle" /\ StrictlyAscends(<< >>)
      BY <1>4, <2>1 DEF Finish, StrictlyAscends
    <3>2. PhaseInv' /\ ReceivedInv' /\ SearchInv' /\ StandInv'
      BY <2>1, <3>1 DEF PhaseInv, ReceivedInv, SearchInv, StandInv
    <3> QED
      BY <1>0, <2>1, <3>1, <3>2 DEF MatchInv
  <2> QED
    BY <1>4, <2>1, RefusedMatch, AlreadyFailedMatch DEF Finish, Statuses
<1> QED
  BY <1>1, <1>2, <1>3, <1>4 DEF NewCall

\* A step of the setup's frame changes nothing of the match.
LEMMA SetupMatch ==
  ASSUME MatchInv, SetupTag \/ SetupLength \/ RawEnds \/ SetupTrailing \/ SetupReturns
  PROVE  MatchInv'
<1>0. ShapeInv' /\ pc = "setup" /\ phase = "setup" /\ pc' \in {"idle", "setup"}
  BY SetupTypes
  DEF MatchInv, PhaseInv, SetupTag, SetupLength, RawEnds, SetupTrailing, SetupReturns, Refused,
      Fail
<1>1. UNCHANGED <<phase, setup, batch, matching, received>>
  BY DEF SetupTag, SetupLength, RawEnds, SetupTrailing, SetupReturns, Refused, history
<1>2. PhaseInv' /\ ReceivedInv' /\ SearchInv' /\ StandInv' /\ StrictlyAscends(setup)'
  BY <1>0, <1>1
  DEF MatchInv, PhaseInv, ReceivedInv, SearchInv, StandInv, StrictlyAscends, matching
<1> QED
  BY <1>0, <1>2 DEF MatchInv

\* A step of a reader that ends no entry, or is refused, changes nothing of it.
LEMMA FedMatch ==
  ASSUME MatchInv, ShapeInv', NEW m \in Stream, pc = m,
         UNCHANGED <<Unfed, setup, batch, received>>,
         (failure' # "OK" /\ pc' = "idle") \/ UNCHANGED <<failure, pc>>
  PROVE  MatchInv'
<1>1. UNCHANGED <<phase, setup, batch, received, reveal, decryptedCount, matched, pairs>>
  BY DEF Unfed, matching
<1>2. pc # "search" /\ pc' # "search" /\ done' = done
  BY <1>1 DEF Stream, done
<1>3. PhaseInv' /\ ReceivedInv' /\ SearchInv' /\ StrictlyAscends(setup)'
  BY <1>1, <1>2 DEF MatchInv, PhaseInv, ReceivedInv, SearchInv, StrictlyAscends, Stream
<1>4. StandInv'
  BY <1>1, <1>2 DEF MatchInv, StandInv
<1> QED
  BY <1>3, <1>4 DEF MatchInv

LEMMA OnEntryMatch ==
  ASSUME MatchInv, ShapeInv', NEW m \in Stream, pc = m, NEW e \in Element, NEW rest,
         OnEntry(m, e, rest), UNCHANGED Unfed
  PROVE  MatchInv'
<1>0. /\ pc \in {"setup", "response"} /\ failure = "OK" /\ phase' = phase /\ reveal' = reveal
      /\ UNCHANGED <<decryptedCount, matched, pairs>>
      /\ setup \in Seq(Element) /\ batch \in Seq(Element) /\ received \in Seq(Element)
      /\ decryptedCount \in Nat /\ Len(batch) \in Nat /\ Len(received) \in Nat
  BY SMTT(60) DEF MatchInv, ShapeInv, RefusalInv, TypeOK, Stream, Unfed, matching
<1>1. CASE Fail("too_many") /\ UNCHANGED <<setup, batch, received>>
  BY <1>1, FedMatch DEF Fail
<1>2. CASE Fail("not_ascending") /\ UNCHANGED <<setup, batch, received>>
  BY <1>2, FedMatch DEF Fail
<1>3. CASE /\ m = "setup" /\ Ascends(e) /\ setup' = Append(setup, e)
           /\ UNCHANGED <<failure, pc, batch, received>>
  <2>1. StrictlyAscends(setup')
    BY <1>0, <1>3, AscendsAppend DEF MatchInv
  <2>2. phase = "setup" /\ phase' = "setup" /\ pc' = "setup"
    BY <1>0, <1>3 DEF MatchInv, PhaseInv
  <2>3. PhaseInv' /\ ReceivedInv' /\ SearchInv' /\ StandInv'
    BY <1>0, <1>3, <2>2 DEF MatchInv, PhaseInv, ReceivedInv, SearchInv, StandInv
  <2> QED
    BY <2>1, <2>3 DEF MatchInv
<1>4. CASE /\ m = "response" /\ batch' = Append(batch, e) /\ received' = Append(received, e)
           /\ pc' \in {"decrypt", "response"} /\ UNCHANGED <<failure, setup>>
  <2>1. pc = "response" /\ phase = "matching" /\ phase' = "matching"
        /\ done = decryptedCount /\ done' = decryptedCount
    BY <1>0, <1>4 DEF MatchInv, PhaseInv, done
  <2>2. /\ Len(batch') = Len(batch) + 1 /\ batch'[Len(batch) + 1] = e
        /\ \A i \in 1 .. Len(batch) : batch'[i] = batch[i]
    BY <1>0, <1>4, AppendProperties
  <2>3. /\ Len(received') = Len(received) + 1 /\ received'[Len(received) + 1] = e
        /\ \A i \in 1 .. Len(received) : received'[i] = received[i]
    BY <1>0, <1>4, AppendProperties
  <2>4. /\ Len(received) = decryptedCount + Len(batch)
        /\ \A i \in 1 .. Len(batch) : received[decryptedCount + i] = batch[i]
    BY <1>0, <2>1 DEF MatchInv, ReceivedInv
  <2>5. ASSUME NEW i \in 1 .. Len(batch') PROVE received'[decryptedCount + i] = batch'[i]
    <3>1. i \in 1 .. Len(batch) \/ i = Len(batch) + 1
      BY <1>0, <2>2
    <3>2. CASE i \in 1 .. Len(batch)
      <4>1. decryptedCount + i \in 1 .. Len(received)
        BY <1>0, <2>4, <3>2
      <4> QED
        BY <2>2, <2>3, <2>4, <3>2, <4>1
    <3>3. CASE i = Len(batch) + 1
      <4>1. decryptedCount + i = Len(received) + 1
        BY <1>0, <2>4, <3>3
      <4> QED
        BY <2>2, <2>3, <3>3, <4>1
    <3> QED
      BY <3>1, <3>2, <3>3
  <2>6. ReceivedInv'
    <3>1. Len(received') = decryptedCount' + Len(batch')
      BY <1>0, <2>2, <2>3, <2>4
    <3> QED
      BY <1>0, <1>4, <2>5, <3>1 DEF ReceivedInv
  <2>7. decryptedCount <= Len(received)
    BY <1>0, <2>4
  <2>8. /\ BitsStand(done, setup, received, matched)
        /\ reveal => PairsStand(done, setup, received, pairs)
        /\ ~ reveal => pairs = << >>
    BY <1>0, <2>1 DEF MatchInv, StandInv
  <2>9. /\ BitsStand(done', setup, received', matched)
        /\ reveal => PairsStand(done', setup, received', pairs)
    BY <1>0, <1>4, <2>1, <2>7, <2>8, StandAppend
  <2>10. StandInv'
    BY <1>0, <1>4, <2>8, <2>9 DEF StandInv
  <2>11. PhaseInv' /\ SearchInv' /\ StrictlyAscends(setup)'
    BY <1>0, <1>4, <2>1 DEF MatchInv, PhaseInv, SearchInv, StrictlyAscends
  <2> QED
    BY <2>6, <2>10, <2>11 DEF MatchInv
<1>5. m = "setup" => AddSetupElement(e, rest)
  BY DEF OnEntry
<1>6. m = "response" => AddResponseElement(e, rest)
  BY DEF OnEntry
<1>7. CASE m = "setup"
  BY <1>1, <1>2, <1>3, <1>5, <1>7 DEF AddSetupElement
<1>8. CASE m = "response"
  BY <1>1, <1>4, <1>6, <1>8 DEF AddResponseElement
<1> QED
  BY <1>7, <1>8 DEF Stream

LEMMA FeedMatch ==
  ASSUME MatchInv, NEW m \in Stream, FeedTag(m) \/ FeedLength(m) \/ FeedBody(m)
  PROVE  MatchInv'
<1>0. ShapeInv /\ ShapeInv'
  BY FeedTagTypes, FeedLengthTypes, FeedBodyTypes DEF MatchInv
<1>1. InFeed(m) /\ pc = m /\ UNCHANGED Unfed
  BY DEF FeedTag, FeedLength, FeedBody, InFeed
<1>2. CASE /\ UNCHANGED <<setup, batch, received>>
           /\ UNCHANGED <<failure, pc>> \/ \E status \in Statuses \ {"OK"} : Fail(status)
  BY <1>0, <1>1, <1>2, FedMatch DEF Fail
<1>3. CASE \E e \in Element, rest \in Seq(Byte) : OnEntry(m, e, rest)
  BY <1>0, <1>1, <1>3, OnEntryMatch
<1>4. CASE FeedTag(m)
  BY <1>2, <1>4 DEF FeedTag, Statuses
<1>5. CASE FeedLength(m)
  <2>1. << >> \in Element /\ After(1) \in Seq(Byte)
    BY <1>0, <1>1, FeedingState, EmptySeq DEF Element
  <2> QED
    BY <1>2, <1>3, <1>5, <2>1 DEF FeedLength, Statuses
<1>6. CASE FeedBody(m)
  <2> DEFINE wanted == reader[m].length - Len(reader[m].body)
             taken  == Smaller(wanted, Available(m))
             body   == reader[m].body \o SubSeq(window, 1, taken)
  <2>1. CASE taken = wanted
    <3>1. body \in Element /\ After(taken) \in Seq(Byte)
      BY <1>0, <1>6, FeedBodyEntry
    <3>2. OnEntry(m, body, After(taken))
      BY <1>6, <2>1 DEF FeedBody
    <3> HIDE DEF body, taken
    <3> QED
      BY <1>3, <3>1, <3>2
  <2>2. CASE taken # wanted
    BY <1>2, <1>6, <2>2 DEF FeedBody
  <2> QED
    BY <2>1, <2>2
<1> QED
  BY <1>4, <1>5, <1>6

LEMMA DecryptBatchMatch ==
  ASSUME MatchInv, DecryptBatch
  PROVE  MatchInv'
<1>0. ShapeInv' /\ pc = "decrypt" /\ phase = "matching" /\ failure = "OK" /\ Len(setup) \in Nat
      /\ Len(batch) \in Nat /\ decryptedCount \in Nat
      /\ UNCHANGED <<reveal, phase, setup, batch, decryptedCount, matched, pairs, received>>
  <2>1. ShapeInv' /\ TypeOK /\ RefusalInv
    BY DecryptBatchTypes DEF MatchInv, ShapeInv
  <2> QED
    BY <2>1 DEF MatchInv, PhaseInv, RefusalInv, TypeOK, DecryptBatch, matching, history
<1>1. CASE Fail("undecryptable")
  BY <1>0, <1>1 DEF Fail, MatchInv, PhaseInv, ReceivedInv, StandInv, SearchInv, StrictlyAscends
<1>2. CASE /\ plain' = [i \in 1 .. Len(batch) |-> Decrypt(batch[i])]
           /\ item' = 0 /\ low' = 0 /\ high' = Len(setup)
           /\ pc' = "search" /\ UNCHANGED <<failure, returned, window>>
  <2>1. Len(plain') = Len(batch)
    BY <1>2, DecryptBatchTypes DEF MatchInv
  <2>2. ReceivedInv'
    BY <1>0, <1>2, <2>1 DEF MatchInv, ReceivedInv
  <2>3. done = decryptedCount /\ done' = decryptedCount
    BY <1>0, <1>2 DEF done
  <2>4. StandInv'
    BY <1>0, <1>2, <2>3 DEF MatchInv, StandInv
  <2>5. SearchInv'
    BY <1>0, <1>2 DEF SearchInv
  <2>6. PhaseInv' /\ StrictlyAscends(setup)'
    BY <1>0, <1>2 DEF MatchInv, PhaseInv, StrictlyAscends
  <2> QED
    BY <1>0, <2>2, <2>4, <2>5, <2>6 DEF MatchInv
<1> QED
  BY <1>1, <1>2 DEF DecryptBatch

\* What a step of the search knows.
LEMMA SearchState ==
  ASSUME MatchInv, Probing
  PROVE  /\ pc = "search" /\ phase = "matching" /\ failure = "OK"
         /\ setup \in Seq(Element) /\ Len(setup) \in Nat /\ plain \in Seq(Element)
         /\ Len(plain) \in Nat /\ item \in Nat /\ item + 1 \in 1 .. Len(plain)
         /\ plain[item + 1] \in Element /\ low \in Nat /\ high \in Nat
         /\ \A j \in 1 .. Len(setup) : setup[j] \in Element
         /\ decryptedCount \in Nat /\ pairs \in Seq(Nat \X Nat)
         /\ Len(plain) = Len(batch) /\ plain[item + 1] = Decrypt(received[done + 1])
         /\ done = decryptedCount + item
<1>1. /\ pc = "search" /\ phase = "matching" /\ failure = "OK"
      /\ setup \in Seq(Element) /\ Len(setup) \in Nat /\ plain \in Seq(Element)
      /\ Len(plain) \in Nat /\ item \in Nat /\ item + 1 \in 1 .. Len(plain)
      /\ low \in Nat /\ high \in Nat /\ decryptedCount \in Nat /\ pairs \in Seq(Nat \X Nat)
  BY DEF Probing, MatchInv, ShapeInv, TypeOK, PhaseInv, RefusalInv
<1>2. plain[item + 1] \in Element /\ \A j \in 1 .. Len(setup) : setup[j] \in Element
  BY <1>1, ElementOfSeq
<1>3. /\ Len(plain) = Len(batch) /\ plain[item + 1] = Decrypt(batch[item + 1])
      /\ received[decryptedCount + (item + 1)] = batch[item + 1]
  BY <1>1 DEF MatchInv, ReceivedInv
<1>4. done = decryptedCount + item /\ done + 1 = decryptedCount + (item + 1)
  BY <1>1 DEF done
<1> QED
  BY <1>1, <1>2, <1>3, <1>4

LEMMA ProbeMatch ==
  ASSUME MatchInv, ProbeLow \/ ProbeHigh
  PROVE  MatchInv'
<1>0. /\ Probing /\ low < high
      /\ UNCHANGED <<reveal, phase, failure, setup, batch, decryptedCount, matched, pairs, pc,
                     plain, item, received>>
  BY DEF ProbeLow, ProbeHigh, matching, history
<1>1. ShapeInv'
  BY MatchTypes DEF MatchInv
<1>2. /\ pc = "search" /\ item < Len(plain)
      /\ Len(setup) \in Nat /\ item \in Nat /\ plain[item + 1] \in Element
      /\ low \in Nat /\ high \in Nat /\ \A j \in 1 .. Len(setup) : setup[j] \in Element
  BY <1>0, SearchState DEF Probing
<1>3. /\ high <= Len(setup)
      /\ \A j \in 1 .. low : j <= Len(setup) => Less(setup[j], plain[item + 1])
      /\ \A j \in high + 1 .. Len(setup) : Less(plain[item + 1], setup[j])
  BY <1>2 DEF MatchInv, SearchInv
<1>4. Middle \in low .. high - 1 /\ Middle + 1 \in 1 .. Len(setup) /\ Middle \in Nat
  BY <1>0, <1>2, <1>3, MiddleBetween
<1>5. ASSUME ProbeLow PROVE SearchInv'
  <2>1. high' = Middle /\ low' = low /\ Less(plain[item + 1], setup[Middle + 1])
    BY <1>5 DEF ProbeLow
  <2>2. ASSUME NEW j \in Middle + 1 .. Len(setup) PROVE Less(plain[item + 1], setup[j])
    <3>1. CASE j = Middle + 1
      BY <2>1, <3>1
    <3>2. CASE j > Middle + 1
      <4>1. j \in 1 .. Len(setup) /\ Less(setup[Middle + 1], setup[j])
        BY <1>2, <1>4, <3>2 DEF MatchInv, StrictlyAscends
      <4> QED
        BY <1>2, <1>4, <2>1, <4>1, LessTransitive
    <3> QED
      BY <1>4, <3>1, <3>2
  <2> QED
    BY <1>0, <1>2, <1>3, <1>4, <2>1, <2>2 DEF SearchInv
<1>6. ASSUME ProbeHigh PROVE SearchInv'
  <2>1. low' = Middle + 1 /\ high' = high /\ Less(setup[Middle + 1], plain[item + 1])
    BY <1>6 DEF ProbeHigh
  <2>2. ASSUME NEW j \in 1 .. Middle + 1 PROVE Less(setup[j], plain[item + 1])
    <3>1. CASE j = Middle + 1
      BY <2>1, <3>1
    <3>2. CASE j < Middle + 1
      <4>1. j \in 1 .. Len(setup) /\ Less(setup[j], setup[Middle + 1])
        BY <1>2, <1>4, <3>2 DEF MatchInv, StrictlyAscends
      <4> QED
        BY <1>2, <1>4, <2>1, <4>1, LessTransitive
    <3> QED
      BY <1>4, <3>1, <3>2
  <2> QED
    BY <1>0, <1>2, <1>3, <2>1, <2>2 DEF SearchInv
<1>7. done' = done
  BY <1>0 DEF done
<1>8. PhaseInv' /\ StrictlyAscends(setup)' /\ ReceivedInv' /\ StandInv'
  BY <1>0, <1>7 DEF MatchInv, PhaseInv, StrictlyAscends, ReceivedInv, StandInv
<1> QED
  BY <1>1, <1>5, <1>6, <1>8 DEF MatchInv

LEMMA FoundMatch ==
  ASSUME MatchInv, Found \/ NotFound
  PROVE  MatchInv'
<1>0. /\ Probing /\ item' = item + 1 /\ low' = 0 /\ high' = Len(setup)
      /\ UNCHANGED <<reveal, phase, failure, setup, batch, decryptedCount, pc, plain, received>>
  BY DEF Found, NotFound, matching, history
<1>1. ShapeInv'
  BY MatchTypes DEF MatchInv
<1>2. /\ pc = "search" /\ phase = "matching" /\ failure = "OK" /\ item < Len(plain)
      /\ setup \in Seq(Element) /\ Len(setup) \in Nat /\ item \in Nat /\ plain[item + 1] \in Element
      /\ low \in Nat /\ high \in Nat /\ \A j \in 1 .. Len(setup) : setup[j] \in Element
      /\ decryptedCount \in Nat /\ pairs \in Seq(Nat \X Nat)
      /\ plain[item + 1] = Decrypt(received[done + 1]) /\ done = decryptedCount + item
  BY <1>0, SearchState DEF Probing
<1>3. /\ high <= Len(setup)
      /\ \A j \in 1 .. low : j <= Len(setup) => Less(setup[j], plain[item + 1])
      /\ \A j \in high + 1 .. Len(setup) : Less(plain[item + 1], setup[j])
  BY <1>2 DEF MatchInv, SearchInv
<1>4. done' = done + 1 /\ done \in Nat
  BY <1>0, <1>2 DEF done
<1>5. /\ BitsStand(done, setup, received, matched)
      /\ reveal => PairsStand(done, setup, received, pairs)
      /\ ~ reveal => pairs = << >>
  BY <1>2 DEF MatchInv, StandInv
<1>6. ASSUME Found PROVE StandInv'
  <2>1. Middle \in low .. high - 1 /\ plain[item + 1] = setup[Middle + 1]
    BY <1>2, <1>6, MiddleBetween DEF Found
  <2> DEFINE q == Middle + 1
  <2>2. q \in 1 .. Len(setup) /\ q - 1 = Middle /\ setup[q] = Decrypt(received[done + 1])
    BY <1>2, <1>3, <2>1
  <2>3. matched' = matched \cup {q - 1} /\ ResponseIndex = done
        /\ pairs' = IF reveal THEN Append(pairs, <<done, q - 1>>) ELSE pairs
    BY <1>2, <1>6, <2>2 DEF Found, ResponseIndex
  <2>4. StrictlyAscends(setup)
    BY DEF MatchInv
  <2> HIDE DEF q
  <2>5. /\ BitsStand(done + 1, setup, received, matched')
        /\ reveal => PairsStand(done + 1, setup, received, pairs')
    BY <1>2, <1>4, <1>5, <2>2, <2>3, <2>4, StandHit
  <2> QED
    BY <1>0, <1>4, <1>5, <2>3, <2>5 DEF StandInv
<1>7. ASSUME NotFound PROVE StandInv'
  <2>1. low >= high /\ UNCHANGED <<matched, pairs>>
    BY <1>7 DEF NotFound, matching
  <2>2. ASSUME NEW p \in 1 .. Len(setup) PROVE setup[p] # Decrypt(received[done + 1])
    <3>1. p \in 1 .. low \/ p \in high + 1 .. Len(setup)
      BY <1>2, <2>1
    <3>2. Less(setup[p], plain[item + 1]) \/ Less(plain[item + 1], setup[p])
      BY <1>3, <3>1
    <3> QED
      BY <1>2, <3>2, LessIrreflexive
  <2>3. /\ BitsStand(done + 1, setup, received, matched)
        /\ reveal => PairsStand(done + 1, setup, received, pairs)
    BY <1>2, <1>4, <1>5, <2>2, StandMiss
  <2> QED
    BY <1>0, <1>4, <1>5, <2>1, <2>3 DEF StandInv
<1>8. PhaseInv' /\ StrictlyAscends(setup)' /\ ReceivedInv' /\ SearchInv'
  BY <1>0, <1>2 DEF MatchInv, PhaseInv, StrictlyAscends, ReceivedInv, SearchInv
<1> QED
  BY <1>1, <1>6, <1>7, <1>8 DEF MatchInv

LEMMA BatchEndMatch ==
  ASSUME MatchInv, ResponseEnds \/ DecryptExhausted \/ DecryptThrows \/ BatchMatched
  PROVE  MatchInv'
<1>0. ShapeInv' /\ phase = "matching" /\ phase' = "matching" /\ failure = "OK"
  BY MatchTypes
  DEF MatchInv, ShapeInv, RefusalInv, PhaseInv, ResponseEnds, DecryptExhausted, DecryptThrows,
      BatchMatched
<1>4. CASE DecryptThrows
  <2>1. /\ pc = "decrypt" /\ pc' = "thrown"
        /\ UNCHANGED <<reveal, failure, setup, batch, decryptedCount, matched, pairs, received>>
    BY <1>4 DEF DecryptThrows, matching, history
  <2>2. done' = done
    BY <2>1 DEF done
  <2> QED
    BY <1>0, <2>1, <2>2
    DEF MatchInv, PhaseInv, ReceivedInv, StandInv, SearchInv, StrictlyAscends
<1>1. CASE ResponseEnds
  <2>1. pc = "response" /\ pc' \in {"idle", "decrypt"} /\ (pc' = "idle" => batch = << >>)
        /\ UNCHANGED <<reveal, failure, setup, batch, decryptedCount, matched, pairs, received>>
    BY <1>1 DEF ResponseEnds, matching, history
  <2>2. done' = done
    BY <2>1 DEF done
  <2> QED
    BY <1>0, <2>1, <2>2
    DEF MatchInv, PhaseInv, ReceivedInv, StandInv, SearchInv, StrictlyAscends
<1>2. CASE DecryptExhausted
  <2>1. failure' # "OK" /\ pc' = "idle" /\ setup' = setup
    BY <1>2 DEF DecryptExhausted, Fail
  <2> QED
    BY <1>0, <2>1 DEF MatchInv, PhaseInv, ReceivedInv, StandInv, SearchInv, StrictlyAscends
<1>3. CASE BatchMatched
  <2>1. /\ pc = "search" /\ item = Len(plain) /\ decryptedCount' = decryptedCount + Len(plain)
        /\ batch' = << >> /\ pc' = "response"
        /\ UNCHANGED <<reveal, failure, setup, matched, pairs, received>>
    BY <1>3 DEF BatchMatched, history
  <2>2. Len(plain) = Len(batch) /\ Len(plain) \in Nat /\ decryptedCount \in Nat
        /\ Len(received) = decryptedCount + Len(batch)
    BY <1>0, <2>1 DEF MatchInv, ReceivedInv, ShapeInv, TypeOK
  <2>3. done = decryptedCount + Len(plain) /\ done' = done
    BY <2>1, <2>2 DEF done
  <2>4. StandInv'
    BY <1>0, <2>1, <2>3 DEF MatchInv, StandInv
  <2>5. ReceivedInv'
    BY <1>0, <2>1, <2>2, EmptySeq DEF ReceivedInv
  <2>6. PhaseInv' /\ SearchInv' /\ StrictlyAscends(setup)'
    BY <1>0, <2>1 DEF MatchInv, PhaseInv, SearchInv, StrictlyAscends
  <2> QED
    BY <1>0, <2>4, <2>5, <2>6 DEF MatchInv
<1> QED
  BY <1>1, <1>2, <1>3, <1>4

LEMMA MatchInit == Init => MatchInv
<1> SUFFICES ASSUME Init PROVE MatchInv
  OBVIOUS
<1>1. ShapeInv
  BY ShapeInit
<1>2. PhaseInv /\ ReceivedInv /\ SearchInv /\ StandInv /\ StrictlyAscends(setup)
  BY DEF Init, PhaseInv, ReceivedInv, SearchInv, StandInv, StrictlyAscends
<1> QED
  BY <1>1, <1>2 DEF MatchInv

LEMMA MatchStep ==
  ASSUME MatchInv, Next
  PROVE  MatchInv'
BY NewCallMatch, SetupMatch, FeedMatch, DecryptBatchMatch, ProbeMatch, FoundMatch, BatchEndMatch
DEF Next, Step

LEMMA MatchStutters ==
  ASSUME MatchInv, UNCHANGED vars
  PROVE  MatchInv'
<1>1. ShapeInv'
  BY ShapeStutters DEF MatchInv
<1>2. done' = done
  BY DEF vars, done, matching, search
<1>3. PhaseInv' /\ ReceivedInv' /\ SearchInv' /\ StandInv' /\ StrictlyAscends(setup)'
  BY <1>2
  DEF vars, matching, search, history, MatchInv, PhaseInv, ReceivedInv, SearchInv, StandInv,
      StrictlyAscends
<1> QED
  BY <1>1, <1>3 DEF MatchInv

LEMMA MatchInvHolds == Spec => []MatchInv
BY MatchInit, MatchStep, MatchStutters, PTL DEF Spec

\* PlaceOf is the one position of the setup that holds e, or -1.
LEMMA PlaceOfIs ==
  ASSUME setup \in Seq(Element), StrictlyAscends(setup), NEW e
  PROVE  /\ \A p \in 0 .. Len(setup) - 1 : setup[p + 1] = e <=> PlaceOf(e) = p
         /\ PlaceOf(e) >= 0 <=> PlaceOf(e) \in 0 .. Len(setup) - 1
<1>0. Len(setup) \in Nat
  OBVIOUS
<1>1. CASE \E j \in 1 .. Len(setup) : setup[j] = e
  <2> DEFINE q == CHOOSE j \in 1 .. Len(setup) : setup[j] = e
  <2>1. q \in 1 .. Len(setup) /\ setup[q] = e /\ PlaceOf(e) = q - 1
    BY <1>1 DEF PlaceOf
  <2> HIDE DEF q
  <2>2. ASSUME NEW p \in 0 .. Len(setup) - 1 PROVE setup[p + 1] = e <=> PlaceOf(e) = p
    <3>1. p + 1 \in 1 .. Len(setup)
      BY <1>0
    <3>2. setup[p + 1] = e => p + 1 = q
      BY <2>1, <3>1, AscendsOnce
    <3>3. p + 1 = q => setup[p + 1] = e
      BY <2>1
    <3> QED
      BY <1>0, <2>1, <3>2, <3>3
  <2> QED
    BY <1>0, <2>1, <2>2
<1>2. CASE ~ \E j \in 1 .. Len(setup) : setup[j] = e
  <2>1. PlaceOf(e) = -1
    BY <1>2 DEF PlaceOf
  <2>2. \A p \in 0 .. Len(setup) - 1 : p + 1 \in 1 .. Len(setup)
    BY <1>0
  <2> QED
    BY <1>0, <1>2, <2>1, <2>2
<1> QED
  BY <1>1, <1>2

\* The bits and the pairs that stand for all that was received are those the
\* definition of a match names.
LEMMA StandIsExact ==
  ASSUME MatchInv, pc = "idle", phase = "matching", failure = "OK"
  PROVE  MatchedExactly
<1> DEFINE n      == Len(received)
           Eq(i)  == Decrypt(received[i + 1])
<1>0. /\ setup \in Seq(Element) /\ Len(setup) \in Nat /\ n \in Nat /\ decryptedCount \in Nat
      /\ pairs \in Seq(Nat \X Nat) /\ Len(pairs) \in Nat /\ StrictlyAscends(setup)
  BY DEF MatchInv, ShapeInv, TypeOK
<1>1. decryptedCount = n /\ done = n
  <2>1. batch = << >> /\ n = decryptedCount + Len(batch) /\ Len(<< >>) = 0
    BY EmptySeq DEF MatchInv, ReceivedInv
  <2> QED
    BY <1>0, <2>1 DEF done
<1>2. /\ BitsStand(n, setup, received, matched)
      /\ reveal => PairsStand(n, setup, received, pairs)
      /\ ~ reveal => pairs = << >>
  BY <1>1 DEF MatchInv, StandInv
<1>3. \A i : /\ \A p \in 0 .. Len(setup) - 1 : setup[p + 1] = Eq(i) <=> PlaceOf(Eq(i)) = p
             /\ PlaceOf(Eq(i)) >= 0 <=> PlaceOf(Eq(i)) \in 0 .. Len(setup) - 1
  BY <1>0, PlaceOfIs
<1>4. \A i : i \in Hits(n) <=> i \in 0 .. n - 1 /\ PlaceOf(Eq(i)) \in 0 .. Len(setup) - 1
  BY <1>3 DEF Hits
<1>5. matched = {PlaceOf(Eq(i)) : i \in Hits(n)}
  <2>1. ASSUME NEW p \in matched PROVE \E i \in Hits(n) : p = PlaceOf(Eq(i))
    <3>1. p \in 0 .. Len(setup) - 1
      BY <1>2 DEF BitsStand
    <3>2. PICK k \in 1 .. n : setup[p + 1] = Decrypt(received[k])
      BY <1>2 DEF BitsStand
    <3>3. k - 1 \in 0 .. n - 1 /\ (k - 1) + 1 = k
      BY <1>0
    <3>4. PlaceOf(Eq(k - 1)) = p
      BY <1>3, <3>1, <3>2, <3>3
    <3> QED
      BY <1>4, <3>1, <3>3, <3>4
  <2>2. ASSUME NEW i \in Hits(n) PROVE PlaceOf(Eq(i)) \in matched
    <3>1. i \in 0 .. n - 1 /\ PlaceOf(Eq(i)) \in 0 .. Len(setup) - 1
      BY <1>4
    <3>2. setup[PlaceOf(Eq(i)) + 1] = Eq(i)
      <4> DEFINE p == PlaceOf(Eq(i))
      <4>1. p \in 0 .. Len(setup) - 1 /\ PlaceOf(Eq(i)) = p
        BY <3>1
      <4> HIDE DEF p
      <4>2. setup[p + 1] = Eq(i)
        BY <1>3, <4>1
      <4> QED
        BY <4>1, <4>2
    <3>3. i + 1 \in 1 .. n
      BY <1>0, <3>1
    <3> QED
      BY <1>2, <3>1, <3>2, <3>3 DEF BitsStand
  <2> QED
    BY <2>1, <2>2
<1>6. ASSUME reveal
      PROVE  /\ \A i \in 1 .. Len(pairs) - 1 : pairs[i][1] < pairs[i + 1][1]
             /\ {pairs[i] : i \in 1 .. Len(pairs)} = {<<i, PlaceOf(Eq(i))>> : i \in Hits(n)}
  <2>0. PairsAreEqual(n, setup, received, pairs) /\ EqualArePairs(n, setup, received, pairs)
        /\ PairsInOrder(pairs)
    BY <1>2, <1>6 DEF PairsStand
  <2>1. ASSUME NEW i \in 1 .. Len(pairs) - 1 PROVE pairs[i][1] < pairs[i + 1][1]
    <3>1. i \in 1 .. Len(pairs) /\ i + 1 \in 1 .. Len(pairs) /\ i < i + 1
      BY <1>0
    <3> QED
      BY <2>0, <3>1 DEF PairsInOrder
  <2>2. ASSUME NEW k \in 1 .. Len(pairs)
        PROVE \E i \in Hits(n) : pairs[k] = <<i, PlaceOf(Eq(i))>>
    <3>1. PICK i \in 1 .. n : \E p \in 1 .. Len(setup) :
             pairs[k] = <<i - 1, p - 1>> /\ setup[p] = Decrypt(received[i])
      BY <2>0 DEF PairsAreEqual
    <3>2. PICK p \in 1 .. Len(setup) : pairs[k] = <<i - 1, p - 1>> /\ setup[p] = Decrypt(received[i])
      BY <3>1
    <3>3. i - 1 \in 0 .. n - 1 /\ p - 1 \in 0 .. Len(setup) - 1 /\ (i - 1) + 1 = i /\ (p - 1) + 1 = p
      BY <1>0
    <3>4. PlaceOf(Eq(i - 1)) = p - 1
      BY <1>3, <3>2, <3>3
    <3> QED
      BY <1>4, <3>2, <3>3, <3>4
  <2>3. ASSUME NEW i \in Hits(n)
        PROVE \E k \in 1 .. Len(pairs) : pairs[k] = <<i, PlaceOf(Eq(i))>>
    <3> DEFINE p == PlaceOf(Eq(i))
    <3>1. i \in 0 .. n - 1 /\ p \in 0 .. Len(setup) - 1
      BY <1>4
    <3>2. setup[p + 1] = Eq(i)
      BY <1>3, <3>1
    <3> HIDE DEF p
    <3>3. i + 1 \in 1 .. n /\ p + 1 \in 1 .. Len(setup) /\ (i + 1) - 1 = i /\ (p + 1) - 1 = p
      BY <1>0, <3>1
    <3>4. \E k \in 1 .. Len(pairs) : pairs[k] = <<(i + 1) - 1, (p + 1) - 1>>
      BY <2>0, <3>2, <3>3 DEF EqualArePairs
    <3> QED
      BY <3>3, <3>4 DEF p
  <2>4. {pairs[i] : i \in 1 .. Len(pairs)} = {<<i, PlaceOf(Eq(i))>> : i \in Hits(n)}
    <3> HIDE DEF Eq, n
    <3> QED
      BY <2>2, <2>3, Zenon
  <2> QED
    BY <2>1, <2>4
<1> QED
  BY <1>1, <1>2, <1>5, <1>6 DEF MatchedExactly

\* Whatever the sizes, the cipher, the messages, their cuts and the batches:
\* between calls the bits and the pairs of a match are exactly the equal
\* elements of the sealed setup and the response received so far, each
\* response element searched for once, its index counted over all batches.
THEOREM MatchesAreExact == Spec => []MatchedExactly
<1>1. MatchInv => MatchedExactly
  BY StandIsExact DEF MatchedExactly
<1> QED
  BY <1>1, MatchInvHolds, PTL

-----------------------------------------------------------------------------
(***************************************************************************)
(* What is left is about whole messages.  Of any set of lengths one is the *)
(* least: that takes the place of induction over a message.                *)
(***************************************************************************)
LEMMA LeastElement ==
  ASSUME NEW S \in SUBSET Nat, S # {}
  PROVE  \E m \in S : \A i \in S : m <= i
<1> DEFINE R == {ss \in Nat \X Nat : ss[1] < ss[2]}
<1>1. IsWellFoundedOn(R, Nat)
  BY NatLessThanWellFounded DEF OpToRel
<1>2. \A i, m \in Nat : <<i, m>> \notin R => m <= i
  OBVIOUS
<1> HIDE DEF R
<1> QED
  BY <1>1, <1>2, WFMin

-----------------------------------------------------------------------------
(***************************************************************************)
(* Varints.  A recursive function over an interval exists: there is no     *)
(* least length it does not exist for.                                     *)
(***************************************************************************)
IsSum(f, n, X) == f = [i \in 0 .. n |-> IF i = 0 THEN 0 ELSE f[i - 1] + X[i]]

LEMMA SumExists ==
  ASSUME NEW n \in Nat, NEW X
  PROVE  \E f : IsSum(f, n, X)
<1> DEFINE S == {m \in Nat : ~ \E f : IsSum(f, m, X)}
<1>1. ASSUME S # {} PROVE FALSE
  <2>1. PICK m \in S : \A i \in S : m <= i
    <3> HIDE DEF S
    <3> QED
      BY <1>1, LeastElement DEF S
  <2>2. m \in Nat /\ m # 0
    <3>1. IsSum([i \in 0 .. 0 |-> 0], 0, X)
      BY DEF IsSum
    <3> QED
      BY <3>1
  <2>3. PICK g : IsSum(g, m - 1, X)
    <3>1. m - 1 \in Nat /\ ~ (m <= m - 1)
      BY <2>2
    <3> QED
      BY <2>1, <3>1
  <2> DEFINE f == [i \in 0 .. m |-> IF i = m THEN g[m - 1] + X[m] ELSE g[i]]
  <2>4. IsSum(f, m, X)
    <3>1. ASSUME NEW i \in 0 .. m
          PROVE  f[i] = IF i = 0 THEN 0 ELSE f[i - 1] + X[i]
      <4>1. CASE i = m
        <5>1. m - 1 \in 0 .. m /\ m - 1 # m
          BY <2>2
        <5> QED
          BY <2>2, <4>1, <5>1
      <4>2. CASE i # m
        <5>1. i \in 0 .. m - 1 /\ (i # 0 => i - 1 \in 0 .. m /\ i - 1 # m)
          BY <2>2, <4>2
        <5>2. g[i] = IF i = 0 THEN 0 ELSE g[i - 1] + X[i]
          BY <2>3, <5>1 DEF IsSum
        <5> QED
          BY <4>2, <5>1, <5>2
      <4> QED
        BY <4>1, <4>2
    <3>2. f = [i \in 0 .. m |-> f[i]]
      OBVIOUS
    <3> HIDE DEF f
    <3> QED
      BY <3>1, <3>2 DEF IsSum
  <2> QED
    BY <2>1, <2>4
<1> QED
  BY <1>1

LEMMA SumAt ==
  ASSUME NEW n \in Nat, NEW X, NEW f, IsSum(f, n, X)
  PROVE  /\ f[0] = 0
         /\ \A i \in 1 .. n : f[i] = f[i - 1] + X[i]
<1>1. \A i \in 0 .. n : f[i] = IF i = 0 THEN 0 ELSE f[i - 1] + X[i]
  BY DEF IsSum
<1> QED
  BY <1>1

LEMMA SumsAgree ==
  ASSUME NEW n \in Nat, NEW X, NEW Y, \A i \in 1 .. n : X[i] = Y[i],
         NEW f, IsSum(f, n, X), NEW g, NEW k \in Nat, n <= k, IsSum(g, k, Y)
  PROVE  f[n] = g[n]
<1> DEFINE S == {i \in Nat : i <= n /\ f[i] # g[i]}
<1>1. ASSUME S # {} PROVE FALSE
  <2>1. PICK m \in S : \A i \in S : m <= i
    <3> HIDE DEF S
    <3> QED
      BY <1>1, LeastElement DEF S
  <2>2. m \in Nat /\ m <= n /\ f[m] # g[m]
    OBVIOUS
  <2>3. m # 0
    BY <2>2, SumAt
  <2>4. m - 1 \in Nat /\ m - 1 <= n /\ ~ (m <= m - 1)
    BY <2>2, <2>3
  <2>5. f[m - 1] = g[m - 1]
    BY <2>1, <2>4
  <2>6. m \in 1 .. n /\ m \in 1 .. k
    BY <2>2, <2>3
  <2>7. f[m] = f[m - 1] + X[m] /\ g[m] = g[m - 1] + Y[m]
    BY <2>6, SumAt
  <2> QED
    BY <2>2, <2>5, <2>6, <2>7
<1> QED
  BY <1>1

Parts(b, p, span) == [i \in 1 .. span |-> (b[p + i - 1] % 128) * Shift[i]]

LEMMA SumOfParts ==
  ASSUME NEW b, NEW p, NEW span \in Nat
  PROVE  \E f : IsSum(f, span, Parts(b, p, span)) /\ VarintSum(b, p, span) = f[span]
<1> DEFINE X == Parts(b, p, span)
           f == CHOOSE g : g = [i \in 0 .. span |->
                  IF i = 0 THEN 0 ELSE g[i - 1] + (b[p + i - 1] % 128) * Shift[i]]
<1>1. ASSUME NEW g
      PROVE  [i \in 0 .. span |-> IF i = 0 THEN 0 ELSE g[i - 1] + (b[p + i - 1] % 128) * Shift[i]]
             = [i \in 0 .. span |-> IF i = 0 THEN 0 ELSE g[i - 1] + X[i]]
  <2>1. \A i \in 0 .. span : i # 0 => i \in 1 .. span
    OBVIOUS
  <2>2. \A i \in 1 .. span : X[i] = (b[p + i - 1] % 128) * Shift[i]
    BY DEF Parts
  <2> HIDE DEF X
  <2> QED
    BY <2>1, <2>2
<1>2. \E g : g = [i \in 0 .. span |->
                  IF i = 0 THEN 0 ELSE g[i - 1] + (b[p + i - 1] % 128) * Shift[i]]
  <2>1. PICK g : IsSum(g, span, X)
    BY SumExists
  <2> HIDE DEF X
  <2> QED
    BY <1>1, <2>1 DEF IsSum
<1>3. f = [i \in 0 .. span |->
                  IF i = 0 THEN 0 ELSE f[i - 1] + (b[p + i - 1] % 128) * Shift[i]]
  BY <1>2
<1>4. VarintSum(b, p, span) = f[span]
  BY DEF VarintSum
<1> HIDE DEF f, X
<1>5. IsSum(f, span, X)
  BY <1>1, <1>3 DEF IsSum
<1> QED
  BY <1>4, <1>5 DEF X

LEMMA SumNone ==
  ASSUME NEW b, NEW p
  PROVE  VarintSum(b, p, 0) = 0
  BY SumOfParts, SumAt

LEMMA SumMore ==
  ASSUME NEW b, NEW p, NEW n \in Nat
  PROVE  VarintSum(b, p, n + 1) = VarintSum(b, p, n) + (b[p + n] % 128) * Shift[n + 1]
<1>1. PICK f : IsSum(f, n, Parts(b, p, n)) /\ VarintSum(b, p, n) = f[n]
  BY SumOfParts
<1>2. PICK g : IsSum(g, n + 1, Parts(b, p, n + 1)) /\ VarintSum(b, p, n + 1) = g[n + 1]
  BY SumOfParts
<1>3. \A i \in 1 .. n : Parts(b, p, n)[i] = Parts(b, p, n + 1)[i]
  BY DEF Parts
<1>4. f[n] = g[n]
  BY <1>1, <1>2, <1>3, SumsAgree
<1>5. g[n + 1] = g[n] + Parts(b, p, n + 1)[n + 1]
  BY <1>2, SumAt
<1>6. Parts(b, p, n + 1)[n + 1] = (b[p + n] % 128) * Shift[n + 1]
  BY DEF Parts
<1> QED
  BY <1>1, <1>2, <1>4, <1>5, <1>6

LEMMA SumLocal ==
  ASSUME NEW b, NEW s, NEW p \in Nat, NEW n \in Nat, \A i \in p .. p + n - 1 : b[i] = s[i]
  PROVE  VarintSum(b, p, n) = VarintSum(s, p, n)
<1>1. PICK f : IsSum(f, n, Parts(b, p, n)) /\ VarintSum(b, p, n) = f[n]
  BY SumOfParts
<1>2. PICK g : IsSum(g, n, Parts(s, p, n)) /\ VarintSum(s, p, n) = g[n]
  BY SumOfParts
<1>3. ASSUME NEW i \in 1 .. n PROVE Parts(b, p, n)[i] = Parts(s, p, n)[i]
  <2>1. p + i - 1 \in p .. p + n - 1
    OBVIOUS
  <2> QED
    BY <2>1 DEF Parts
<1>4. f[n] = g[n]
  BY <1>1, <1>2, <1>3, SumsAgree
<1> QED
  BY <1>1, <1>2, <1>4

\* A byte of a message.
LEMMA ByteAt ==
  ASSUME NEW b \in Seq(Byte), NEW q \in 1 .. Len(b)
  PROVE  b[q] \in 0 .. 255 /\ b[q] \in Int /\ b[q] \in Byte
<1>1. b[q] \in Byte
  BY ElementOfSeq
<1>2. b[q] \in 0 .. 255
  BY <1>1, PsiMatchAssumption
<1>3. \A x \in 0 .. 255 : x \in Int
  OBVIOUS
<1> QED
  BY <1>1, <1>2, <1>3, Zenon

LEMMA HighBit ==
  \A x \in 0 .. 255 : ~ (x < 128) => x >= 128
  OBVIOUS

LEMMA LowBits ==
  ASSUME NEW x \in 0 .. 255
  PROVE  x % 128 \in Nat
  OBVIOUS

LEMMA SumNat ==
  ASSUME NEW b \in Seq(Byte), NEW p \in Nat \ {0}, NEW n \in Nat, n <= 5, p + n - 1 <= Len(b)
  PROVE  VarintSum(b, p, n) \in Nat
<1>0. \A k \in Nat :
        VarintSum(b, p, k + 1) = VarintSum(b, p, k) + (b[p + k] % 128) * Shift[k + 1]
  <2>1. TAKE k \in Nat
  <2> QED
    BY SumMore, SMTT(60)
<1> DEFINE S == {i \in Nat : i <= n /\ VarintSum(b, p, i) \notin Nat}
<1>1. ASSUME S # {} PROVE FALSE
  <2>1. PICK m \in S : \A i \in S : m <= i
    <3> HIDE DEF S
    <3> QED
      BY <1>1, LeastElement DEF S
  <2>2. m \in Nat /\ m <= n /\ VarintSum(b, p, m) \notin Nat
    OBVIOUS
  <2>3. m # 0
    BY <2>2, SumNone
  <2>4. m - 1 \in Nat /\ m - 1 <= n /\ ~ (m <= m - 1)
    BY <2>2, <2>3
  <2>5. VarintSum(b, p, m - 1) \in Nat
    BY <2>1, <2>4
  <2>6. VarintSum(b, p, (m - 1) + 1)
          = VarintSum(b, p, m - 1) + (b[p + (m - 1)] % 128) * Shift[(m - 1) + 1]
    BY <1>0, <2>4, Zenon
  <2>7. p + (m - 1) \in 1 .. Len(b)
    BY <2>2, <2>3
  <2>8. b[p + (m - 1)] \in 0 .. 255
    BY <2>7, ByteAt
  <2>9. m \in 1 .. 5
    BY <2>2, <2>3
  <2>10. Shift[m] \in Nat /\ (m - 1) + 1 = m
    BY <2>9 DEF Shift
  <2>11. b[p + (m - 1)] % 128 \in Nat
    BY <2>8, LowBits
  <2>12. (b[p + (m - 1)] % 128) * Shift[m] \in Nat
    BY <2>10, <2>11
  <2> QED
    BY <2>2, <2>5, <2>6, <2>10, <2>12
<1> QED
  BY <1>1

\* Where a varint ends.
LEMMA SpanOf ==
  ASSUME NEW b \in Seq(Byte), NEW p \in Nat \ {0}
  PROVE  LET span == VarintSpan(b, p)
         IN  \/ span = 0 /\ \A q \in p .. Len(b) : b[q] >= 128
             \/ /\ span \in Nat \ {0} /\ p + span - 1 \in p .. Len(b)
                /\ b[p + span - 1] < 128
                /\ \A q \in p .. p + span - 2 : b[q] >= 128
<1> DEFINE ends == {q \in p .. Len(b) : b[q] < 128}
           span == VarintSpan(b, p)
<1>1. \A q \in p .. Len(b) : b[q] \in 0 .. 255 /\ q \in Nat
  <2>1. \A q \in p .. Len(b) : q \in 1 .. Len(b)
    OBVIOUS
  <2> QED
    BY <2>1, ByteAt
<1>2. CASE ends = {}
  <2>1. span = 0
    BY <1>2 DEF VarintSpan
  <2>2. ASSUME NEW q \in p .. Len(b) PROVE b[q] >= 128
    <3>1. b[q] \in 0 .. 255 /\ ~ (b[q] < 128)
      BY <1>1, <1>2
    <3> QED
      BY <3>1, HighBit, Zenon
  <2> QED
    BY <2>1, <2>2
<1>3. CASE ends # {}
  <2>1. ends \in SUBSET Nat
    BY <1>1
  <2>2. \E q \in ends : \A u \in ends : q <= u
    <3> HIDE DEF ends
    <3> QED
      BY <1>3, <2>1, LeastElement
  <2> DEFINE q == CHOOSE q \in ends : \A u \in ends : q <= u
  <2>3. q \in ends /\ \A u \in ends : q <= u
    BY <2>2
  <2>4. span = q - p + 1
    BY <1>3 DEF VarintSpan
  <2> HIDE DEF q, span
  <2>5. q \in p .. Len(b) /\ b[q] < 128 /\ q \in Int
    BY <1>1, <2>3
  <2>6. p + span - 1 = q /\ span \in Nat \ {0} /\ p + span - 2 = q - 1
    BY <2>4, <2>5
  <2>7. ASSUME NEW u \in p .. q - 1 PROVE b[u] >= 128
    <3>1. u \in p .. Len(b) /\ ~ (q <= u)
      BY <2>5
    <3>2. u \notin ends /\ b[u] \in 0 .. 255
      BY <1>1, <2>3, <3>1
    <3>3. ~ (b[u] < 128)
      BY <3>1, <3>2
    <3> QED
      BY <3>2, <3>3, HighBit, Zenon
  <2> QED
    BY <2>5, <2>6, <2>7 DEF span
<1> QED
  BY <1>2, <1>3

\* The n bytes of s from p on are the beginning of a varint worth v so far; or a
\* whole varint worth v.
PartialVarint(s, p, n, v) ==
  /\ n \in Nat /\ n < MaxVarintBytes /\ p + n - 1 <= Len(s)
  /\ \A q \in p .. p + n - 1 : s[q] >= 128
  /\ VarintSum(s, p, n) = v

WholeVarint(s, p, n, v) ==
  /\ n \in Nat \ {0} /\ n <= MaxVarintBytes /\ p + n - 1 <= Len(s)
  /\ \A q \in p .. p + n - 2 : s[q] >= 128
  /\ s[p + n - 1] < 128 /\ (n = MaxVarintBytes => s[p + n - 1] < 16)
  /\ VarintSum(s, p, n) = v

\* b begins with the first k bytes of s.
Agree(b, s, k) ==
  b \in Seq(Byte) /\ k <= Len(b) /\ \A i \in 1 .. k : b[i] = s[i]

LEMMA VarintsAgree ==
  ASSUME NEW s \in Seq(Byte), NEW p \in Nat \ {0}, NEW n \in Nat, NEW v, NEW k \in Nat,
         p + n - 1 <= k, NEW b, Agree(b, s, k)
  PROVE  /\ PartialVarint(s, p, n, v) => PartialVarint(b, p, n, v)
         /\ WholeVarint(s, p, n, v) => WholeVarint(b, p, n, v)
<1>1. \A q \in p .. p + n - 1 : b[q] = s[q]
  BY DEF Agree
<1>2. VarintSum(b, p, n) = VarintSum(s, p, n)
  BY <1>1, SumLocal
<1>3. p + n - 1 <= Len(b)
  BY DEF Agree
<1>4. n # 0 => p + n - 1 \in p .. p + n - 1 /\ \A q \in p .. p + n - 2 : q \in p .. p + n - 1
  OBVIOUS
<1> QED
  BY <1>1, <1>2, <1>3, <1>4 DEF PartialVarint, WholeVarint

LEMMA VarintBegins ==
  ASSUME NEW s \in Seq(Byte), NEW p \in Nat \ {0}, p - 1 <= Len(s)
  PROVE  PartialVarint(s, p, 0, 0)
<1>1. 0 < MaxVarintBytes
  BY PsiMatchAssumption
<1> QED
  BY <1>1, SumNone DEF PartialVarint

\* One more byte.
LEMMA VarintGrows ==
  ASSUME NEW s \in Seq(Byte), NEW p \in Nat \ {0}, NEW n \in Nat, NEW v,
         PartialVarint(s, p, n, v), p + n <= Len(s), ~ VarintRefused(s[p + n], n)
  PROVE  /\ ~ VarintDone(s[p + n]) =>
              PartialVarint(s, p, n + 1, VarintValue(s[p + n], v, n))
         /\ VarintDone(s[p + n]) =>
              WholeVarint(s, p, n + 1, VarintValue(s[p + n], v, n))
<1>1. p + n \in 1 .. Len(s)
  OBVIOUS
<1>2. s[p + n] \in 0 .. 255 /\ MaxVarintBytes \in 1 .. 5
  BY <1>1, ByteAt, PsiMatchAssumption
<1>3. VarintSum(s, p, n + 1) = VarintValue(s[p + n], v, n)
  BY SumMore, SMTT(60) DEF PartialVarint, VarintValue
<1>4. CASE ~ VarintDone(s[p + n])
  <2>1. s[p + n] >= 128 /\ n # MaxVarintBytes - 1
    <3> DEFINE x == s[p + n]
    <3>1. x \in 0 .. 255 /\ ~ (x < 128) /\ ~ (n = MaxVarintBytes - 1 /\ x >= 16)
      BY <1>2, <1>4 DEF VarintDone, VarintRefused
    <3> HIDE DEF x
    <3>2. x >= 128 /\ x >= 16
      BY <3>1
    <3> QED
      BY <3>1, <3>2 DEF x
  <2>2. n + 1 < MaxVarintBytes
    BY <1>2, <2>1 DEF PartialVarint
  <2>3. \A q \in p .. p + (n + 1) - 1 : s[q] >= 128
    <3>1. \A q \in p .. p + (n + 1) - 1 : q \in p .. p + n - 1 \/ q = p + n
      OBVIOUS
    <3> QED
      BY <2>1, <3>1 DEF PartialVarint
  <2>4. p + (n + 1) - 1 <= Len(s)
    OBVIOUS
  <2> QED
    BY <1>3, <1>4, <2>2, <2>3, <2>4 DEF PartialVarint
<1>5. CASE VarintDone(s[p + n])
  <2>1. s[p + n] < 128 /\ (n + 1 = MaxVarintBytes => s[p + n] < 16)
    <3> DEFINE x == s[p + n]
    <3>1. x \in 0 .. 255 /\ x < 128 /\ ~ (n = MaxVarintBytes - 1 /\ x >= 16)
      BY <1>2, <1>5 DEF VarintDone, VarintRefused
    <3>2. n + 1 = MaxVarintBytes => n = MaxVarintBytes - 1
      BY <1>2
    <3> HIDE DEF x
    <3>3. x >= 16 \/ x < 16
      BY <3>1
    <3> QED
      BY <3>1, <3>2, <3>3 DEF x
  <2>2. n + 1 <= MaxVarintBytes /\ n + 1 \in Nat \ {0}
    BY <1>2 DEF PartialVarint
  <2>3. p + (n + 1) - 1 = p + n /\ p + (n + 1) - 2 = p + n - 1
    OBVIOUS
  <2> QED
    BY <1>3, <1>5, <2>1, <2>2, <2>3 DEF PartialVarint, WholeVarint
<1> QED
  BY <1>4, <1>5

LEMMA WholeSpan ==
  ASSUME NEW s \in Seq(Byte), NEW p \in Nat \ {0}, NEW n, NEW v, WholeVarint(s, p, n, v)
  PROVE  VarintSpan(s, p) = n /\ Fits(s, p, n) /\ VarintSum(s, p, n) = v /\ v \in Nat
<1> DEFINE span == VarintSpan(s, p)
<1>1. n \in Nat \ {0} /\ p + n - 1 \in p .. Len(s) /\ s[p + n - 1] < 128
  BY DEF WholeVarint
<1>2. span = n
  <2>1. s[p + n - 1] \in Int
    <3>1. p + n - 1 \in 1 .. Len(s)
      BY <1>1
    <3> QED
      BY <3>1, ByteAt
  <2>2. /\ span \in Nat \ {0} /\ p + span - 1 \in p .. Len(s) /\ s[p + span - 1] < 128
        /\ \A q \in p .. p + span - 2 : s[q] >= 128
    BY <1>1, <2>1, SpanOf
  <2>3. s[p + span - 1] \in Int
    <3>1. p + span - 1 \in 1 .. Len(s)
      BY <2>2
    <3> QED
      BY <3>1, ByteAt
  <2> HIDE DEF span
  <2>4. ~ (span < n)
    <3>1. SUFFICES ASSUME span < n PROVE FALSE
      OBVIOUS
    <3>2. p + span - 1 \in p .. p + n - 2
      BY <1>1, <2>2, <3>1
    <3>3. s[p + span - 1] >= 128
      BY <3>2 DEF WholeVarint
    <3> QED
      BY <2>2, <2>3, <3>3
  <2>5. ~ (n < span)
    <3>1. SUFFICES ASSUME n < span PROVE FALSE
      OBVIOUS
    <3>2. p + n - 1 \in p .. p + span - 2
      BY <1>1, <2>2, <3>1
    <3>3. s[p + n - 1] >= 128
      BY <2>2, <3>2
    <3> QED
      BY <1>1, <2>1, <3>3
  <2> QED
    BY <1>1, <2>2, <2>4, <2>5
<1>3. n <= 5
  BY <1>1, PsiMatchAssumption DEF WholeVarint
<1>4. VarintSum(s, p, n) \in Nat
  BY <1>1, <1>3, SumNat
<1> QED
  BY <1>2, <1>4 DEF WholeVarint, Fits

\* A varint that is refused fits nowhere, whatever follows it.
LEMMA RefusedSpan ==
  ASSUME NEW s \in Seq(Byte), NEW p \in Nat \ {0}, NEW n \in Nat, NEW v,
         PartialVarint(s, p, n, v), p + n <= Len(s), VarintRefused(s[p + n], n)
  PROVE  LET span == VarintSpan(s, p)
         IN  \/ span = 0 /\ p + MaxVarintBytes - 1 <= Len(s)
             \/ span > 0 /\ ~ Fits(s, p, span)
<1> DEFINE span == VarintSpan(s, p)
<1>1. MaxVarintBytes \in 1 .. 5 /\ n = MaxVarintBytes - 1 /\ s[p + n] >= 16
  BY PsiMatchAssumption DEF VarintRefused
<1>2. CASE span = 0
  <2>1. p + MaxVarintBytes - 1 <= Len(s)
    BY <1>1
  <2> QED
    BY <1>2, <2>1
<1>3. CASE span # 0
  <2>1. /\ span \in Nat \ {0} /\ p + span - 1 \in p .. Len(s)
        /\ s[p + span - 1] < 128
    BY <1>3, SpanOf
  <2>2. s[p + span - 1] \in Int /\ s[p + n] \in Int
    <3>1. p + span - 1 \in 1 .. Len(s) /\ p + n \in 1 .. Len(s)
      BY <2>1
    <3> QED
      BY <3>1, ByteAt
  <2> HIDE DEF span
  <2>3. ~ (span <= n)
    <3>1. SUFFICES ASSUME span <= n PROVE FALSE
      OBVIOUS
    <3>2. p + span - 1 \in p .. p + n - 1
      BY <2>1, <3>1
    <3>3. s[p + span - 1] >= 128
      BY <3>2 DEF PartialVarint
    <3> QED
      BY <2>1, <2>2, <3>3
  <2>4. span >= MaxVarintBytes
    BY <1>1, <2>1, <2>3
  <2>5. span = MaxVarintBytes => p + span - 1 = p + n
    BY <1>1
  <2>6. ~ Fits(s, p, span)
    BY <1>1, <2>1, <2>2, <2>4, <2>5 DEF Fits
  <2> QED
    BY <2>1, <2>6 DEF span
<1> QED
  BY <1>2, <1>3

\* A varint the sequence ends in.
LEMMA PartialSpan ==
  ASSUME NEW s \in Seq(Byte), NEW p \in Nat \ {0}, NEW n \in Nat, NEW v,
         PartialVarint(s, p, n, v), p + n - 1 = Len(s)
  PROVE  VarintSpan(s, p) = 0
<1> DEFINE span == VarintSpan(s, p)
<1>1. SUFFICES ASSUME span # 0 PROVE FALSE
  OBVIOUS
<1>2. p + span - 1 \in p .. Len(s) /\ s[p + span - 1] < 128
  BY <1>1, SpanOf
<1>3. s[p + span - 1] \in Int
  <2>1. p + span - 1 \in 1 .. Len(s)
    BY <1>2
  <2> QED
    BY <2>1, ByteAt
<1> HIDE DEF span
<1>4. s[p + span - 1] >= 128
  BY <1>2 DEF PartialVarint
<1> QED
  BY <1>2, <1>3, <1>4

-----------------------------------------------------------------------------
(***************************************************************************)
(* The entries of a message, unfolded.  EntriesFrom exists, since an entry *)
(* depends on later positions only.                                        *)
(***************************************************************************)
EntriesType == [kind : {"whole", "cut", "bad"}, entries : Seq(Element)]

\* The entry at p ends after p.
LEMMA NextEntry ==
  ASSUME NEW b \in Seq(Byte), NEW p \in 1 .. Len(b), VarintSpan(b, p + 1) # 0,
         Fits(b, p + 1, VarintSpan(b, p + 1))
  PROVE  /\ VarintSpan(b, p + 1) \in Nat \ {0}
         /\ VarintSum(b, p + 1, VarintSpan(b, p + 1)) \in Nat
<1> DEFINE span == VarintSpan(b, p + 1)
<1>1. p + 1 \in Nat \ {0} /\ Len(b) \in Nat
  OBVIOUS
<1>2. span \in Nat \ {0} /\ p + 1 + span - 1 \in p + 1 .. Len(b)
  BY <1>1, SpanOf
<1>3. span <= MaxVarintBytes /\ MaxVarintBytes \in 1 .. 5
  BY PsiMatchAssumption DEF Fits
<1> HIDE DEF span
<1>4. span <= 5 /\ p + 1 + span - 1 <= Len(b) /\ span \in Nat
  BY <1>1, <1>2, <1>3
<1>5. VarintSum(b, p + 1, span) \in Nat
  BY <1>1, <1>4, SumNat
<1> QED
  BY <1>2, <1>5 DEF span

LEMMA EntryLocal ==
  ASSUME NEW b \in Seq(Byte), NEW p \in 1 .. Len(b) + 1, NEW f, NEW g,
         \A q \in p + 1 .. Len(b) + 1 : f[q] = g[q]
  PROVE  EntryAt(b, p, f) = EntryAt(b, p, g)
<1> DEFINE span   == VarintSpan(b, p + 1)
           length == VarintSum(b, p + 1, span)
           first  == p + 1 + span
<1>1. CASE p = Len(b) + 1 \/ b[p] # FieldTag \/ span = 0
  BY <1>1 DEF EntryAt
<1>2. CASE ~ Fits(b, p + 1, span) \/ length > MaxElementBytes \/ first + length > Len(b) + 1
  BY <1>2 DEF EntryAt
<1>3. CASE /\ p # Len(b) + 1 /\ span # 0 /\ Fits(b, p + 1, span)
           /\ ~ (first + length > Len(b) + 1)
  <2>1. p \in 1 .. Len(b) /\ Len(b) \in Nat
    BY <1>3
  <2>2. span \in Nat \ {0} /\ length \in Nat
    BY <1>3, <2>1, NextEntry
  <2>3. first + length \in p + 1 .. Len(b) + 1
    <3> HIDE DEF span, length
    <3> QED
      BY <1>3, <2>1, <2>2
  <2>4. f[first + length] = g[first + length]
    <3> HIDE DEF span, length, first
    <3> QED
      BY <2>3
  <2> QED
    BY <2>4 DEF EntryAt
<1> QED
  BY <1>1, <1>2, <1>3

LEMMA EntryTyped ==
  ASSUME NEW b \in Seq(Byte), NEW p \in 1 .. Len(b) + 1, NEW f,
         \A q \in p + 1 .. Len(b) + 1 : f[q] \in EntriesType
  PROVE  EntryAt(b, p, f) \in EntriesType
<1> DEFINE span   == VarintSpan(b, p + 1)
           length == VarintSum(b, p + 1, span)
           first  == p + 1 + span
           e      == SubSeq(b, first, first + length - 1)
<1>1. Whole \in EntriesType /\ Cut \in EntriesType /\ Bad \in EntriesType
  BY EmptySeq DEF Whole, Cut, Bad, EntriesType
<1>2. CASE p = Len(b) + 1 \/ b[p] # FieldTag \/ span = 0
  BY <1>1, <1>2 DEF EntryAt
<1>3. CASE ~ Fits(b, p + 1, span) \/ length > MaxElementBytes \/ first + length > Len(b) + 1
  BY <1>1, <1>3 DEF EntryAt
<1>4. CASE /\ p # Len(b) + 1 /\ b[p] = FieldTag /\ span # 0 /\ Fits(b, p + 1, span)
           /\ ~ (length > MaxElementBytes) /\ ~ (first + length > Len(b) + 1)
  <2>1. p \in 1 .. Len(b) /\ Len(b) \in Nat
    BY <1>4
  <2>2. span \in Nat \ {0} /\ length \in Nat
    BY <1>4, <2>1, NextEntry
  <2>3. /\ first + length \in p + 1 .. Len(b) + 1 /\ first \in 1 .. Len(b) + 1
        /\ first + length - 1 \in 0 .. Len(b)
    <3> HIDE DEF span, length
    <3> QED
      BY <1>4, <2>1, <2>2
  <2>4. e \in Element
    <3>1. \A i \in first .. first + length - 1 : i \in 1 .. Len(b)
      <4> HIDE DEF span, length, first
      <4> QED
        BY <2>1, <2>2, <2>3
    <3>2. \A i \in first .. first + length - 1 : b[i] \in Byte
      <4> HIDE DEF span, length, first
      <4> QED
        BY <3>1, ByteAt
    <3> HIDE DEF span, length, first
    <3>3. first \in Int /\ first + length - 1 \in Int
      BY <2>3
    <3> QED
      BY <3>2, <3>3, SubSeqProperties DEF Element
  <2>5. f[first + length] \in EntriesType
    <3> HIDE DEF span, length, first
    <3> QED
      BY <2>3
  <2>6. EntryAt(b, p, f) = [kind |-> f[first + length].kind,
                            entries |-> <<e>> \o f[first + length].entries]
    BY <1>4 DEF EntryAt
  <2> HIDE DEF e, first, length, span
  <2>7. <<e>> \in Seq(Element)
    BY <2>4
  <2>8. <<e>> \o f[first + length].entries \in Seq(Element)
    BY <2>5, <2>7, ConcatProperties DEF EntriesType
  <2> QED
    BY <2>5, <2>6, <2>8 DEF EntriesType
<1> QED
  BY <1>2, <1>3, <1>4

IsFrom(f, b, k) == f = [p \in Len(b) + 1 - k .. Len(b) + 1 |-> EntryAt(b, p, f)]

LEMMA FromExists ==
  ASSUME NEW b \in Seq(Byte), NEW k \in 0 .. Len(b)
  PROVE  \E f : IsFrom(f, b, k)
<1> DEFINE S == {m \in Nat : m <= Len(b) /\ ~ \E f : IsFrom(f, b, m)}
<1>0. Len(b) \in Nat
  OBVIOUS
<1>1. ASSUME S # {} PROVE FALSE
  <2>1. PICK m \in S : \A i \in S : m <= i
    <3> HIDE DEF S
    <3> QED
      BY <1>1, LeastElement DEF S
  <2>2. m \in Nat /\ m <= Len(b) /\ ~ \E f : IsFrom(f, b, m)
    OBVIOUS
  <2> DEFINE l == Len(b) + 1
             n == l - m
  <2>3. \E g : \A p \in n + 1 .. l : g[p] = EntryAt(b, p, g)
    <3>1. CASE m = 0
      <4>1. \A p \in n + 1 .. l : FALSE
        BY <1>0, <3>1
      <4> QED
        BY <4>1
    <3>2. CASE m # 0
      <4>1. m - 1 \in Nat /\ m - 1 <= Len(b) /\ ~ (m <= m - 1)
        BY <1>0, <2>2, <3>2
      <4>2. PICK g : IsFrom(g, b, m - 1)
        BY <2>1, <4>1
      <4>3. l - (m - 1) = n + 1
        BY <1>0, <2>2
      <4>4. g = [p \in n + 1 .. l |-> EntryAt(b, p, g)]
        BY <4>2, <4>3, SMTT(60) DEF IsFrom
      <4> QED
        BY <4>4
    <3> QED
      BY <3>1, <3>2
  <2>4. PICK g : \A p \in n + 1 .. l : g[p] = EntryAt(b, p, g)
    BY <2>3
  <2> DEFINE f == [p \in n .. l |-> IF p = n THEN EntryAt(b, n, g) ELSE g[p]]
  <2>5. ASSUME NEW p \in n .. l
        PROVE  f[p] = EntryAt(b, p, f)
    <3>1. n \in 1 .. l /\ p \in 1 .. Len(b) + 1 /\ n \in Int /\ l \in Int /\ p \in Int
      BY <1>0, <2>2
    <3>2. \A q \in p + 1 .. l : q \in n .. l /\ q # n
      BY <3>1
    <3>3. \A q \in p + 1 .. Len(b) + 1 : f[q] = g[q]
      BY <3>2
    <3>4. EntryAt(b, p, f) = EntryAt(b, p, g)
      <4> HIDE DEF f, n
      <4> QED
        BY <3>1, <3>3, EntryLocal
    <3>5. p # n => p \in n + 1 .. l
      BY <3>1
    <3> QED
      BY <2>4, <3>4, <3>5
  <2>6. f = [p \in n .. l |-> f[p]]
    OBVIOUS
  <2>7. IsFrom(f, b, m)
    <3> HIDE DEF f
    <3> QED
      BY <2>5, <2>6 DEF IsFrom
  <2> QED
    BY <2>2, <2>7
<1> QED
  BY <1>0, <1>1

LEMMA EntriesUnfold ==
  ASSUME NEW b \in Seq(Byte), NEW p \in 1 .. Len(b) + 1
  PROVE  EntriesFrom(b)[p] = EntryAt(b, p, EntriesFrom(b))
<1> DEFINE f == CHOOSE g : g = [q \in 1 .. Len(b) + 1 |-> EntryAt(b, q, g)]
<1>1. Len(b) \in 0 .. Len(b) /\ Len(b) + 1 - Len(b) = 1
  BY LenProperties
<1>2. \E g : g = [q \in 1 .. Len(b) + 1 |-> EntryAt(b, q, g)]
  BY <1>1, FromExists DEF IsFrom
<1>3. f = [q \in 1 .. Len(b) + 1 |-> EntryAt(b, q, f)]
  BY <1>2
<1>4. EntriesFrom(b) = f
  BY DEF EntriesFrom
<1> HIDE DEF f
<1> QED
  BY <1>3, <1>4

LEMMA EntriesTyped ==
  ASSUME NEW b \in Seq(Byte), NEW p \in 1 .. Len(b) + 1
  PROVE  EntriesFrom(b)[p] \in EntriesType
<1> DEFINE l == Len(b) + 1
           f == EntriesFrom(b)
           S == {m \in Nat : m <= Len(b) /\ f[l - m] \notin EntriesType}
<1>0. Len(b) \in Nat
  OBVIOUS
<1>1. ASSUME S # {} PROVE FALSE
  <2>1. PICK m \in S : \A i \in S : m <= i
    <3> HIDE DEF S
    <3> QED
      BY <1>1, LeastElement DEF S
  <2>2. m \in Nat /\ m <= Len(b) /\ f[l - m] \notin EntriesType
    OBVIOUS
  <2>3. ASSUME NEW q \in (l - m) + 1 .. Len(b) + 1
        PROVE  f[q] \in EntriesType
    <3>1. l - q \in Nat /\ l - q <= Len(b) /\ ~ (m <= l - q) /\ l - (l - q) = q
      BY <1>0, <2>2
    <3> HIDE DEF f, l
    <3> QED
      BY <2>1, <3>1
  <2>4. l - m \in 1 .. Len(b) + 1
    BY <1>0, <2>2
  <2> HIDE DEF f, l
  <2>5. EntryAt(b, l - m, f) \in EntriesType
    BY <2>3, <2>4, EntryTyped
  <2> QED
    BY <2>2, <2>4, <2>5, EntriesUnfold DEF f
<1>2. l - p \in Nat /\ l - p <= Len(b) /\ l - (l - p) = p
  BY <1>0
<1> QED
  BY <1>1, <1>2

-----------------------------------------------------------------------------
(***************************************************************************)
(* A reader amid a message.  The entries es lie before position p of b.    *)
(***************************************************************************)
At(b, p, es) ==
  /\ p \in 1 .. Len(b) + 1
  /\ EntriesFrom(b)[1] = [kind    |-> EntriesFrom(b)[p].kind,
                          entries |-> es \o EntriesFrom(b)[p].entries]

\* So they do in all messages that begin like s.
Before(s, p, es) == \A b : Agree(b, s, p - 1) => At(b, p, es)

\* Of s the reader r has read k bytes: the entries es, and what it holds of one
\* more.  What follows those entries may still be anything.
ReaderAt(s, k, r, es) ==
  \E start \in 1 .. k + 1 :
    /\ Before(s, start, es)
    /\ \/ r.state = "tag" /\ start = k + 1
       \/ /\ r.state = "length" /\ s[start] = FieldTag /\ k = start + r.lengthBytes
          /\ PartialVarint(s, start + 1, r.lengthBytes, r.length)
       \/ /\ r.state = "body" /\ s[start] = FieldTag
          /\ WholeVarint(s, start + 1, r.lengthBytes, r.length)
          /\ k = start + r.lengthBytes + Len(r.body)
          /\ Len(r.body) < r.length /\ r.length <= MaxElementBytes
          /\ \A i \in 1 .. Len(r.body) : r.body[i] = s[start + r.lengthBytes + i]

LEMMA AgreeLess ==
  ASSUME NEW b, NEW s, NEW k \in Nat, NEW l \in Nat, l <= k, Agree(b, s, k)
  PROVE  Agree(b, s, l)
<1>1. b \in Seq(Byte) /\ Len(b) \in Nat /\ l <= Len(b)
  BY DEF Agree
<1>2. \A i \in 1 .. l : i \in 1 .. k
  OBVIOUS
<1> QED
  BY <1>1, <1>2 DEF Agree

LEMMA AgreeChain ==
  ASSUME NEW a, NEW b, NEW s, NEW k \in Nat, Agree(a, b, k), Agree(b, s, k)
  PROVE  Agree(a, s, k)
  BY DEF Agree

LEMMA AgreeSelf ==
  ASSUME NEW s \in Seq(Byte), NEW k \in Nat, k <= Len(s)
  PROVE  Agree(s, s, k)
  BY DEF Agree

LEMMA ReaderBegins ==
  ASSUME NEW s \in Seq(Byte)
  PROVE  ReaderAt(s, 0, NewReader, << >>)
<1>1. ASSUME NEW b, Agree(b, s, 0) PROVE At(b, 1, << >>)
  <2>1. b \in Seq(Byte) /\ 1 \in 1 .. Len(b) + 1
    BY <1>1 DEF Agree
  <2>2. EntriesFrom(b)[1] \in EntriesType
    BY <2>1, EntriesTyped
  <2> DEFINE e == EntriesFrom(b)[1]
  <2> HIDE DEF e
  <2>3. e \in EntriesType
    BY <2>2 DEF e
  <2>4. << >> \o e.entries = e.entries
    BY <2>3, ConcatEmptySeq DEF EntriesType
  <2>5. e = [kind |-> e.kind, entries |-> << >> \o e.entries]
    BY <2>3, <2>4 DEF EntriesType
  <2> QED
    BY <2>1, <2>5 DEF At, e
<1>2. 1 \in 1 .. 0 + 1 /\ 1 - 1 = 0
  OBVIOUS
<1> QED
  BY <1>1, <1>2 DEF ReaderAt, NewReader, Before

\* Where the entries before position k are, whatever the reader is doing.
LEMMA ReaderEntries ==
  ASSUME NEW s \in Seq(Byte), NEW k \in Nat, NEW r, NEW es, ReaderAt(s, k, r, es),
         NEW b, Agree(b, s, k)
  PROVE  \E p \in 1 .. k + 1 : At(b, p, es)
<1>1. PICK p \in 1 .. k + 1 : Before(s, p, es)
  BY DEF ReaderAt
<1>2. p - 1 \in Nat /\ p - 1 <= k
  OBVIOUS
<1>3. Agree(b, s, p - 1)
  BY <1>2, AgreeLess
<1> QED
  BY <1>1, <1>3 DEF Before

\* The message may go on differently after what was read.
LEMMA ReaderAgrees ==
  ASSUME NEW s \in Seq(Byte), NEW k \in Nat, k <= Len(s), NEW r \in Reader, NEW es,
         ReaderAt(s, k, r, es), NEW b, Agree(b, s, k)
  PROVE  ReaderAt(b, k, r, es)
<1>1. PICK start \in 1 .. k + 1 :
        /\ Before(s, start, es)
        /\ \/ r.state = "tag" /\ start = k + 1
           \/ /\ r.state = "length" /\ s[start] = FieldTag /\ k = start + r.lengthBytes
              /\ PartialVarint(s, start + 1, r.lengthBytes, r.length)
           \/ /\ r.state = "body" /\ s[start] = FieldTag
              /\ WholeVarint(s, start + 1, r.lengthBytes, r.length)
              /\ k = start + r.lengthBytes + Len(r.body)
              /\ Len(r.body) < r.length /\ r.length <= MaxElementBytes
              /\ \A i \in 1 .. Len(r.body) : r.body[i] = s[start + r.lengthBytes + i]
  BY DEF ReaderAt
<1>2. start - 1 \in Nat /\ start - 1 <= k /\ start + 1 \in Nat \ {0} /\ start \in Nat
  OBVIOUS
<1>3. Before(b, start, es)
  BY <1>1, <1>2, AgreeLess, AgreeChain DEF Before
<1>4. r.lengthBytes \in Nat /\ r.length \in Nat /\ Len(r.body) \in Nat
  BY DEF Reader, Element
<1>5. CASE r.state = "tag"
  BY <1>1, <1>3, <1>5 DEF ReaderAt
<1>6. CASE r.state = "length"
  <2>1. /\ s[start] = FieldTag /\ k = start + r.lengthBytes
        /\ PartialVarint(s, start + 1, r.lengthBytes, r.length)
    BY <1>1, <1>6
  <2>2. start \in 1 .. k /\ start + 1 + r.lengthBytes - 1 <= k
    BY <1>2, <1>4, <2>1
  <2>3. b[start] = FieldTag /\ PartialVarint(b, start + 1, r.lengthBytes, r.length)
    BY <1>2, <1>4, <2>1, <2>2, VarintsAgree DEF Agree
  <2> QED
    BY <1>3, <1>6, <2>1, <2>3 DEF ReaderAt
<1>7. CASE r.state = "body"
  <2>1. /\ s[start] = FieldTag
        /\ WholeVarint(s, start + 1, r.lengthBytes, r.length)
        /\ k = start + r.lengthBytes + Len(r.body)
        /\ Len(r.body) < r.length /\ r.length <= MaxElementBytes
        /\ \A i \in 1 .. Len(r.body) : r.body[i] = s[start + r.lengthBytes + i]
    BY <1>1, <1>7
  <2>2. start \in 1 .. k /\ start + 1 + r.lengthBytes - 1 <= k
    <3>1. \A n, m \in Nat : k = start + n + m => start \in 1 .. k /\ start + 1 + n - 1 <= k
      BY <1>2
    <3>2. k = start + r.lengthBytes + Len(r.body)
      BY <2>1
    <3> QED
      BY <1>4, <3>1, <3>2
  <2>3. b[start] = FieldTag /\ WholeVarint(b, start + 1, r.lengthBytes, r.length)
    BY <1>2, <1>4, <2>1, <2>2, VarintsAgree DEF Agree
  <2>4. \A i \in 1 .. Len(r.body) : start + r.lengthBytes + i \in 1 .. k
    <3>1. ASSUME NEW n \in Nat, NEW m \in Nat, k = start + n + m, NEW i \in 1 .. m
          PROVE  start + n + i \in 1 .. k
      BY <1>2, <3>1
    <3> QED
      BY <1>4, <2>1, <3>1
  <2>5. \A i \in 1 .. Len(r.body) : r.body[i] = b[start + r.lengthBytes + i]
    BY <2>1, <2>4 DEF Agree
  <2> QED
    BY <1>3, <1>7, <2>1, <2>3, <2>5 DEF ReaderAt
<1> QED
  BY <1>1, <1>5, <1>6, <1>7

LEMMA AppendMoves ==
  ASSUME NEW es \in Seq(Element), NEW e \in Element
  PROVE  \A rest \in Seq(Element) : es \o (<<e>> \o rest) = Append(es, e) \o rest
<1> SUFFICES ASSUME NEW rest \in Seq(Element)
             PROVE  es \o (<<e>> \o rest) = Append(es, e) \o rest
  OBVIOUS
<1>1. <<e>> \in Seq(Element) /\ Append(es, e) = es \o <<e>>
  BY AppendIsConcat
<1>2. (es \o <<e>>) \o rest = es \o (<<e>> \o rest)
  BY <1>1, ConcatAssociative
<1> QED
  BY <1>1, <1>2

\* One more entry.
LEMMA EntryRead ==
  ASSUME NEW s \in Seq(Byte), NEW start \in Nat \ {0}, NEW n \in Nat, NEW v \in Nat,
         NEW e \in Element, NEW es \in Seq(Element),
         s[start] = FieldTag, WholeVarint(s, start + 1, n, v), v <= MaxElementBytes,
         Len(e) = v, start + n + v <= Len(s), \A i \in 1 .. v : e[i] = s[start + n + i],
         Before(s, start, es),
         NEW b, Agree(b, s, start + n + v)
  PROVE  At(b, start + n + v + 1, Append(es, e))
<1> DEFINE first == start + 1 + n
           f     == EntriesFrom(b)
           next  == start + n + v + 1
<1>1. /\ start - 1 \in Nat /\ start + n + v \in Nat /\ start - 1 <= start + n + v
      /\ start \in 1 .. start + n + v /\ start + 1 \in Nat \ {0}
      /\ start + 1 + n - 1 <= start + n + v /\ start + n \in Nat /\ start + n <= start + n + v
      /\ n \in Nat \ {0}
  BY DEF WholeVarint
<1>2. b \in Seq(Byte) /\ Len(b) \in Nat /\ start + n + v <= Len(b) /\ b[start] = FieldTag
  BY <1>1 DEF Agree
<1>3. At(b, start, es)
  BY <1>1, AgreeLess DEF Before
<1>4. WholeVarint(b, start + 1, n, v)
  BY <1>1, VarintsAgree
<1>5. /\ VarintSpan(b, start + 1) = n /\ Fits(b, start + 1, n)
      /\ VarintSum(b, start + 1, n) = v
  BY <1>1, <1>2, <1>4, WholeSpan
<1> HIDE DEF f
<1>6. /\ first + v = next /\ first + v - 1 = start + n + v /\ first \in Int
      /\ next \in 1 .. Len(b) + 1
  <2>1. first + v = next /\ first + v - 1 = start + n + v /\ first \in Int
    OBVIOUS
  <2>2. next \in Nat \ {0} /\ next <= Len(b) + 1
    BY <1>1, <1>2
  <2> QED
    BY <1>2, <2>1, <2>2
<1>7. SubSeq(b, first, first + v - 1) = e
  <2>1. \A i \in first .. first + v - 1 : i \in 1 .. Len(b)
    BY <1>1, <1>2, <1>6
  <2>2. \A i \in first .. first + v - 1 : b[i] \in Byte
    BY <1>2, <2>1, ByteAt
  <2> DEFINE c == SubSeq(b, first, first + v - 1)
  <2>3. (first + v - 1) - first + 1 = v /\ (first <= first + v - 1 <=> v # 0)
        /\ first + v - 1 \in Int
    BY <1>6
  <2> HIDE DEF first
  <2>4. c \in Seq(Byte) /\ Len(c) = v /\ \A i \in 1 .. v : c[i] = b[first + i - 1]
    <3>1. /\ c \in Seq(Byte)
          /\ Len(c) = IF first <= first + v - 1 THEN (first + v - 1) - first + 1 ELSE 0
          /\ \A i \in 1 .. (first + v - 1) - first + 1 : c[i] = b[first + i - 1]
      BY <1>6, <2>2, <2>3, SubSeqProperties
    <3> HIDE DEF c
    <3> QED
      BY <2>3, <3>1
  <2>5. ASSUME NEW i \in 1 .. v PROVE c[i] = e[i]
    <3>1. first + i - 1 = start + n + i /\ start + n + i \in 1 .. start + n + v
      BY <1>1 DEF first
    <3>2. b[start + n + i] = s[start + n + i]
      BY <3>1 DEF Agree
    <3> QED
      BY <2>4, <3>1, <3>2
  <2> HIDE DEF c
  <2>6. c = e
    BY <2>4, <2>5, SeqEqual DEF Element
  <2> QED
    BY <2>6 DEF c
<1>8. f[start] = [kind |-> f[next].kind, entries |-> <<e>> \o f[next].entries]
  <2>1. start \in 1 .. Len(b) + 1 /\ start # Len(b) + 1
    BY <1>1, <1>2
  <2>2. f[start] = EntryAt(b, start, f)
    BY <1>2, <2>1, EntriesUnfold DEF f
  <2>3. n # 0 /\ ~ (v > MaxElementBytes) /\ ~ (next > Len(b) + 1)
    BY <1>1, <1>6, PsiMatchAssumption
  <2>4. start + 1 + n = first
    OBVIOUS
  <2> HIDE DEF next, first
  <2> QED
    BY <1>2, <1>5, <1>6, <1>7, <2>1, <2>2, <2>3, <2>4, Zenon DEF EntryAt
<1>9. f[next] \in EntriesType
  BY <1>2, <1>6, EntriesTyped DEF f
<1> HIDE DEF next
<1>10. es \o (<<e>> \o f[next].entries) = Append(es, e) \o f[next].entries
  <2>1. f[next].entries \in Seq(Element)
    BY <1>9 DEF EntriesType
  <2> QED
    BY <2>1, AppendMoves, Zenon
<1>11. f[1] = [kind |-> f[start].kind, entries |-> es \o f[start].entries]
  BY <1>3 DEF At, f
<1>12. f[1] = [kind |-> f[next].kind, entries |-> Append(es, e) \o f[next].entries]
  <2>1. f[start].kind = f[next].kind /\ f[start].entries = <<e>> \o f[next].entries
    BY <1>8, SMTT(60)
  <2> QED
    BY <1>10, <1>11, <2>1, Zenon
<1> QED
  BY <1>6, <1>12 DEF At, f, next

\* What a reader has of the entry it is in.
LEMMA ReadTag ==
  ASSUME NEW s \in Seq(Byte), NEW k \in Nat, k + 1 <= Len(s), NEW r, NEW es,
         ReaderAt(s, k, r, es), r.state = "tag", s[k + 1] = FieldTag,
         NEW q, q.state = "length", q.length = 0, q.lengthBytes = 0
  PROVE  ReaderAt(s, k + 1, q, es)
<1>1. Before(s, k + 1, es)
  BY DEF ReaderAt
<1>2. k + 1 \in 1 .. k + 1 + 1 /\ k + 1 + 1 \in Nat \ {0} /\ k + 1 + 1 - 1 <= Len(s)
      /\ k + 1 = k + 1 + 0
  OBVIOUS
<1>3. PartialVarint(s, k + 1 + 1, 0, 0)
  BY <1>2, VarintBegins
<1> QED
  BY <1>1, <1>2, <1>3 DEF ReaderAt

\* Where the entry and the varint of its length are, while it is read.
InLength(s, k, r, es, start) ==
  /\ start \in Nat \ {0} /\ start <= k /\ start - 1 \in Nat /\ start + 1 \in Nat \ {0}
  /\ Before(s, start, es)
  /\ s[start] = FieldTag /\ k = start + r.lengthBytes
  /\ PartialVarint(s, start + 1, r.lengthBytes, r.length)
  /\ r.lengthBytes \in Nat /\ r.length \in Nat /\ start + 1 + r.lengthBytes = k + 1

LEMMA LengthState ==
  ASSUME NEW s, NEW k \in Nat, NEW r \in Reader, NEW es, ReaderAt(s, k, r, es),
         r.state = "length"
  PROVE  \E start : InLength(s, k, r, es, start)
<1>1. PICK start \in 1 .. k + 1 :
           /\ Before(s, start, es)
           /\ s[start] = FieldTag /\ k = start + r.lengthBytes
           /\ PartialVarint(s, start + 1, r.lengthBytes, r.length)
  BY DEF ReaderAt
<1>2. r.lengthBytes \in Nat /\ r.length \in Nat
  BY DEF Reader
<1>3. start \in Nat \ {0} /\ start <= k /\ start - 1 \in Nat /\ start + 1 \in Nat \ {0}
      /\ start + 1 + r.lengthBytes = k + 1
  BY <1>1, <1>2
<1> QED
  BY <1>1, <1>2, <1>3 DEF InLength

LEMMA ReadLength ==
  ASSUME NEW s \in Seq(Byte), NEW k \in Nat, k + 1 <= Len(s), NEW r \in Reader,
         NEW es \in Seq(Element),
         ReaderAt(s, k, r, es), r.state = "length", ~ VarintRefused(s[k + 1], r.lengthBytes),
         NEW q, q.length = VarintValue(s[k + 1], r.length, r.lengthBytes),
         q.lengthBytes = r.lengthBytes + 1
  PROVE  /\ ~ VarintDone(s[k + 1]) /\ q.state = "length" => ReaderAt(s, k + 1, q, es)
         /\ VarintDone(s[k + 1]) /\ q.state = "body" /\ q.body = << >>
            /\ 0 < q.length /\ q.length <= MaxElementBytes => ReaderAt(s, k + 1, q, es)
         /\ VarintDone(s[k + 1]) /\ q.state = "tag" /\ q.length = 0
              => ReaderAt(s, k + 1, q, Append(es, << >>))
<1>0. PICK start : InLength(s, k, r, es, start)
  BY LengthState
<1>1. /\ start \in Nat \ {0} /\ start <= k /\ start - 1 \in Nat /\ start + 1 \in Nat \ {0}
      /\ Before(s, start, es)
      /\ s[start] = FieldTag /\ k = start + r.lengthBytes
      /\ PartialVarint(s, start + 1, r.lengthBytes, r.length)
      /\ r.lengthBytes \in Nat /\ r.length \in Nat /\ start + 1 + r.lengthBytes = k + 1
  BY <1>0 DEF InLength
<1>2. /\ ~ VarintDone(s[k + 1]) => PartialVarint(s, start + 1, q.lengthBytes, q.length)
      /\ VarintDone(s[k + 1]) => WholeVarint(s, start + 1, q.lengthBytes, q.length)
  BY <1>1, VarintGrows
<1>3. start \in 1 .. k + 1 + 1 /\ k + 1 = start + q.lengthBytes /\ q.lengthBytes \in Nat
  <2>1. ASSUME NEW n \in Nat, k = start + n
        PROVE  start \in 1 .. k + 1 + 1 /\ k + 1 = start + (n + 1) /\ n + 1 \in Nat
    BY <1>1, <2>1
  <2> QED
    BY <1>1, <2>1
<1>4. ASSUME ~ VarintDone(s[k + 1]), q.state = "length" PROVE ReaderAt(s, k + 1, q, es)
  BY <1>1, <1>2, <1>3, <1>4 DEF ReaderAt
<1>5. ASSUME VarintDone(s[k + 1]), q.state = "body", q.body = << >>, 0 < q.length,
             q.length <= MaxElementBytes
      PROVE  ReaderAt(s, k + 1, q, es)
  <2>1. Len(q.body) = 0 /\ k + 1 = start + q.lengthBytes + 0
        /\ \A i \in 1 .. 0 : q.body[i] = s[start + q.lengthBytes + i]
    BY <1>3, <1>5, EmptySeq
  <2> QED
    BY <1>1, <1>2, <1>3, <1>5, <2>1 DEF ReaderAt
<1>6. ASSUME VarintDone(s[k + 1]), q.state = "tag", q.length = 0
      PROVE  ReaderAt(s, k + 1, q, Append(es, << >>))
  <2>1. << >> \in Element /\ Len(<< >>) = 0 /\ 0 <= MaxElementBytes
    BY EmptySeq, PsiMatchAssumption DEF Element
  <2>2. WholeVarint(s, start + 1, q.lengthBytes, 0)
    BY <1>2, <1>6
  <2> DEFINE n == q.lengthBytes
  <2>3. n \in Nat /\ start + n + 0 = k + 1 /\ WholeVarint(s, start + 1, n, 0)
    BY <1>3, <2>2
  <2> HIDE DEF n
  <2>4. ASSUME NEW c, Agree(c, s, k + 1) PROVE At(c, k + 2, Append(es, << >>))
    <3>1. Agree(c, s, start + n + 0) /\ start + n + 0 <= Len(s) /\ start + n + 0 + 1 = k + 2
      BY <2>3, <2>4
    <3>2. \A i \in 1 .. 0 : (<< >>)[i] = s[start + n + i]
      OBVIOUS
    <3>3. At(c, start + n + 0 + 1, Append(es, << >>))
      BY <1>1, <2>1, <2>3, <3>1, <3>2, EntryRead
    <3> QED
      BY <3>1, <3>3
  <2>5. k + 2 - 1 = k + 1 /\ k + 2 \in 1 .. k + 1 + 1 /\ k + 2 = k + 1 + 1
    OBVIOUS
  <2>6. Before(s, k + 2, Append(es, << >>))
    BY <2>4, <2>5 DEF Before
  <2> QED
    BY <1>6, <2>5, <2>6 DEF ReaderAt
<1> QED
  BY <1>4, <1>5, <1>6

\* Where the entry and its bytes are, while they are read.
InBody(s, k, r, es, start) ==
  /\ start \in Nat \ {0} /\ start <= k /\ start - 1 \in Nat /\ start + 1 \in Nat \ {0}
  /\ Before(s, start, es)
  /\ s[start] = FieldTag /\ k = start + r.lengthBytes + Len(r.body)
  /\ WholeVarint(s, start + 1, r.lengthBytes, r.length)
  /\ Len(r.body) < r.length /\ r.length <= MaxElementBytes
  /\ \A i \in 1 .. Len(r.body) : r.body[i] = s[start + r.lengthBytes + i]
  /\ r.lengthBytes \in Nat /\ r.length \in Nat /\ Len(r.body) \in Nat /\ r.body \in Element
  /\ start + 1 + r.lengthBytes - 1 <= k

LEMMA BodyState ==
  ASSUME NEW s, NEW k \in Nat, NEW r \in Reader, NEW es, ReaderAt(s, k, r, es),
         r.state = "body"
  PROVE  \E start : InBody(s, k, r, es, start)
<1>1. PICK start \in 1 .. k + 1 :
           /\ Before(s, start, es)
           /\ s[start] = FieldTag
           /\ WholeVarint(s, start + 1, r.lengthBytes, r.length)
           /\ k = start + r.lengthBytes + Len(r.body)
           /\ Len(r.body) < r.length /\ r.length <= MaxElementBytes
           /\ \A i \in 1 .. Len(r.body) : r.body[i] = s[start + r.lengthBytes + i]
  BY DEF ReaderAt
<1>2. r.lengthBytes \in Nat /\ r.length \in Nat /\ Len(r.body) \in Nat /\ r.body \in Element
  BY DEF Reader, Element
<1>3. ASSUME NEW n \in Nat, NEW m \in Nat, k = start + n + m
      PROVE  start \in Nat \ {0} /\ start <= k /\ start - 1 \in Nat /\ start + 1 \in Nat \ {0}
             /\ start + 1 + n - 1 <= k
  BY <1>3
<1> QED
  BY <1>1, <1>2, <1>3 DEF InBody

LEMMA PlaceAfter ==
  \A start \in Nat \ {0} : \A k, x, y, n \in Nat :
    k = start + x + y => k + n = start + x + (y + n) /\ start \in 1 .. k + n + 1
  OBVIOUS

LEMMA ReadBody ==
  ASSUME NEW s \in Seq(Byte), NEW k \in Nat, NEW r \in Reader, NEW es \in Seq(Element),
         ReaderAt(s, k, r, es), r.state = "body",
         NEW n \in Nat, k + n <= Len(s), NEW body \in Element, Len(body) = Len(r.body) + n,
         \A i \in 1 .. Len(r.body) : body[i] = r.body[i],
         \A i \in 1 .. n : body[Len(r.body) + i] = s[k + i],
         NEW q
  PROVE  /\ q.state = "body" /\ q.lengthBytes = r.lengthBytes /\ q.length = r.length
            /\ q.body = body /\ Len(body) < r.length => ReaderAt(s, k + n, q, es)
         /\ q.state = "tag" /\ Len(body) = r.length => ReaderAt(s, k + n, q, Append(es, body))
<1>0. PICK start : InBody(s, k, r, es, start)
  BY BodyState
<1> DEFINE l == r.length
           h == r.lengthBytes
           m == Len(r.body)
<1>1. /\ start \in Nat \ {0}
      /\ Before(s, start, es)
      /\ s[start] = FieldTag /\ k = start + h + m
      /\ WholeVarint(s, start + 1, h, l)
      /\ m < l /\ l <= MaxElementBytes
      /\ \A i \in 1 .. m : r.body[i] = s[start + h + i]
      /\ h \in Nat /\ l \in Nat /\ m \in Nat
  BY <1>0 DEF InBody
<1>2. Len(body) = m + n /\ \A i \in 1 .. n : body[m + i] = s[k + i]
  OBVIOUS
<1>3. \A i \in 1 .. m : body[i] = r.body[i]
  OBVIOUS
<1> HIDE DEF l, h, m
<1>4. ASSUME NEW i \in 1 .. m + n PROVE body[i] = s[start + h + i]
  <2>1. CASE i <= m
    <3>1. i \in 1 .. m
      BY <1>1, <2>1
    <3> QED
      BY <1>1, <1>3, <3>1
  <2>2. CASE i > m
    <3>1. i - m \in 1 .. n /\ m + (i - m) = i /\ k + (i - m) = start + h + i
      BY <1>1, <2>2
    <3>2. body[m + (i - m)] = s[k + (i - m)]
      BY <1>2, <3>1
    <3> QED
      BY <3>1, <3>2
  <2> QED
    BY <1>1, <2>1, <2>2
<1>5. k + n = start + h + (m + n) /\ start \in 1 .. k + n + 1
  BY <1>1, PlaceAfter
<1>6. ASSUME q.state = "body", q.lengthBytes = h, q.length = l, q.body = body, Len(body) < l
      PROVE  ReaderAt(s, k + n, q, es)
  <2>1. /\ WholeVarint(s, start + 1, q.lengthBytes, q.length)
        /\ k + n = start + q.lengthBytes + Len(q.body)
        /\ Len(q.body) < q.length /\ q.length <= MaxElementBytes
    BY <1>1, <1>2, <1>5, <1>6
  <2>2. \A i \in 1 .. Len(q.body) : q.body[i] = s[start + q.lengthBytes + i]
    BY <1>2, <1>4, <1>6
  <2> QED
    BY <1>1, <1>5, <1>6, <2>1, <2>2 DEF ReaderAt
<1>7. ASSUME q.state = "tag", Len(body) = l
      PROVE  ReaderAt(s, k + n, q, Append(es, body))
  <2>1. k + n = start + h + l /\ l = m + n
    BY <1>1, <1>2, <1>5, <1>7
  <2>2. ASSUME NEW c, Agree(c, s, k + n) PROVE At(c, k + n + 1, Append(es, body))
    <3>1. Agree(c, s, start + h + l) /\ start + h + l <= Len(s)
      BY <2>1, <2>2
    <3>2. \A i \in 1 .. l : body[i] = s[start + h + i]
      BY <1>4, <2>1
    <3>3. At(c, start + h + l + 1, Append(es, body))
      BY <1>1, <1>7, <3>1, <3>2, EntryRead
    <3> QED
      BY <2>1, <3>3
  <2>3. k + n + 1 - 1 = k + n /\ k + n + 1 \in 1 .. k + n + 1
    BY <1>5
  <2>4. Before(s, k + n + 1, Append(es, body))
    BY <2>2, <2>3 DEF Before
  <2> QED
    BY <1>7, <2>3, <2>4 DEF ReaderAt
<1> QED
  BY <1>6, <1>7 DEF l, h

-----------------------------------------------------------------------------
(***************************************************************************)
(* What a reader refuses, or ends inside of, is the beginning of no run of *)
(* entries.                                                                *)
(***************************************************************************)
NoEntries(b) == Entries(b).kind # "whole"

LEMMA NotWhole ==
  ASSUME NEW b, NEW p, NEW es, At(b, p, es), EntriesFrom(b)[p] = Cut \/ EntriesFrom(b)[p] = Bad
  PROVE  NoEntries(b)
  BY DEF At, NoEntries, Entries, Cut, Bad

LEMMA RefusesTag ==
  ASSUME NEW s \in Seq(Byte), NEW k \in Nat, NEW r, NEW es, ReaderAt(s, k, r, es),
         r.state = "tag", s[k + 1] # FieldTag, NEW b, Agree(b, s, k + 1)
  PROVE  NoEntries(b)
<1>1. b \in Seq(Byte) /\ k + 1 <= Len(b) /\ b[k + 1] = s[k + 1] /\ Len(b) \in Nat
  BY DEF Agree
<1>2. At(b, k + 1, es)
  <2>1. Agree(b, s, k) /\ k + 1 - 1 = k
    BY AgreeLess
  <2> QED
    BY <2>1 DEF ReaderAt, Before
<1>3. k + 1 \in 1 .. Len(b) + 1 /\ k + 1 # Len(b) + 1
  BY <1>1
<1>4. EntriesFrom(b)[k + 1] = Bad
  BY <1>1, <1>3, EntriesUnfold DEF EntryAt
<1> QED
  BY <1>2, <1>4, NotWhole

\* An entry that begins like one of b.
LEMMA EntryBegins ==
  ASSUME NEW s \in Seq(Byte), NEW start \in Nat \ {0}, NEW k \in Nat, start <= k,
         s[start] = FieldTag, NEW es, Before(s, start, es),
         NEW b, Agree(b, s, k)
  PROVE  /\ b \in Seq(Byte) /\ Len(b) \in Nat /\ k <= Len(b) /\ start \in 1 .. Len(b)
         /\ b[start] = FieldTag /\ At(b, start, es)
         /\ EntriesFrom(b)[start] = EntryAt(b, start, EntriesFrom(b))
<1>1. b \in Seq(Byte) /\ k <= Len(b) /\ Len(b) \in Nat /\ start \in 1 .. Len(b)
      /\ start \in 1 .. Len(b) + 1
  BY DEF Agree
<1>2. b[start] = FieldTag
  BY DEF Agree
<1>3. start - 1 \in Nat /\ start - 1 <= k
  OBVIOUS
<1>4. At(b, start, es)
  BY <1>3, AgreeLess DEF Before
<1> QED
  BY <1>1, <1>2, <1>4, EntriesUnfold

LEMMA RefusesLength ==
  ASSUME NEW s \in Seq(Byte), NEW k \in Nat, k + 1 <= Len(s), NEW r \in Reader, NEW es,
         ReaderAt(s, k, r, es), r.state = "length", NEW b, Agree(b, s, k + 1),
         \/ VarintRefused(s[k + 1], r.lengthBytes)
         \/ /\ ~ VarintRefused(s[k + 1], r.lengthBytes) /\ VarintDone(s[k + 1])
            /\ VarintValue(s[k + 1], r.length, r.lengthBytes) > MaxElementBytes
  PROVE  NoEntries(b)
<1>0. PICK start : InLength(s, k, r, es, start)
  BY LengthState
<1> DEFINE h == r.lengthBytes
           l == r.length
<1>1. /\ start \in Nat \ {0} /\ start <= k + 1 /\ start + 1 \in Nat \ {0}
      /\ Before(s, start, es)
      /\ s[start] = FieldTag /\ start + 1 + h - 1 <= k + 1
      /\ PartialVarint(s, start + 1, h, l) /\ h \in Nat /\ l \in Nat
      /\ start + 1 + h = k + 1 /\ k + 1 \in Nat
  BY <1>0, SMTT(60) DEF InLength
<1>2. /\ b \in Seq(Byte) /\ Len(b) \in Nat /\ k + 1 <= Len(b) /\ start \in 1 .. Len(b)
      /\ b[start] = FieldTag /\ At(b, start, es)
      /\ EntriesFrom(b)[start] = EntryAt(b, start, EntriesFrom(b))
  BY <1>1, EntryBegins
<1>3. b[k + 1] = s[k + 1] /\ PartialVarint(b, start + 1, h, l)
  <2>1. PartialVarint(b, start + 1, h, l)
    BY <1>1, VarintsAgree
  <2> QED
    BY <2>1 DEF Agree
<1>4. start # Len(b) + 1
  BY <1>2
<1> HIDE DEF h, l
<1>5. CASE VarintRefused(s[k + 1], h)
  <2> DEFINE span == VarintSpan(b, start + 1)
  <2>1. VarintRefused(b[start + 1 + h], h) /\ start + 1 + h <= Len(b)
    BY <1>1, <1>2, <1>3, <1>5
  <2>2. \/ span = 0 /\ start + 1 + MaxVarintBytes - 1 <= Len(b)
        \/ span > 0 /\ ~ Fits(b, start + 1, span)
    BY <1>1, <1>2, <1>3, <2>1, RefusedSpan
  <2>3. span = 0 => ~ (Len(b) - start < MaxVarintBytes)
    <3>1. MaxVarintBytes \in Nat
      BY PsiMatchAssumption
    <3> HIDE DEF span
    <3> QED
      BY <1>2, <2>2, <3>1
  <2>4. EntriesFrom(b)[start] = Bad
    BY <1>2, <1>4, <2>2, <2>3 DEF EntryAt
  <2> QED
    BY <1>2, <2>4, NotWhole
<1>6. CASE /\ ~ VarintRefused(s[k + 1], h) /\ VarintDone(s[k + 1])
           /\ VarintValue(s[k + 1], l, h) > MaxElementBytes
  <2> DEFINE v == VarintValue(s[k + 1], l, h)
             n == h + 1
  <2>1. WholeVarint(b, start + 1, n, v)
    <3>1. /\ start + 1 + h <= Len(b) /\ ~ VarintRefused(b[start + 1 + h], h)
          /\ VarintDone(b[start + 1 + h]) /\ b[start + 1 + h] = s[k + 1]
      BY <1>1, <1>2, <1>3, <1>6
    <3> QED
      BY <1>1, <1>2, <1>3, <3>1, VarintGrows
  <2>2. VarintSpan(b, start + 1) = n /\ Fits(b, start + 1, n) /\ VarintSum(b, start + 1, n) = v
    BY <1>1, <1>2, <2>1, WholeSpan
  <2>3. n # 0 /\ v > MaxElementBytes
    BY <1>1, <1>6
  <2> HIDE DEF n, v
  <2>4. EntriesFrom(b)[start] = Bad
    BY <1>2, <1>4, <2>2, <2>3 DEF EntryAt
  <2> QED
    BY <1>2, <2>4, NotWhole
<1> QED
  BY <1>5, <1>6 DEF h, l

LEMMA EndsInside ==
  ASSUME NEW s \in Seq(Byte), NEW k \in Nat, k <= Len(s), NEW r \in Reader, NEW es,
         ReaderAt(s, k, r, es), r.state # "tag", NEW b, Agree(b, s, k), Len(b) = k
  PROVE  NoEntries(b)
<1>1. CASE r.state = "length"
  <2>0. PICK start : InLength(s, k, r, es, start)
    BY <1>1, LengthState
  <2> DEFINE h == r.lengthBytes
             l == r.length
  <2>1. /\ start \in Nat \ {0} /\ start <= k /\ start + 1 \in Nat \ {0}
        /\ Before(s, start, es)
        /\ s[start] = FieldTag /\ start + 1 + h - 1 <= k /\ start + 1 + h - 1 = k
        /\ PartialVarint(s, start + 1, h, l) /\ h \in Nat /\ l \in Nat
    BY <2>0 DEF InLength
  <2>2. /\ b \in Seq(Byte) /\ Len(b) \in Nat /\ start \in 1 .. Len(b)
        /\ b[start] = FieldTag /\ At(b, start, es)
        /\ EntriesFrom(b)[start] = EntryAt(b, start, EntriesFrom(b))
    BY <2>1, EntryBegins
  <2>3. PartialVarint(b, start + 1, h, l)
    BY <2>1, VarintsAgree
  <2> HIDE DEF h, l
  <2>4. VarintSpan(b, start + 1) = 0
    BY <2>1, <2>2, <2>3, PartialSpan
  <2>5. EntriesFrom(b)[start] = Cut \/ EntriesFrom(b)[start] = Bad
    <3>1. start # Len(b) + 1
      BY <2>2
    <3> QED
      BY <2>2, <2>4, <3>1 DEF EntryAt
  <2> QED
    BY <2>2, <2>5, NotWhole
<1>2. CASE r.state = "body"
  <2>0. PICK start : InBody(s, k, r, es, start)
    BY <1>2, BodyState
  <2> DEFINE h == r.lengthBytes
             l == r.length
             m == Len(r.body)
  <2>1. /\ start \in Nat \ {0} /\ start <= k /\ start + 1 \in Nat \ {0}
        /\ Before(s, start, es)
        /\ s[start] = FieldTag /\ start + 1 + h - 1 <= k /\ k = start + h + m
        /\ WholeVarint(s, start + 1, h, l) /\ m < l
        /\ h \in Nat /\ l \in Nat /\ m \in Nat
    BY <2>0 DEF InBody
  <2>2. /\ b \in Seq(Byte) /\ Len(b) \in Nat /\ start \in 1 .. Len(b)
        /\ b[start] = FieldTag /\ At(b, start, es)
        /\ EntriesFrom(b)[start] = EntryAt(b, start, EntriesFrom(b))
    BY <2>1, EntryBegins
  <2>3. WholeVarint(b, start + 1, h, l)
    BY <2>1, VarintsAgree
  <2> HIDE DEF h, l, m
  <2>4. VarintSpan(b, start + 1) = h /\ Fits(b, start + 1, h) /\ VarintSum(b, start + 1, h) = l
    BY <2>1, <2>2, <2>3, WholeSpan
  <2>5. h # 0 /\ start # Len(b) + 1
    BY <2>1, <2>2 DEF WholeVarint
  <2>6. start + 1 + h + l > Len(b) + 1
    <3>1. \A x, y, z, u \in Nat : y < z => x + 1 + u + z > (x + u + y) + 1
      OBVIOUS
    <3>2. start \in Nat /\ Len(b) = start + h + m
      BY <2>1
    <3> QED
      BY <2>1, <3>1, <3>2
  <2>7. EntriesFrom(b)[start] = Cut \/ EntriesFrom(b)[start] = Bad
    BY <2>2, <2>4, <2>5, <2>6 DEF EntryAt
  <2> QED
    BY <2>2, <2>7, NotWhole
<1> QED
  BY <1>1, <1>2 DEF Reader

\* A reader that ends between two entries has them all.
LEMMA EndsBetween ==
  ASSUME NEW s \in Seq(Byte), NEW k \in Nat, NEW r, NEW es \in Seq(Element),
         ReaderAt(s, k, r, es), r.state = "tag", NEW b, Agree(b, s, k), Len(b) = k
  PROVE  Entries(b) = [kind |-> "whole", entries |-> es]
<1>1. At(b, k + 1, es) /\ b \in Seq(Byte)
  <2>1. k + 1 - 1 = k
    OBVIOUS
  <2> QED
    BY <2>1 DEF ReaderAt, Agree, Before
<1>2. EntriesFrom(b)[k + 1] = Whole
  <2>1. k + 1 \in 1 .. Len(b) + 1 /\ k + 1 = Len(b) + 1
    OBVIOUS
  <2> QED
    BY <1>1, <2>1, EntriesUnfold DEF EntryAt
<1>3. Whole.kind = "whole" /\ Whole.entries = << >>
  BY DEF Whole
<1>4. es \o << >> = es
  BY ConcatEmptySeq
<1> QED
  BY <1>1, <1>2, <1>3, <1>4, Zenon DEF At, Entries

\* What lies before a reader are the first entries of the message.
LEMMA EntriesBefore ==
  ASSUME NEW b \in Seq(Byte), NEW p, NEW es \in Seq(Element), At(b, p, es)
  PROVE  /\ Entries(b).entries \in Seq(Element) /\ Len(es) <= Len(Entries(b).entries)
         /\ \A i \in 1 .. Len(es) : Entries(b).entries[i] = es[i]
<1> DEFINE rest == EntriesFrom(b)[p].entries
<1>1. p \in 1 .. Len(b) + 1 /\ Entries(b).entries = es \o rest
  BY DEF At, Entries
<1>2. rest \in Seq(Element)
  <2>1. EntriesFrom(b)[p] \in EntriesType
    BY <1>1, EntriesTyped
  <2> QED
    BY <2>1 DEF EntriesType
<1> HIDE DEF rest
<1>3. /\ es \o rest \in Seq(Element) /\ Len(es \o rest) = Len(es) + Len(rest)
      /\ \A i \in 1 .. Len(es) + Len(rest) :
           (es \o rest)[i] = IF i <= Len(es) THEN es[i] ELSE rest[i - Len(es)]
  BY <1>2, ConcatProperties
<1>4. Len(es) \in Nat /\ Len(rest) \in Nat
  BY <1>2
<1>5. \A i \in 1 .. Len(es) : i \in 1 .. Len(es) + Len(rest) /\ i <= Len(es)
  BY <1>4
<1> QED
  BY <1>1, <1>3, <1>4, <1>5

-----------------------------------------------------------------------------
(***************************************************************************)
(* Where the readers are.  Of what was sent of stream m, Taken(m) bytes    *)
(* have been consumed and the rest is the window of the call in progress;  *)
(* of the entries of its Message, Eaten(m) bytes have been fed.            *)
(***************************************************************************)
Reading(m) == pc = m \/ (m = "response" /\ pc \in {"decrypt", "search", "thrown"})
Unread(m)  == IF Reading(m) THEN Len(window) ELSE 0
Taken(m)   == Len(sent[m]) - Unread(m)

\* What follows a tag and a length of n bytes.
Field(s, n) == SubSeq(s, n + 2, Len(s))

Message(m) == IF m = "setup" THEN Field(sent["setup"], rawLengthBytes) ELSE sent["response"]
Eaten(m)   == IF m = "setup" THEN rawLength - rawRemaining ELSE Taken("response")
Got(m)     == IF m = "setup" THEN setup ELSE received
Fed(m)     == ReaderAt(Message(m), Eaten(m), reader[m], Got(m))

WindowInv(m) ==
  /\ Unread(m) <= Len(sent[m])
  /\ \A i \in 1 .. Unread(m) : window[i] = sent[m][Taken(m) + i]

HeaderBegun(s) ==
  /\ Taken("setup") = 1 + rawLengthBytes /\ s[1] = FieldTag
  /\ PartialVarint(s, 2, rawLengthBytes, rawLength)

HeaderRead(s) ==
  /\ Taken("setup") = 1 + rawLengthBytes + Eaten("setup") /\ rawRemaining <= rawLength
  /\ s[1] = FieldTag /\ WholeVarint(s, 2, rawLengthBytes, rawLength)

HeaderInv ==
  /\ frame = "tag" => Taken("setup") = 0 /\ rawLength = 0
  /\ frame = "length" => HeaderBegun(sent["setup"])
  /\ frame \in {"tag", "length"} => reader["setup"] = NewReader /\ setup = << >>
  /\ frame \in {"body", "done"} => HeaderRead(sent["setup"]) /\ Fed("setup")
  /\ frame = "done" => rawRemaining = 0 /\ reader["setup"].state = "tag"
  /\ frame = "body" /\ pc # "setup" => rawRemaining # 0
  /\ Len(setup) <= MaxElements

StreamInv ==
  failure = "OK" =>
    /\ \A m \in Stream : WindowInv(m)
    /\ phase # "finished" => HeaderInv
    /\ Fed("response")

LEMMA FieldAt ==
  ASSUME NEW s \in Seq(Byte), NEW n \in Nat, n + 1 <= Len(s)
  PROVE  /\ Field(s, n) \in Seq(Byte) /\ Len(Field(s, n)) = Len(s) - (n + 1)
         /\ \A i \in 1 .. Len(s) - (n + 1) : Field(s, n)[i] = s[n + 1 + i]
<1>1. Len(s) \in Nat
  OBVIOUS
<1>2. \A i \in n + 2 .. Len(s) : s[i] \in Byte
  <2>1. \A i \in n + 2 .. Len(s) : i \in 1 .. Len(s)
    OBVIOUS
  <2> QED
    BY <2>1, ByteAt
<1>3. /\ Field(s, n) \in Seq(Byte)
      /\ Len(Field(s, n)) = IF n + 2 <= Len(s) THEN Len(s) - (n + 2) + 1 ELSE 0
      /\ \A i \in 1 .. Len(s) - (n + 2) + 1 : Field(s, n)[i] = s[n + 2 + i - 1]
  BY <1>1, <1>2, SubSeqProperties DEF Field
<1>4. /\ Len(s) - (n + 2) + 1 = Len(s) - (n + 1)
      /\ (n + 2 <= Len(s) \/ Len(s) - (n + 1) = 0)
      /\ \A i \in 1 .. Len(s) - (n + 1) : n + 2 + i - 1 = n + 1 + i
  BY <1>1
<1> QED
  BY <1>3, <1>4

LEMMA BodyIsField ==
  ASSUME NEW s \in Seq(Byte), NEW n, NEW v, WholeVarint(s, 2, n, v)
  PROVE  Body(s) = Field(s, n) /\ n \in Nat /\ n + 1 <= Len(s)
<1>1. VarintSpan(s, 2) = n
  BY WholeSpan
<1>2. n \in Nat /\ n + 1 <= Len(s) /\ 2 + n = n + 2
  BY DEF WholeVarint
<1> QED
  BY <1>1, <1>2 DEF Body, Field

\* A message goes on after the part of it that was read.
LEMMA FieldGrows ==
  ASSUME NEW s \in Seq(Byte), NEW t \in Seq(Byte), Agree(t, s, Len(s)),
         NEW n \in Nat, n + 1 <= Len(s)
  PROVE  Agree(Field(t, n), Field(s, n), Len(Field(s, n)))
<1>1. Len(s) \in Nat /\ Len(t) \in Nat /\ Len(s) <= Len(t) /\ n + 1 <= Len(t)
  BY DEF Agree
<1>2. /\ Field(t, n) \in Seq(Byte) /\ Len(Field(t, n)) = Len(t) - (n + 1)
      /\ \A i \in 1 .. Len(t) - (n + 1) : Field(t, n)[i] = t[n + 1 + i]
  BY <1>1, FieldAt
<1>3. /\ Len(Field(s, n)) = Len(s) - (n + 1)
      /\ \A i \in 1 .. Len(s) - (n + 1) : Field(s, n)[i] = s[n + 1 + i]
  BY FieldAt
<1>4. \A i \in 1 .. Len(s) - (n + 1) :
        i \in 1 .. Len(t) - (n + 1) /\ n + 1 + i \in 1 .. Len(s)
  BY <1>1
<1>5. \A i \in 1 .. Len(s) : t[i] = s[i]
  BY DEF Agree
<1>6. Len(Field(s, n)) <= Len(Field(t, n))
  BY <1>1, <1>2, <1>3
<1> QED
  BY <1>2, <1>3, <1>4, <1>5, <1>6 DEF Agree

LEMMA PlaceInField ==
  \A e, w, h, l \in Nat : e + w = l - (h + 1) =>
    \A i \in 1 .. w : e + i \in 1 .. l - (h + 1) /\ h + 1 + (e + i) = 1 + h + e + i
OBVIOUS

\* What the invariant says of a step that feeds.
LEMMA FeedingFrom ==
  ASSUME ShapeInv, StreamInv, PhaseInv, failure = "OK", NEW m \in Stream, InFeed(m)
  PROVE  /\ Message(m) \in Seq(Byte) /\ Eaten(m) \in Nat
         /\ Eaten(m) + Available(m) <= Len(Message(m)) /\ Available(m) \in 1 .. Len(window)
         /\ \A i \in 1 .. Available(m) : window[i] = Message(m)[Eaten(m) + i]
         /\ Fed(m) /\ reader[m] \in Reader /\ Got(m) \in Seq(Element)
         /\ Head(window) = Message(m)[Eaten(m) + 1]
<1>1. /\ TypeOK /\ pc = m /\ Available(m) \in 1 .. Len(window) /\ Len(window) \in Nat
      /\ reader[m] \in Reader /\ window \in Seq(Byte)
  BY FeedingState DEF ShapeInv
<1>2. Got(m) \in Seq(Element) /\ sent[m] \in Seq(Byte) /\ Len(sent[m]) \in Nat
  BY <1>1 DEF TypeOK, Got, Stream
<1>3. WindowInv(m) /\ Unread(m) = Len(window) /\ Taken(m) = Len(sent[m]) - Len(window)
  BY <1>1 DEF StreamInv, Unread, Taken, Reading
<1>4. Taken(m) \in Nat /\ \A i \in 1 .. Len(window) : window[i] = sent[m][Taken(m) + i]
  BY <1>1, <1>2, <1>3 DEF WindowInv
<1>5. CASE m = "response"
  <2>1. Message(m) = sent[m] /\ Eaten(m) = Taken(m) /\ Available(m) = Len(window) /\ Fed(m)
    BY <1>5 DEF Message, Eaten, Available, StreamInv
  <2>2. Head(window) = window[1]
    BY <1>1
  <2> QED
    BY <1>1, <1>2, <1>3, <1>4, <2>1, <2>2
<1>6. CASE m = "setup"
  <2>1. HeaderRead(sent["setup"]) /\ Fed("setup")
    <3>1. frame = "body" /\ phase # "finished"
      BY <1>1, <1>6 DEF InFeed, PhaseInv
    <3> QED
      BY <3>1 DEF StreamInv, HeaderInv
  <2> DEFINE h == rawLengthBytes
             s == sent["setup"]
  <2>2. /\ Taken(m) = 1 + h + Eaten(m) /\ rawRemaining <= rawLength
        /\ h \in Nat /\ rawLength \in Nat /\ rawRemaining \in Nat
        /\ WholeVarint(s, 2, h, rawLength)
    BY <1>1, <1>6, <2>1 DEF HeaderRead, TypeOK
  <2>3. Eaten(m) \in Nat /\ Message(m) = Field(s, h)
    BY <1>6, <2>2 DEF Eaten, Message
  <2>4. s \in Seq(Byte) /\ Len(s) \in Nat /\ h + 1 <= Len(s)
    BY <1>2, <1>6, <2>2, BodyIsField
  <2>5. /\ Message(m) \in Seq(Byte) /\ Len(Message(m)) = Len(s) - (h + 1)
        /\ \A i \in 1 .. Len(s) - (h + 1) : Message(m)[i] = s[h + 1 + i]
    <3>1. /\ Field(s, h) \in Seq(Byte) /\ Len(Field(s, h)) = Len(s) - (h + 1)
          /\ \A i \in 1 .. Len(s) - (h + 1) : Field(s, h)[i] = s[h + 1 + i]
      BY <2>2, <2>4, FieldAt
    <3> HIDE DEF s, h
    <3> QED
      BY <2>3, <3>1
  <2>6. Eaten(m) + Len(window) = Len(Message(m))
    BY <1>1, <1>3, <1>6, <2>2, <2>3, <2>4, <2>5
  <2>7. ASSUME NEW i \in 1 .. Len(window) PROVE window[i] = Message(m)[Eaten(m) + i]
    <3>1. Eaten(m) + i \in 1 .. Len(s) - (h + 1) /\ h + 1 + (Eaten(m) + i) = Taken(m) + i
      <4>1. /\ Eaten(m) \in Nat /\ Len(window) \in Nat /\ Len(s) \in Nat /\ h \in Nat
            /\ Eaten(m) + Len(window) = Len(s) - (h + 1)
        BY <1>1, <2>2, <2>3, <2>4, <2>5, <2>6
      <4> HIDE DEF s, h
      <4> QED
        BY <2>2, <4>1, PlaceInField, SMTT(60)
    <3>2. Message(m)[Eaten(m) + i] = s[h + 1 + (Eaten(m) + i)]
      BY <2>5, <3>1
    <3> QED
      BY <1>4, <1>6, <3>1, <3>2
  <2>8. Head(window) = window[1]
    BY <1>1
  <2>9. \A i \in 1 .. Available(m) : i \in 1 .. Len(window)
    BY <1>1
  <2>10. 1 \in 1 .. Available(m)
    BY <1>1
  <2>11. Eaten(m) + Available(m) <= Len(Message(m))
    BY <1>1, <2>3, <2>6
  <2>12. \A i \in 1 .. Available(m) : window[i] = Message(m)[Eaten(m) + i]
    BY <2>7, <2>9
  <2> QED
    BY <1>1, <1>2, <1>6, <2>1, <2>3, <2>5, <2>8, <2>10, <2>11, <2>12
<1> QED
  BY <1>5, <1>6 DEF Stream

\* A step that feeds n bytes to the reader of m.
LEMMA FedStep ==
  ASSUME ShapeInv, StreamInv, PhaseInv, failure = "OK", NEW m \in Stream, InFeed(m),
         NEW n \in 1 .. Available(m), window' = After(n), CountDown(m, n),
         UNCHANGED <<sent, frame, rawLength, rawLengthBytes, phase, failure>>,
         pc' = pc \/ (m = "response" /\ pc' = "decrypt"),
         NEW q, reader' = [reader EXCEPT ![m] = q],
         \A k \in Stream \ {m} : Got(k)' = Got(k), Len(setup') <= MaxElements,
         ReaderAt(Message(m), Eaten(m) + n, q, Got(m)')
  PROVE  StreamInv'
<1>1. /\ TypeOK /\ pc = m /\ Available(m) \in 1 .. Len(window) /\ Len(window) \in Nat
      /\ reader \in [Stream -> Reader]
  BY FeedingState DEF ShapeInv, TypeOK
<1>2. n \in 1 .. Len(window) /\ n \in Nat
  BY <1>1
<1>3. Len(window') = Len(window) - n /\ \A i \in 1 .. Len(window) - n : window'[i] = window[n + i]
  <2>1. window \in Seq(Byte)
    BY <1>1 DEF TypeOK
  <2>2. \A i \in n + 1 .. Len(window) : window[i] \in Byte
    BY <1>2, <2>1, ElementOfSeq
  <2>3. /\ Len(After(n)) = IF n + 1 <= Len(window) THEN Len(window) - (n + 1) + 1 ELSE 0
        /\ \A i \in 1 .. Len(window) - (n + 1) + 1 : After(n)[i] = window[n + 1 + i - 1]
    BY <1>1, <1>2, <2>2, SubSeqProperties DEF After
  <2> QED
    BY <1>1, <1>2, <2>3
<1>4. Len(sent[m]) \in Nat /\ WindowInv(m) /\ Unread(m) = Len(window)
  BY <1>1 DEF TypeOK, StreamInv, Unread, Reading
<1>5. Unread(m)' = Len(window) - n /\ Taken(m)' = Taken(m) + n /\ Unread(m)' <= Len(sent[m])
  <2>1. Unread(m)' = Len(window') /\ sent' = sent
    BY <1>1 DEF Unread, Reading
  <2> QED
    BY <1>1, <1>2, <1>3, <1>4, <2>1 DEF Taken, WindowInv
<1>6. WindowInv(m)'
  <2>1. ASSUME NEW i \in 1 .. Len(window) - n PROVE window'[i] = sent[m][Taken(m) + n + i]
    <3>1. n + i \in 1 .. Len(window) /\ Taken(m) \in Int
      BY <1>1, <1>2, <1>4 DEF Taken
    <3>2. Taken(m) + n + i = Taken(m) + (n + i)
      BY <1>2, <3>1
    <3>3. window[n + i] = sent[m][Taken(m) + (n + i)]
      BY <1>4, <3>1 DEF WindowInv
    <3> QED
      BY <1>3, <3>2, <3>3
  <2> QED
    BY <1>5, <2>1 DEF WindowInv
<1>7. ASSUME NEW k \in Stream \ {m}
      PROVE Unread(k) = 0 /\ Unread(k)' = 0 /\ Taken(k)' = Taken(k)
  BY <1>1 DEF Unread, Reading, Taken, Stream
<1>8. \A k \in Stream : WindowInv(k)'
  BY <1>6, <1>7 DEF WindowInv, StreamInv
<1>9. reader'[m] = q /\ \A k \in Stream \ {m} : reader'[k] = reader[k]
  BY <1>1
<1>10. Message("setup")' = Message("setup") /\ Message("response")' = Message("response")
  BY DEF Message
<1>11. CASE m = "setup"
  <2>1. frame = "body" /\ phase # "finished" /\ HeaderInv /\ Fed("response")
    BY <1>1, <1>11 DEF InFeed, PhaseInv, StreamInv
  <2>2. /\ rawRemaining' = rawRemaining - n /\ n <= rawRemaining /\ rawRemaining <= rawLength
        /\ Taken("setup") = 1 + rawLengthBytes + Eaten("setup")
        /\ rawRemaining \in Nat /\ rawLength \in Nat /\ rawLengthBytes \in Nat
    <3>1. Available(m) <= rawRemaining
      BY <1>1, <1>11, AvailableTypes
    <3>2. HeaderRead(sent["setup"])
      BY <2>1 DEF HeaderInv
    <3> QED
      BY <1>1, <1>2, <1>11, <3>1, <3>2, SMTT(60) DEF CountDown, HeaderRead, TypeOK
  <2>3. Eaten("setup")' = Eaten("setup") + n
    BY <1>2, <2>2 DEF Eaten
  <2>4. Taken("setup")' = 1 + rawLengthBytes + Eaten("setup")' /\ rawRemaining' <= rawLength
    <3>1. Taken("setup")' = Taken("setup") + n
      BY <1>5, <1>11
    <3>2. Eaten("setup") \in Int
      BY <2>2 DEF Eaten
    <3> QED
      BY <1>2, <2>2, <2>3, <3>1, <3>2
  <2>5. HeaderRead(sent["setup"])'
    BY <2>1, <2>4 DEF HeaderInv, HeaderRead
  <2>6. Fed("setup")'
    BY <1>9, <1>10, <1>11, <2>3 DEF Fed
  <2>7. HeaderInv'
    BY <1>1, <1>11, <2>1, <2>5, <2>6 DEF HeaderInv
  <2>8. Fed("response")'
    BY <1>7, <1>9, <1>10, <1>11, <2>1 DEF Fed, Eaten, Stream
  <2> QED
    BY <1>8, <2>7, <2>8 DEF StreamInv
<1>12. CASE m = "response"
  <2>1. Fed("response")'
    BY <1>5, <1>9, <1>10, <1>12 DEF Fed, Eaten
  <2>2. rawRemaining' = rawRemaining /\ Taken("setup")' = Taken("setup") /\ setup' = setup
        /\ reader'["setup"] = reader["setup"] /\ pc # "setup" /\ pc' # "setup"
    BY <1>1, <1>7, <1>9, <1>12 DEF CountDown, Got, Stream
  <2>3. Eaten("setup")' = Eaten("setup") /\ Got("setup")' = Got("setup")
    BY <2>2 DEF Eaten, Got
  <2>4. ASSUME phase # "finished" PROVE HeaderInv'
    <3>1. HeaderInv
      BY <2>4 DEF StreamInv
    <3>2. HeaderRead(sent["setup"]) => HeaderRead(sent["setup"])'
      BY <2>2, <2>3 DEF HeaderRead
    <3>3. HeaderBegun(sent["setup"]) => HeaderBegun(sent["setup"])'
      BY <2>2 DEF HeaderBegun
    <3>4. Fed("setup") => Fed("setup")'
      BY <1>10, <2>2, <2>3 DEF Fed
    <3> QED
      BY <2>2, <3>1, <3>2, <3>3, <3>4 DEF HeaderInv
  <2> QED
    BY <1>8, <2>1, <2>4 DEF StreamInv
<1> QED
  BY <1>11, <1>12 DEF Stream

\* No setup's entries are, or begin with, those of b.
Unlawful(b) ==
  NoEntries(b) \/ ~ Ascending(Entries(b).entries) \/ Len(Entries(b).entries) > MaxElements

\* Whatever follows what was sent of the raw field.
NothingFollows ==
  \A b : Agree(b, Message("setup"), Len(Message("setup"))) => Unlawful(b)

\* A step of the reader of m either keeps the invariant or refuses rightly.
FeedGoal(m) ==
  /\ failure' = "OK" => StreamInv'
  /\ failure' # "OK" /\ m = "setup" => NothingFollows

\* The grammar's order of elements is the one the code compares by.
LEMMA SameOrder ==
  ASSUME NEW a \in Element, NEW b \in Element
  PROVE  Precedes(a, b) <=> Less(a, b)
<1>1. Len(a) \in Nat /\ Len(b) \in Nat
  BY LenProperties DEF Element
<1>2. ASSUME Precedes(a, b) PROVE Less(a, b)
  <2>1. PICK i \in 1 .. Len(b) :
               /\ i <= Len(a) + 1 /\ \A j \in 1 .. i - 1 : a[j] = b[j]
               /\ i = Len(a) + 1 \/ a[i] < b[i]
    BY <1>2 DEF Precedes
  <2>2. CASE i = Len(a) + 1
    <3>1. Len(a) < Len(b) /\ \A j \in 1 .. Len(a) : j \in 1 .. i - 1
      BY <1>1, <2>1, <2>2
    <3> QED
      BY <2>1, <3>1 DEF Less
  <2>3. CASE i # Len(a) + 1
    <3>1. i \in 1 .. Smaller(Len(a), Len(b))
      BY <1>1, <2>1, <2>3 DEF Smaller
    <3> QED
      BY <2>1, <2>3, <3>1 DEF Less
  <2> QED
    BY <2>2, <2>3
<1>3. ASSUME Less(a, b) PROVE Precedes(a, b)
  <2>1. CASE \E i \in 1 .. Smaller(Len(a), Len(b)) :
               a[i] < b[i] /\ \A j \in 1 .. i - 1 : a[j] = b[j]
    <3>1. PICK i \in 1 .. Smaller(Len(a), Len(b)) :
                 a[i] < b[i] /\ \A j \in 1 .. i - 1 : a[j] = b[j]
      BY <2>1
    <3>2. i \in 1 .. Len(b) /\ i <= Len(a) + 1
      BY <1>1, <3>1 DEF Smaller
    <3> QED
      BY <3>1, <3>2 DEF Precedes
  <2>2. CASE Len(a) < Len(b) /\ \A j \in 1 .. Len(a) : a[j] = b[j]
    <3> DEFINE i == Len(a) + 1
    <3>1. i \in 1 .. Len(b) /\ i <= Len(a) + 1 /\ i = Len(a) + 1
          /\ \A j \in 1 .. i - 1 : j \in 1 .. Len(a)
      BY <1>1, <2>2
    <3> HIDE DEF i
    <3> QED
      BY <2>2, <3>1 DEF Precedes
  <2> QED
    BY <1>3, <2>1, <2>2 DEF Less
<1> QED
  BY <1>2, <1>3

\* An entry that does not follow those before it is in no setup.
LEMMA BadEntry ==
  ASSUME NEW s \in Seq(Byte), NEW k \in Nat, k <= Len(s), NEW q, q.state = "tag",
         setup \in Seq(Element), NEW e \in Element, ReaderAt(s, k, q, Append(setup, e)),
         Len(setup) >= MaxElements \/ ~ Ascends(e),
         NEW b, Agree(b, s, Len(s))
  PROVE  Unlawful(b)
<1> DEFINE es == Append(setup, e)
           en == Entries(b).entries
           n  == Len(setup)
<1>1. Len(s) \in Nat /\ b \in Seq(Byte) /\ n \in Nat /\ MaxElements \in Nat
  BY PsiMatchAssumption DEF Agree
<1>2. Agree(b, s, k)
  BY <1>1, AgreeLess
<1>3. At(b, k + 1, es)
  <2>1. k + 1 - 1 = k
    OBVIOUS
  <2>2. Before(s, k + 1, es)
    BY DEF ReaderAt
  <2> QED
    BY <1>2, <2>1, <2>2 DEF Before
<1>4. /\ es \in Seq(Element) /\ Len(es) = n + 1 /\ es[n + 1] = e
      /\ \A i \in 1 .. n : es[i] = setup[i]
  BY AppendProperties
<1> HIDE DEF es
<1>5. /\ en \in Seq(Element) /\ Len(es) <= Len(en)
      /\ \A i \in 1 .. Len(es) : en[i] = es[i]
  BY <1>1, <1>3, <1>4, EntriesBefore
<1> HIDE DEF en
<1>6. Len(en) \in Nat /\ n + 1 <= Len(en)
  BY <1>1, <1>4, <1>5
<1>7. CASE Len(setup) >= MaxElements
  <2>1. Len(en) > MaxElements
    BY <1>1, <1>6, <1>7
  <2> QED
    BY <2>1 DEF Unlawful, en
<1>8. CASE ~ Ascends(e)
  <2>1. setup # << >> /\ ~ Less(setup[n], e)
    BY <1>8 DEF Ascends
  <2>2. n \in 1 .. n /\ n \in 1 .. n + 1 /\ n + 1 \in 1 .. n + 1
    BY <1>1, <2>1
  <2>3. en[n] = setup[n] /\ en[n + 1] = e
    BY <1>4, <1>5, <2>2
  <2>4. n \in 1 .. Len(en) - 1
    BY <1>6, <2>2
  <2>5. setup[n] \in Element
    BY <2>2, ElementOfSeq
  <2>6. ~ Precedes(en[n], en[n + 1])
    BY <2>1, <2>3, <2>5, SameOrder
  <2>7. ~ Ascending(en)
    BY <2>4, <2>6 DEF Ascending
  <2> QED
    BY <2>7 DEF Unlawful, en
<1> QED
  BY <1>7, <1>8

LEMMA EntryStep ==
  ASSUME ShapeInv, StreamInv, PhaseInv, failure = "OK", NEW m \in Stream, InFeed(m),
         NEW n \in 1 .. Available(m), CountDown(m, n), UNCHANGED Unfed,
         NEW q, reader' = [reader EXCEPT ![m] = q], q.state = "tag",
         NEW e \in Element, OnEntry(m, e, After(n)),
         ReaderAt(Message(m), Eaten(m) + n, q, Append(Got(m), e))
  PROVE  FeedGoal(m)
<1>0. /\ pc = m /\ UNCHANGED <<sent, frame, rawLength, rawLengthBytes, phase>>
      /\ setup \in Seq(Element) /\ Len(setup) \in Nat /\ MaxElements \in Nat
  BY PsiMatchAssumption DEF InFeed, Unfed, ShapeInv, TypeOK
<1>1. CASE failure' = "OK"
  <2>1. window' = After(n) /\ (pc' = pc \/ (m = "response" /\ pc' = "decrypt"))
        /\ Got(m)' = Append(Got(m), e)
        /\ \A k \in Stream \ {m} : Got(k)' = Got(k)
    BY <1>0, <1>1
    DEF OnEntry, AddSetupElement, AddResponseElement, Fail, Got, Stream
  <2>2. Len(setup') <= MaxElements
    <3>1. CASE m = "setup"
      <4>1. setup' = Append(setup, e) /\ ~ (Len(setup) >= MaxElements)
        BY <1>1, <3>1 DEF OnEntry, AddSetupElement, Fail
      <4>2. Len(setup') = Len(setup) + 1
        BY <1>0, <4>1, AppendProperties
      <4> QED
        BY <1>0, <4>1, <4>2
    <3>2. CASE m = "response"
      <4>1. setup' = setup
        BY <3>2 DEF OnEntry, AddResponseElement
      <4>2. phase # "finished"
        BY <1>0, <3>2 DEF PhaseInv
      <4> QED
        BY <4>1, <4>2 DEF StreamInv, HeaderInv
    <3> QED
      BY <3>1, <3>2 DEF Stream
  <2>3. ReaderAt(Message(m), Eaten(m) + n, q, Got(m)')
    BY <2>1
  <2>4. failure' = failure
    BY <1>1
  <2> QED
    BY <1>0, <1>1, <2>1, <2>2, <2>3, <2>4, FedStep DEF FeedGoal
<1>2. CASE failure' # "OK"
  <2>1. ASSUME m = "setup" PROVE NothingFollows
    <3>1. Len(setup) >= MaxElements \/ ~ Ascends(e)
      BY <1>2, <2>1 DEF OnEntry, AddSetupElement
    <3>2. /\ Message(m) \in Seq(Byte) /\ Eaten(m) + n \in Nat
          /\ Eaten(m) + n <= Len(Message(m)) /\ Got(m) = setup
      <4>1. /\ Message(m) \in Seq(Byte) /\ Eaten(m) \in Nat
            /\ Eaten(m) + Available(m) <= Len(Message(m)) /\ Available(m) \in 1 .. Len(window)
        BY FeedingFrom
      <4>2. Len(window) \in Nat /\ Len(Message(m)) \in Nat
        BY <4>1 DEF ShapeInv, TypeOK
      <4> QED
        BY <2>1, <4>1, <4>2 DEF Got
    <3>3. ReaderAt(Message(m), Eaten(m) + n, q, Append(setup, e))
      BY <3>2
    <3> QED
      BY <1>0, <2>1, <3>1, <3>2, <3>3, BadEntry DEF NothingFollows
  <2> QED
    BY <1>2, <2>1 DEF FeedGoal
<1> QED
  BY <1>1, <1>2

\* A reader that refuses what it was fed.
LEMMA RefusedStep ==
  ASSUME ShapeInv, StreamInv, PhaseInv, failure = "OK", NEW m \in Stream, InFeed(m),
         failure' # "OK",
         \A b : Agree(b, Message(m), Eaten(m) + 1) => NoEntries(b)
  PROVE  FeedGoal(m)
<1>1. ASSUME m = "setup" PROVE NothingFollows
  <2>1. /\ Eaten(m) \in Nat /\ Message(m) \in Seq(Byte)
        /\ Eaten(m) + Available(m) <= Len(Message(m)) /\ Available(m) \in 1 .. Len(window)
    BY FeedingFrom
  <2>2. Len(Message(m)) \in Nat /\ Eaten(m) + 1 \in Nat /\ Eaten(m) + 1 <= Len(Message(m))
    <3>1. Len(window) \in Nat
      BY DEF ShapeInv, TypeOK
    <3> QED
      BY <2>1, <3>1
  <2>3. ASSUME NEW b, Agree(b, Message(m), Len(Message(m))) PROVE NoEntries(b)
    BY <2>2, <2>3, AgreeLess
  <2> QED
    BY <1>1, <2>3 DEF NothingFollows, Unlawful
<1> QED
  BY <1>1 DEF FeedGoal

\* A step that ends no entry.
LEMMA QuietFeed ==
  ASSUME ShapeInv, StreamInv, PhaseInv, failure = "OK", NEW m \in Stream, InFeed(m),
         NEW n \in 1 .. Available(m), window' = After(n), CountDown(m, n), UNCHANGED Unfed,
         UNCHANGED <<failure, pc, setup, received>>,
         NEW q, reader' = [reader EXCEPT ![m] = q],
         ReaderAt(Message(m), Eaten(m) + n, q, Got(m))
  PROVE  FeedGoal(m)
<1>1. UNCHANGED <<sent, frame, rawLength, rawLengthBytes, phase>>
  BY DEF Unfed
<1>2. \A k \in Stream : Got(k)' = Got(k)
  BY DEF Got
<1>3. Len(setup') <= MaxElements
  <2>1. phase # "finished"
    BY DEF InFeed, PhaseInv, Stream
  <2> QED
    BY <2>1 DEF StreamInv, HeaderInv
<1>4. ReaderAt(Message(m), Eaten(m) + n, q, Got(m)')
  BY <1>2
<1> QED
  BY <1>1, <1>2, <1>3, <1>4, FedStep DEF FeedGoal

LEMMA FeedTagStep ==
  ASSUME ShapeInv, StreamInv, PhaseInv, failure = "OK", NEW m \in Stream, FeedTag(m)
  PROVE  FeedGoal(m)
<1> DEFINE q == [reader[m] EXCEPT !.state = "length", !.length = 0, !.lengthBytes = 0]
<1>1. /\ InFeed(m) /\ CountDown(m, 1) /\ UNCHANGED Unfed /\ reader[m].state = "tag"
      /\ UNCHANGED <<setup, batch, received>>
  BY DEF FeedTag
<1>2. /\ Message(m) \in Seq(Byte) /\ Eaten(m) \in Nat
      /\ Eaten(m) + Available(m) <= Len(Message(m)) /\ Available(m) \in 1 .. Len(window)
      /\ Fed(m) /\ reader[m] \in Reader
      /\ Head(window) = Message(m)[Eaten(m) + 1]
  BY <1>1, FeedingFrom
<1>3. 1 \in 1 .. Available(m) /\ Eaten(m) + 1 <= Len(Message(m))
  <2>1. Len(window) \in Nat /\ Len(Message(m)) \in Nat
    BY <1>2, SMTT(60) DEF ShapeInv, TypeOK
  <2> QED
    BY <1>2, <2>1
<1>4. CASE Head(window) # FieldTag
  <2>1. failure' # "OK"
    BY <1>4 DEF FeedTag, Fail
  <2>2. \A b : Agree(b, Message(m), Eaten(m) + 1) => NoEntries(b)
    BY <1>1, <1>2, <1>4, RefusesTag DEF Fed
  <2> QED
    BY <1>1, <2>1, <2>2, RefusedStep
<1>5. CASE Head(window) = FieldTag
  <2>1. /\ reader' = [reader EXCEPT ![m].state = "length", ![m].length = 0, ![m].lengthBytes = 0]
        /\ window' = After(1) /\ UNCHANGED <<failure, returned, pc>>
    BY <1>5 DEF FeedTag
  <2>2. reader' = [reader EXCEPT ![m] = q]
    BY <2>1 DEF ShapeInv, TypeOK, Reader
  <2>3. q.state = "length" /\ q.length = 0 /\ q.lengthBytes = 0
    BY <1>2 DEF Reader
  <2> HIDE DEF q
  <2>4. ReaderAt(Message(m), Eaten(m) + 1, q, Got(m))
    BY <1>1, <1>2, <1>3, <1>5, <2>3, ReadTag DEF Fed
  <2> QED
    BY <1>1, <1>3, <2>1, <2>2, <2>4, QuietFeed
<1> QED
  BY <1>4, <1>5

LEMMA FeedLengthStep ==
  ASSUME ShapeInv, StreamInv, PhaseInv, failure = "OK", NEW m \in Stream, FeedLength(m)
  PROVE  FeedGoal(m)
<1> DEFINE byte  == Head(window)
           value == VarintValue(byte, reader[m].length, reader[m].lengthBytes)
           read(st, body) == [state |-> st, length |-> value,
                              lengthBytes |-> reader[m].lengthBytes + 1, body |-> body]
<1>1. /\ InFeed(m) /\ CountDown(m, 1) /\ UNCHANGED Unfed /\ reader[m].state = "length"
  BY DEF FeedLength
<1>2. /\ Message(m) \in Seq(Byte) /\ Eaten(m) \in Nat
      /\ Eaten(m) + Available(m) <= Len(Message(m)) /\ Available(m) \in 1 .. Len(window)
      /\ Fed(m) /\ reader[m] \in Reader /\ Got(m) \in Seq(Element)
      /\ byte = Message(m)[Eaten(m) + 1]
  BY <1>1, FeedingFrom
<1>3. 1 \in 1 .. Available(m) /\ Eaten(m) + 1 <= Len(Message(m))
  <2>1. Len(window) \in Nat /\ Len(Message(m)) \in Nat
    BY <1>2, SMTT(60) DEF ShapeInv, TypeOK
  <2> QED
    BY <1>2, <2>1
<1>4. ReaderAt(Message(m), Eaten(m), reader[m], Got(m))
  BY <1>2 DEF Fed
<1>5. ASSUME NEW st, NEW body
      PROVE  LET q == read(st, body)
             IN q.state = st /\ q.length = value /\ q.lengthBytes = reader[m].lengthBytes + 1
                /\ q.body = body
  OBVIOUS
<1> HIDE DEF byte, value, read
<1>6. ASSUME failure' # "OK",
             \/ VarintRefused(byte, reader[m].lengthBytes)
             \/ /\ ~ VarintRefused(byte, reader[m].lengthBytes) /\ VarintDone(byte)
                /\ value > MaxElementBytes
      PROVE  FeedGoal(m)
  <2>1. \A b : Agree(b, Message(m), Eaten(m) + 1) => NoEntries(b)
    BY <1>1, <1>2, <1>3, <1>4, <1>6, RefusesLength DEF value
  <2> QED
    BY <1>1, <1>6, <2>1, RefusedStep
<1>7. CASE VarintRefused(byte, reader[m].lengthBytes) /\ Fail("length_too_big")
  BY <1>6, <1>7 DEF Fail
<1>8. CASE /\ ~ VarintRefused(byte, reader[m].lengthBytes) /\ ~ VarintDone(byte)
           /\ reader' = [reader EXCEPT ![m] = read("length", reader[m].body)]
           /\ window' = After(1) /\ UNCHANGED <<failure, returned, pc, setup, batch, received>>
  <2> DEFINE q == read("length", reader[m].body)
  <2>1. q.state = "length" /\ q.length = value /\ q.lengthBytes = reader[m].lengthBytes + 1
    BY <1>5
  <2> HIDE DEF q
  <2>2. ReaderAt(Message(m), Eaten(m) + 1, q, Got(m))
    BY <1>1, <1>2, <1>3, <1>4, <1>8, <2>1, ReadLength DEF value
  <2> QED
    BY <1>1, <1>3, <1>8, <2>2, QuietFeed DEF q
<1>9. CASE /\ ~ VarintRefused(byte, reader[m].lengthBytes) /\ VarintDone(byte)
           /\ value > MaxElementBytes /\ Fail("element_too_long")
  BY <1>6, <1>9 DEF Fail
<1>10. CASE /\ ~ VarintRefused(byte, reader[m].lengthBytes) /\ VarintDone(byte)
            /\ 0 < value /\ value <= MaxElementBytes
            /\ reader' = [reader EXCEPT ![m] = read("body", << >>)] /\ window' = After(1)
            /\ UNCHANGED <<failure, returned, pc, setup, batch, received>>
  <2> DEFINE q == read("body", << >>)
  <2>1. q.state = "body" /\ q.length = value /\ q.lengthBytes = reader[m].lengthBytes + 1
        /\ q.body = << >>
    BY <1>5
  <2> HIDE DEF q
  <2>2. ReaderAt(Message(m), Eaten(m) + 1, q, Got(m))
    BY <1>1, <1>2, <1>3, <1>4, <1>10, <2>1, ReadLength DEF value
  <2> QED
    BY <1>1, <1>3, <1>10, <2>2, QuietFeed DEF q
<1>11. CASE /\ ~ VarintRefused(byte, reader[m].lengthBytes) /\ VarintDone(byte) /\ value = 0
            /\ reader' = [reader EXCEPT ![m] = read("tag", << >>)]
            /\ OnEntry(m, << >>, After(1))
  <2> DEFINE q == read("tag", << >>)
  <2>1. q.state = "tag" /\ q.length = value /\ q.lengthBytes = reader[m].lengthBytes + 1
    BY <1>5
  <2> HIDE DEF q
  <2>2. ReaderAt(Message(m), Eaten(m) + 1, q, Append(Got(m), << >>))
    BY <1>1, <1>2, <1>3, <1>4, <1>11, <2>1, ReadLength DEF value
  <2>3. << >> \in Element
    BY EmptySeq DEF Element
  <2>4. reader' = [reader EXCEPT ![m] = q]
    BY <1>11 DEF q
  <2> QED
    BY <1>1, <1>3, <1>11, <2>1, <2>2, <2>3, <2>4, EntryStep
<1> QED
  BY <1>7, <1>8, <1>9, <1>10, <1>11 DEF FeedLength, byte, value, read

LEMMA FeedBodyStep ==
  ASSUME ShapeInv, StreamInv, PhaseInv, failure = "OK", NEW m \in Stream, FeedBody(m)
  PROVE  FeedGoal(m)
<1> DEFINE wanted == reader[m].length - Len(reader[m].body)
           taken  == Smaller(wanted, Available(m))
           body   == reader[m].body \o SubSeq(window, 1, taken)
           whole  == taken = wanted
           kept   == IF whole /\ reader[m].body = << >> THEN << >> ELSE body
           q      == [reader[m] EXCEPT !.body = kept, !.state = IF whole THEN "tag" ELSE "body"]
<1>1. /\ InFeed(m) /\ CountDown(m, taken) /\ UNCHANGED Unfed /\ reader[m].state = "body"
  BY DEF FeedBody
<1>2. /\ Message(m) \in Seq(Byte) /\ Eaten(m) \in Nat
      /\ Eaten(m) + Available(m) <= Len(Message(m)) /\ Available(m) \in 1 .. Len(window)
      /\ \A i \in 1 .. Available(m) : window[i] = Message(m)[Eaten(m) + i]
      /\ Fed(m) /\ reader[m] \in Reader /\ Got(m) \in Seq(Element)
  BY <1>1, FeedingFrom
<1>3. /\ taken \in 1 .. Available(m) /\ taken <= wanted /\ wanted \in Nat
      /\ After(taken) \in Seq(Byte)
      /\ body \in Element /\ Len(body) = Len(reader[m].body) + taken
  BY FeedBodyEntry
<1>4. /\ reader[m].length \in Nat /\ reader[m].body \in Element /\ Len(reader[m].body) \in Nat
      /\ window \in Seq(Byte) /\ Len(window) \in Nat /\ Len(Message(m)) \in Nat
  BY <1>2, SMTT(60) DEF Reader, Element, ShapeInv, TypeOK
<1>5. taken \in Nat /\ Eaten(m) + taken <= Len(Message(m)) /\ taken <= Len(window)
  <2> HIDE DEF taken
  <2> QED
    BY <1>2, <1>3, <1>4
<1>6. /\ \A i \in 1 .. Len(reader[m].body) : body[i] = reader[m].body[i]
      /\ \A i \in 1 .. taken : body[Len(reader[m].body) + i] = Message(m)[Eaten(m) + i]
  <2> HIDE DEF taken
  <2> DEFINE t == SubSeq(window, 1, taken)
             l == Len(reader[m].body)
  <2>1. \A i \in 1 .. taken : i \in 1 .. Len(window) /\ i \in 1 .. Available(m)
    BY <1>2, <1>3, <1>4, <1>5, SMTT(60)
  <2>2. \A i \in 1 .. taken : window[i] \in Byte
    BY <1>4, <2>1, ElementOfSeq
  <2>3. t \in Seq(Byte) /\ Len(t) = taken /\ \A i \in 1 .. taken : t[i] = window[i]
    BY <1>5, <2>2, SubSeqProperties
  <2> HIDE DEF t
  <2>4. \A i \in 1 .. l + taken :
          (reader[m].body \o t)[i] = IF i <= l THEN reader[m].body[i] ELSE t[i - l]
    BY <1>4, <2>3, ConcatProperties, SMTT(60) DEF Element
  <2>5. \A i \in 1 .. l : i \in 1 .. l + taken /\ i <= l
    BY <1>4, <1>5
  <2>6. \A i \in 1 .. taken : l + i \in 1 .. l + taken /\ ~ (l + i <= l) /\ (l + i) - l = i
    BY <1>4, <1>5
  <2> HIDE DEF l
  <2>7. \A i \in 1 .. l : body[i] = reader[m].body[i]
    BY <2>4, <2>5 DEF t
  <2>8. \A i \in 1 .. taken : body[l + i] = Message(m)[Eaten(m) + i]
    BY <1>2, <2>1, <2>3, <2>4, <2>6 DEF t
  <2> QED
    BY <2>7, <2>8 DEF l
<1>7. reader' = [reader EXCEPT ![m] = q]
  <2>1. reader' = [reader EXCEPT ![m].body = kept, ![m].state = IF whole THEN "tag" ELSE "body"]
    BY DEF FeedBody
  <2> QED
    BY <2>1 DEF ShapeInv, TypeOK, Reader
<1>8. whole => q.state = "tag" /\ Len(body) = reader[m].length
  <2> HIDE DEF taken, kept, body
  <2> QED
    BY <1>2, <1>3, <1>4, SMTT(60) DEF Reader
<1>9. ~ whole => /\ q.state = "body" /\ q.body = body /\ Len(body) < reader[m].length
                 /\ q.length = reader[m].length /\ q.lengthBytes = reader[m].lengthBytes
  <2> HIDE DEF taken, body
  <2> QED
    BY <1>2, <1>3, <1>4, <1>5, SMTT(60) DEF Reader
<1>10. ReaderAt(Message(m), Eaten(m), reader[m], Got(m))
  BY <1>2 DEF Fed
<1> HIDE DEF q, kept, body, taken, wanted
<1>11. CASE whole
  <2>1. ReaderAt(Message(m), Eaten(m) + taken, q, Append(Got(m), body))
    BY <1>1, <1>2, <1>3, <1>5, <1>6, <1>8, <1>10, <1>11, ReadBody
  <2>2. OnEntry(m, body, After(taken))
    BY <1>11 DEF FeedBody, body, taken, wanted
  <2> HIDE DEF whole
  <2> QED
    BY <1>1, <1>3, <1>7, <1>8, <1>11, <2>1, <2>2, EntryStep
<1>12. CASE ~ whole
  <2>1. ReaderAt(Message(m), Eaten(m) + taken, q, Got(m))
    BY <1>1, <1>2, <1>3, <1>5, <1>6, <1>9, <1>10, <1>12, ReadBody
  <2>2. window' = After(taken) /\ UNCHANGED <<failure, returned, pc, setup, batch, received>>
    BY <1>12 DEF FeedBody, body, taken, wanted
  <2> QED
    BY <1>1, <1>3, <1>7, <2>1, <2>2, QuietFeed
<1> QED
  BY <1>11, <1>12

-----------------------------------------------------------------------------
(***************************************************************************)
(* Every step keeps StreamInv.  Those that feed are above.                 *)
(***************************************************************************)
LEMMA StreamInit == Init => StreamInv
<1> SUFFICES ASSUME Init PROVE StreamInv
  OBVIOUS
<1>1. /\ pc = "idle" /\ frame = "tag" /\ rawLength = 0 /\ rawLengthBytes = 0 /\ setup = << >>
      /\ received = << >> /\ sent["setup"] = << >> /\ sent["response"] = << >>
      /\ reader["setup"] = NewReader /\ reader["response"] = NewReader
  BY DEF Init, Stream
<1>2. Len(<< >>) = 0 /\ << >> \in Seq(Byte) /\ MaxElements \in Nat
  BY EmptySeq, PsiMatchAssumption
<1>3. \A m \in Stream : Unread(m) = 0 /\ Taken(m) = 0 /\ sent[m] = << >>
  BY <1>1, <1>2 DEF Unread, Taken, Reading, Stream
<1>4. \A m \in Stream : WindowInv(m)
  BY <1>2, <1>3 DEF WindowInv
<1>5. HeaderInv
  BY <1>1, <1>2, <1>3 DEF HeaderInv, Stream
<1>6. Fed("response")
  <2>1. Message("response") = << >> /\ Eaten("response") = 0 /\ Got("response") = << >>
    BY <1>1, <1>3 DEF Message, Eaten, Got, Stream
  <2> QED
    BY <1>1, <1>2, <2>1, ReaderBegins DEF Fed
<1> QED
  BY <1>4, <1>5, <1>6 DEF StreamInv

LEMMA QuietStream ==
  ASSUME StreamInv, failure = "OK", UNCHANGED <<sent, window, reader, received, framing>>,
         \A m \in Stream : Unread(m)' = Unread(m),
         phase' # "finished" => phase # "finished" /\ setup' = setup,
         frame = "body" /\ pc' # "setup" => rawRemaining # 0
  PROVE  StreamInv'
<1>1. \A m \in Stream : Taken(m)' = Taken(m)
  BY DEF Taken
<1>2. \A m \in Stream : WindowInv(m)'
  BY <1>1 DEF WindowInv, StreamInv
<1>3. UNCHANGED <<frame, rawLength, rawLengthBytes, rawRemaining>>
  BY DEF framing
<1>4. Eaten("setup")' = Eaten("setup") /\ Eaten("response")' = Eaten("response")
      /\ Taken("setup")' = Taken("setup")
  BY <1>1, <1>3 DEF Eaten, Stream
<1>5. Message("setup")' = Message("setup") /\ Message("response")' = Message("response")
  BY <1>3 DEF Message
<1>6. ASSUME phase' # "finished" PROVE HeaderInv'
  <2>1. HeaderInv /\ setup' = setup
    BY <1>6 DEF StreamInv
  <2>2. HeaderBegun(sent["setup"]) => HeaderBegun(sent["setup"])'
    BY <1>3, <1>4 DEF HeaderBegun
  <2>3. HeaderRead(sent["setup"]) => HeaderRead(sent["setup"])'
    BY <1>3, <1>4 DEF HeaderRead
  <2>4. Fed("setup") => Fed("setup")'
    BY <1>4, <1>5, <2>1 DEF Fed, Got
  <2> QED
    BY <1>3, <1>4, <2>1, <2>2, <2>3, <2>4 DEF HeaderInv
<1>7. Fed("response")'
  BY <1>4, <1>5 DEF StreamInv, Fed, Got
<1> QED
  BY <1>2, <1>6, <1>7 DEF StreamInv

\* Between calls all that was sent has been read.
LEMMA IdleRead ==
  ASSUME ShapeInv, StreamInv, failure = "OK", NEW m \in Stream, pc # m,
         m = "response" => pc \notin {"decrypt", "search", "thrown"}
  PROVE  /\ Unread(m) = 0 /\ Taken(m) = Len(sent[m]) /\ Taken(m) \in Nat
         /\ sent[m] \in Seq(Byte)
<1>1. Unread(m) = 0
  BY DEF Unread, Reading
<1>2. sent[m] \in Seq(Byte)
  BY DEF ShapeInv, TypeOK
<1> QED
  BY <1>1, <1>2 DEF Taken

\* The raw field as far as it was read.
LEMMA FieldRead ==
  ASSUME ShapeInv, StreamInv, failure = "OK", phase # "finished", pc # "setup",
         frame \in {"body", "done"}
  PROVE  LET s == sent["setup"]
             h == rawLengthBytes
         IN  /\ s \in Seq(Byte) /\ h \in Nat /\ h + 1 <= Len(s)
             /\ s[1] = FieldTag /\ WholeVarint(s, 2, h, rawLength)
             /\ Message("setup") = Field(s, h) /\ Message("setup") \in Seq(Byte)
             /\ Len(Message("setup")) = Eaten("setup") /\ Eaten("setup") \in Nat
             /\ Body(s) = Message("setup")
             /\ rawLength \in Nat /\ rawRemaining \in Nat /\ rawRemaining <= rawLength
             /\ Eaten("setup") = rawLength - rawRemaining
             /\ Fed("setup") /\ reader["setup"] \in Reader /\ Got("setup") = setup
             /\ setup \in Seq(Element)
<1> DEFINE s == sent["setup"]
           h == rawLengthBytes
<1>1. HeaderRead(s) /\ Fed("setup")
  BY DEF StreamInv, HeaderInv
<1>2. Taken("setup") = Len(s) /\ s \in Seq(Byte)
  BY IdleRead DEF Stream
<1>3. /\ h \in Nat /\ rawLength \in Nat /\ rawRemaining \in Nat /\ setup \in Seq(Element)
      /\ reader["setup"] \in Reader
  BY DEF ShapeInv, TypeOK, Stream
<1>4. /\ Taken("setup") = 1 + h + Eaten("setup") /\ rawRemaining <= rawLength
      /\ s[1] = FieldTag /\ WholeVarint(s, 2, h, rawLength)
      /\ Message("setup") = Field(s, h) /\ Eaten("setup") = rawLength - rawRemaining
      /\ Got("setup") = setup
  BY <1>1 DEF HeaderRead, Message, Eaten, Got
<1> HIDE DEF s, h
<1>5. Body(s) = Field(s, h) /\ h + 1 <= Len(s)
  BY <1>2, <1>4, BodyIsField
<1>6. Field(s, h) \in Seq(Byte) /\ Len(Field(s, h)) = Len(s) - (h + 1)
  BY <1>2, <1>3, <1>5, FieldAt
<1>7. Len(Field(s, h)) = Eaten("setup") /\ Eaten("setup") \in Nat
  BY <1>2, <1>3, <1>4, <1>6
<1> QED
  BY <1>1, <1>2, <1>3, <1>4, <1>5, <1>6, <1>7 DEF s, h

\* A header that was read, in a message that goes on.
LEMMA HeaderGrows ==
  ASSUME NEW s \in Seq(Byte), NEW t, Agree(t, s, Len(s)), NEW n \in Nat, NEW v, Len(s) >= 1
  PROVE  /\ PartialVarint(s, 2, n, v) => PartialVarint(t, 2, n, v)
         /\ WholeVarint(s, 2, n, v) => WholeVarint(t, 2, n, v)
         /\ t[1] = s[1]
<1>1. PartialVarint(s, 2, n, v) \/ WholeVarint(s, 2, n, v) => 2 + n - 1 <= Len(s)
  BY DEF PartialVarint, WholeVarint
<1>2. Len(s) \in Nat /\ 1 \in 1 .. Len(s)
  OBVIOUS
<1>3. t[1] = s[1]
  BY <1>2 DEF Agree
<1>4. 2 + n - 1 <= Len(s) =>
        /\ PartialVarint(s, 2, n, v) => PartialVarint(t, 2, n, v)
        /\ WholeVarint(s, 2, n, v) => WholeVarint(t, 2, n, v)
  BY <1>2, VarintsAgree
<1> QED
  BY <1>1, <1>3, <1>4

LEMMA BeginStream ==
  ASSUME ShapeInv, StreamInv, failure = "OK", NEW m \in Stream, phase # "finished",
         pc = "idle", NEW bytes \in Seq(Byte), BeginWindow(m, bytes)
  PROVE  StreamInv'
<1> DEFINE s == sent[m]
           t == sent[m] \o bytes
<1>0. /\ window' = bytes /\ sent' = [sent EXCEPT ![m] = t] /\ pc' = m
      /\ UNCHANGED <<phase, failure, frame, rawLength, rawLengthBytes, rawRemaining, reader,
                     setup, received>>
  BY DEF BeginWindow, framing
<1>1. \A k \in Stream : /\ Unread(k) = 0 /\ Taken(k) = Len(sent[k]) /\ Taken(k) \in Nat
                        /\ sent[k] \in Seq(Byte)
  <2>1. \A k \in Stream : pc # k
    BY DEF Stream
  <2> QED
    BY <2>1, IdleRead
<1>2. sent'[m] = t /\ \A k \in Stream \ {m} : sent'[k] = sent[k]
  BY <1>0 DEF ShapeInv, TypeOK
<1>3. /\ t \in Seq(Byte) /\ Len(t) = Len(s) + Len(bytes) /\ Len(s) \in Nat /\ Len(bytes) \in Nat
      /\ \A i \in 1 .. Len(s) + Len(bytes) : t[i] = IF i <= Len(s) THEN s[i] ELSE bytes[i - Len(s)]
  BY <1>1, ConcatProperties
<1> HIDE DEF t, s
<1>4. Agree(t, s, Len(s))
  <2>1. \A i \in 1 .. Len(s) : i \in 1 .. Len(s) + Len(bytes) /\ i <= Len(s)
    BY <1>3
  <2>2. Len(s) <= Len(t)
    BY <1>3
  <2> QED
    BY <1>3, <2>1, <2>2 DEF Agree
<1>5. \A i \in 1 .. Len(bytes) : bytes[i] = t[Len(s) + i]
  <2>1. \A i \in 1 .. Len(bytes) : /\ Len(s) + i \in 1 .. Len(s) + Len(bytes)
                                   /\ ~ (Len(s) + i <= Len(s)) /\ (Len(s) + i) - Len(s) = i
    BY <1>3
  <2> QED
    BY <1>3, <2>1
<1>6. Unread(m)' = Len(bytes) /\ Taken(m)' = Len(s) /\ Taken(m)' = Taken(m)
  <2>1. Unread(m)' = Len(bytes)
    BY <1>0 DEF Unread, Reading
  <2> QED
    BY <1>1, <1>2, <1>3, <2>1 DEF Taken, s
<1>7. ASSUME NEW k \in Stream \ {m}
      PROVE Unread(k)' = 0 /\ Taken(k)' = Taken(k) /\ WindowInv(k)'
  <2>1. Unread(k)' = 0
    BY <1>0 DEF Unread, Reading, Stream
  <2>2. Taken(k)' = Taken(k)
    BY <1>1, <1>2, <2>1 DEF Taken
  <2> QED
    BY <1>1, <1>2, <2>1, <2>2 DEF WindowInv
<1>8. WindowInv(m)'
  <2>1. Len(bytes) <= Len(t)
    BY <1>3
  <2> QED
    BY <1>0, <1>2, <1>5, <1>6, <2>1 DEF WindowInv
<1>9. Eaten("setup")' = Eaten("setup") /\ Eaten("response")' = Eaten("response")
      /\ Taken("setup")' = Taken("setup")
  BY <1>0, <1>6, <1>7 DEF Eaten, Stream
<1>10. CASE m = "setup"
  <2>1. HeaderInv /\ s = sent["setup"] /\ sent'["setup"] = t
    BY <1>2, <1>10 DEF StreamInv, s
  <2>2. s \in Seq(Byte) /\ Taken("setup") = Len(s) /\ rawLengthBytes \in Nat
    BY <1>1, <1>10 DEF s, ShapeInv, TypeOK
  <2>3. HeaderBegun(s) => HeaderBegun(sent["setup"])'
    <3>1. HeaderBegun(s) => Len(s) >= 1
      BY <2>2 DEF HeaderBegun
    <3> QED
      BY <1>0, <1>4, <1>9, <2>1, <2>2, <3>1, HeaderGrows DEF HeaderBegun
  <2>4. HeaderRead(s) => HeaderRead(sent["setup"])'
    <3>1. HeaderRead(s) => Len(s) >= 1
      BY <2>2 DEF HeaderRead, WholeVarint
    <3> QED
      BY <1>0, <1>4, <1>9, <2>1, <2>2, <3>1, HeaderGrows DEF HeaderRead
  <2>5. ASSUME frame \in {"body", "done"} PROVE Fed("setup")'
    <3>1. /\ rawLengthBytes + 1 <= Len(s)
          /\ Message("setup") = Field(s, rawLengthBytes) /\ Message("setup") \in Seq(Byte)
          /\ Len(Message("setup")) = Eaten("setup") /\ Eaten("setup") \in Nat
          /\ Fed("setup") /\ reader["setup"] \in Reader
      BY <2>1, <2>5, FieldRead
    <3>2. Message("setup")' = Field(t, rawLengthBytes)
      BY <1>0, <2>1 DEF Message
    <3>3. Agree(Field(t, rawLengthBytes), Message("setup"), Eaten("setup"))
      BY <1>3, <1>4, <2>2, <3>1, FieldGrows
    <3>4. ReaderAt(Message("setup"), Eaten("setup"), reader["setup"], Got("setup"))
      BY <3>1 DEF Fed
    <3>5. ReaderAt(Field(t, rawLengthBytes), Eaten("setup"), reader["setup"], Got("setup"))
      BY <3>1, <3>3, <3>4, ReaderAgrees
    <3>6. Got("setup")' = Got("setup") /\ reader' = reader
      BY <1>0 DEF Got
    <3> QED
      BY <1>9, <3>2, <3>5, <3>6 DEF Fed
  <2>6. HeaderInv'
    <3>1. frame = "tag" => Taken("setup") = 0 /\ rawLength = 0
      BY <2>1 DEF HeaderInv
    <3> QED
      BY <1>0, <1>9, <1>10, <2>1, <2>3, <2>4, <2>5 DEF HeaderInv
  <2>7. Fed("response")'
    <3>1. Message("response")' = Message("response") /\ Got("response")' = Got("response")
          /\ reader' = reader
      BY <1>0, <1>2, <1>10 DEF Message, Got, Stream
    <3> QED
      BY <1>9, <3>1 DEF Fed, StreamInv
  <2> QED
    BY <1>7, <1>8, <2>6, <2>7 DEF StreamInv
<1>11. CASE m = "response"
  <2>1. HeaderInv /\ sent'["setup"] = sent["setup"]
    BY <1>2, <1>11 DEF StreamInv, Stream
  <2>2. HeaderBegun(sent["setup"]) => HeaderBegun(sent["setup"])'
    BY <1>0, <1>9, <2>1 DEF HeaderBegun
  <2>3. HeaderRead(sent["setup"]) => HeaderRead(sent["setup"])'
    BY <1>0, <1>9, <2>1 DEF HeaderRead
  <2>4. Message("setup")' = Message("setup") /\ Got("setup")' = Got("setup")
    BY <1>0, <2>1 DEF Message, Got
  <2>5. Fed("setup") => Fed("setup")'
    BY <1>0, <1>9, <2>4 DEF Fed
  <2>6. HeaderInv'
    BY <1>0, <1>9, <2>1, <2>2, <2>3, <2>5 DEF HeaderInv
  <2>7. Fed("response")'
    <3>1. ReaderAt(s, Len(s), reader["response"], received)
      BY <1>1, <1>11 DEF StreamInv, Fed, Message, Eaten, Got, s
    <3>2. reader["response"] \in Reader /\ s \in Seq(Byte)
      BY <1>1 DEF ShapeInv, TypeOK, Stream, s
    <3>3. ReaderAt(t, Len(s), reader["response"], received)
      BY <1>3, <1>4, <3>1, <3>2, ReaderAgrees
    <3>4. /\ Message("response")' = t /\ Eaten("response")' = Len(s)
          /\ Got("response")' = received /\ reader' = reader
      BY <1>0, <1>2, <1>6, <1>11 DEF Message, Eaten, Got
    <3> QED
      BY <3>3, <3>4 DEF Fed
  <2> QED
    BY <1>7, <1>8, <2>6, <2>7 DEF StreamInv
<1> QED
  BY <1>10, <1>11 DEF Stream

\* The next byte of the setup's header.
LEMMA HeaderByte ==
  ASSUME ShapeInv, StreamInv, failure = "OK", pc = "setup", window # << >>
  PROVE  LET s == sent["setup"]
         IN  /\ s \in Seq(Byte) /\ Taken("setup") \in Nat /\ Taken("setup") + 1 <= Len(s)
             /\ Head(window) = s[Taken("setup") + 1]
             /\ window' = Tail(window) /\ pc' = pc /\ sent' = sent =>
                  /\ Taken("setup")' = Taken("setup") + 1
                  /\ Taken("response")' = Taken("response")
                  /\ \A m \in Stream : WindowInv(m)'
<1> DEFINE s == sent["setup"]
<1>1. /\ window \in Seq(Byte) /\ Len(window) \in Nat /\ Len(window) >= 1
      /\ s \in Seq(Byte) /\ Len(s) \in Nat
  BY DEF ShapeInv, TypeOK, Stream
<1>2. /\ Unread("setup") = Len(window) /\ Taken("setup") = Len(s) - Len(window)
      /\ WindowInv("setup") /\ WindowInv("response")
  BY DEF Unread, Taken, Reading, StreamInv, Stream
<1>3. /\ Taken("setup") \in Nat /\ Taken("setup") + 1 <= Len(s)
      /\ \A i \in 1 .. Len(window) : window[i] = s[Taken("setup") + i]
  BY <1>1, <1>2 DEF WindowInv
<1>4. Head(window) = window[1] /\ 1 \in 1 .. Len(window)
  BY <1>1
<1>5. ASSUME window' = Tail(window), pc' = pc, sent' = sent
      PROVE  /\ Taken("setup")' = Taken("setup") + 1
             /\ Taken("response")' = Taken("response")
             /\ \A m \in Stream : WindowInv(m)'
  <2>1. /\ Len(window') = Len(window) - 1
        /\ \A i \in 1 .. Len(window) - 1 : window'[i] = window[i + 1]
    BY <1>1, <1>5, HeadTailProperties
  <2>2. /\ Unread("setup")' = Len(window) - 1 /\ Unread("response")' = 0
        /\ Unread("response") = 0
    BY <1>5, <2>1 DEF Unread, Reading
  <2>3. Taken("setup")' = Taken("setup") + 1 /\ Taken("response")' = Taken("response")
    BY <1>1, <1>2, <1>5, <2>2 DEF Taken
  <2>4. ASSUME NEW i \in 1 .. Len(window) - 1 PROVE window'[i] = s[Taken("setup") + 1 + i]
    <3>1. i + 1 \in 1 .. Len(window) /\ Taken("setup") + (i + 1) = Taken("setup") + 1 + i
      BY <1>1, <1>3
    <3>2. window[i + 1] = s[Taken("setup") + (i + 1)]
      BY <1>3, <3>1
    <3> QED
      BY <2>1, <3>1, <3>2
  <2>5. Unread("setup")' <= Len(s) /\ Unread("response")' <= Len(sent["response"])
    <3>1. sent["response"] \in Seq(Byte)
      BY DEF ShapeInv, TypeOK, Stream
    <3> QED
      BY <1>1, <1>2, <2>2, <3>1 DEF WindowInv
  <2>6. WindowInv("setup")'
    BY <1>5, <2>2, <2>3, <2>4, <2>5 DEF WindowInv
  <2>7. WindowInv("response")'
    BY <1>5, <2>2, <2>5 DEF WindowInv
  <2> QED
    BY <2>3, <2>6, <2>7 DEF Stream
<1> QED
  BY <1>1, <1>3, <1>4, <1>5

LEMMA SetupTagStream ==
  ASSUME ShapeInv, StreamInv, PhaseInv, failure = "OK", SetupTag, failure' = "OK"
  PROVE  StreamInv'
<1>1. /\ pc = "setup" /\ window # << >> /\ frame = "tag" /\ frame' = "length"
      /\ window' = Tail(window) /\ pc' = pc /\ Head(window) = FieldTag
      /\ UNCHANGED <<phase, rawLength, rawLengthBytes, rawRemaining, reader, setup, sent,
                     received>>
  BY DEF SetupTag, Fail, history
<1>2. phase = "setup" /\ HeaderInv /\ Fed("response") /\ rawLengthBytes = 0
  BY <1>1 DEF PhaseInv, StreamInv, ShapeInv, LengthInv
<1>3. Taken("setup") = 0 /\ rawLength = 0 /\ reader["setup"] = NewReader /\ setup = << >>
      /\ Len(setup) <= MaxElements
  BY <1>1, <1>2 DEF HeaderInv
<1> DEFINE s == sent["setup"]
<1>4. /\ s \in Seq(Byte) /\ 1 <= Len(s) /\ s[1] = FieldTag
      /\ Taken("setup")' = 1 /\ Taken("response")' = Taken("response")
      /\ \A m \in Stream : WindowInv(m)'
  BY <1>1, <1>3, HeaderByte
<1>5. PartialVarint(s, 2, 0, 0)
  <2> HIDE DEF s
  <2> QED
    BY <1>4, VarintBegins
<1>6. HeaderBegun(sent["setup"])'
  BY <1>1, <1>2, <1>3, <1>4, <1>5 DEF HeaderBegun
<1>7. HeaderInv'
  BY <1>1, <1>3, <1>6 DEF HeaderInv
<1>8. Fed("response")'
  BY <1>1, <1>2, <1>4 DEF Fed, Message, Eaten, Got
<1> QED
  BY <1>4, <1>7, <1>8 DEF StreamInv

LEMMA SetupLengthStream ==
  ASSUME ShapeInv, StreamInv, PhaseInv, failure = "OK", SetupLength, failure' = "OK"
  PROVE  StreamInv'
<1> DEFINE byte  == Head(window)
           h     == rawLengthBytes
           value == VarintValue(byte, rawLength, h)
           s     == sent["setup"]
<1>1. /\ pc = "setup" /\ window # << >> /\ frame = "length" /\ ~ VarintRefused(byte, h)
      /\ rawLength' = value /\ rawLengthBytes' = h + 1
      /\ window' = Tail(window) /\ pc' = pc
      /\ VarintDone(byte) => rawRemaining' = value /\ frame' = IF value = 0 THEN "done" ELSE "body"
      /\ ~ VarintDone(byte) => frame' = frame
      /\ UNCHANGED <<phase, reader, setup, sent, received>>
  BY DEF SetupLength, Fail, history
<1>2. phase = "setup" /\ HeaderInv /\ Fed("response") /\ h \in Nat
  BY <1>1 DEF PhaseInv, StreamInv, ShapeInv, TypeOK
<1>3. HeaderBegun(s) /\ reader["setup"] = NewReader /\ setup = << >> /\ Len(setup) <= MaxElements
  BY <1>1, <1>2 DEF HeaderInv
<1>4. Taken("setup") = 1 + h /\ s[1] = FieldTag /\ PartialVarint(s, 2, h, rawLength)
  BY <1>3 DEF HeaderBegun
<1>5. /\ s \in Seq(Byte) /\ Taken("setup") + 1 <= Len(s) /\ byte = s[Taken("setup") + 1]
      /\ Taken("setup")' = Taken("setup") + 1 /\ Taken("response")' = Taken("response")
      /\ \A m \in Stream : WindowInv(m)'
  BY <1>1, HeaderByte
<1>6. Taken("setup")' = 1 + (h + 1) /\ 2 + h <= Len(s) /\ byte = s[2 + h]
  BY <1>2, <1>4, <1>5
<1>7. /\ ~ VarintDone(byte) => PartialVarint(s, 2, h + 1, value)
      /\ VarintDone(byte) => WholeVarint(s, 2, h + 1, value)
  <2> HIDE DEF s, h, byte
  <2>1. s \in Seq(Byte) /\ 2 \in Nat \ {0} /\ h \in Nat /\ PartialVarint(s, 2, h, rawLength)
        /\ 2 + h <= Len(s) /\ ~ VarintRefused(s[2 + h], h)
    BY <1>1, <1>2, <1>4, <1>5, <1>6
  <2>2. /\ ~ VarintDone(s[2 + h]) =>
             PartialVarint(s, 2, h + 1, VarintValue(s[2 + h], rawLength, h))
        /\ VarintDone(s[2 + h]) =>
             WholeVarint(s, 2, h + 1, VarintValue(s[2 + h], rawLength, h))
    BY <2>1, VarintGrows
  <2> QED
    BY <1>6, <2>2 DEF value
<1>8. Fed("response")'
  BY <1>1, <1>2, <1>5 DEF Fed, Message, Eaten, Got
<1>9. HeaderInv'
  <2>1. CASE ~ VarintDone(byte)
    <3>1. HeaderBegun(sent["setup"])'
      BY <1>1, <1>4, <1>6, <1>7, <2>1 DEF HeaderBegun
    <3> QED
      BY <1>1, <1>3, <2>1, <3>1 DEF HeaderInv
  <2>2. CASE VarintDone(byte)
    <3>1. WholeVarint(s, 2, h + 1, value) /\ value \in Nat /\ h + 1 \in Nat /\ h + 1 + 1 <= Len(s)
      <4> HIDE DEF s, value, h
      <4>1. WholeVarint(s, 2, h + 1, value)
        BY <1>7, <2>2
      <4> QED
        BY <1>2, <1>5, <4>1, WholeSpan, BodyIsField
    <3>2. rawLength' = value /\ rawRemaining' = value /\ Eaten("setup")' = 0
      BY <1>1, <2>2, <3>1 DEF Eaten
    <3>3. HeaderRead(sent["setup"])'
      BY <1>1, <1>4, <1>6, <3>1, <3>2 DEF HeaderRead
    <3>4. Fed("setup")'
      <4>1. Message("setup")' = Field(s, h + 1)
        BY <1>1 DEF Message
      <4>2. Field(s, h + 1) \in Seq(Byte)
        <5> HIDE DEF s, h
        <5> QED
          BY <1>5, <3>1, FieldAt
      <4>3. ReaderAt(Field(s, h + 1), 0, NewReader, << >>)
        BY <4>2, ReaderBegins
      <4>4. Got("setup")' = << >> /\ reader'["setup"] = NewReader
        BY <1>1, <1>3 DEF Got
      <4> QED
        BY <3>2, <4>1, <4>3, <4>4 DEF Fed
    <3>5. /\ frame' \in {"body", "done"} /\ (frame' = "done" => rawRemaining' = 0)
          /\ reader'["setup"].state = "tag" /\ Len(setup') <= MaxElements /\ pc' = "setup"
      BY <1>1, <1>3, <2>2, <3>2 DEF NewReader
    <3> QED
      BY <3>3, <3>4, <3>5 DEF HeaderInv
  <2> QED
    BY <2>1, <2>2
<1> QED
  BY <1>5, <1>8, <1>9 DEF StreamInv

LEMMA RawEndsStream ==
  ASSUME StreamInv, PhaseInv, failure = "OK", RawEnds, failure' = "OK"
  PROVE  StreamInv'
<1>1. /\ pc = "setup" /\ frame = "body" /\ rawRemaining = 0 /\ reader["setup"].state = "tag"
      /\ frame' = "done"
      /\ UNCHANGED <<phase, rawLength, rawLengthBytes, rawRemaining, reader, setup, sent,
                     received, pc, window>>
  BY DEF RawEnds, Fail, history
<1>2. phase = "setup" /\ HeaderInv /\ HeaderRead(sent["setup"]) /\ Fed("setup")
  BY <1>1 DEF PhaseInv, StreamInv, HeaderInv
<1>3. \A m \in Stream : Taken(m)' = Taken(m) /\ WindowInv(m)'
  BY <1>1 DEF Taken, Unread, Reading, WindowInv, StreamInv
<1>4. Taken("setup")' = Taken("setup") /\ Taken("response")' = Taken("response")
  BY <1>3 DEF Stream
<1>5. Eaten("setup")' = Eaten("setup") /\ Eaten("response")' = Eaten("response")
  BY <1>1, <1>4 DEF Eaten
<1>6. Fed("setup")' /\ Fed("response")'
  BY <1>1, <1>2, <1>5 DEF Fed, Message, Got, StreamInv
<1>7. HeaderRead(sent["setup"])'
  BY <1>1, <1>2, <1>4, <1>5 DEF HeaderRead
<1>8. HeaderInv'
  BY <1>1, <1>2, <1>6, <1>7 DEF HeaderInv
<1> QED
  BY <1>3, <1>6, <1>8 DEF StreamInv

LEMMA NewCallStream ==
  ASSUME ShapeInv, StreamInv, PhaseInv, NewCall
  PROVE  StreamInv'
<1>1. CASE failure' # "OK"
  BY <1>1 DEF StreamInv
<1>2. CASE failure' = "OK"
  <2>1. failure = "OK"
    BY <1>2
    DEF NewCall, AddSetupBytes, MatchResponsePiece, SealSetup, Finish, AlreadyFailed, Refused,
        Fail
  <2>2. ASSUME NEW bytes \in SetupWindows, AddSetupBytes(bytes) PROVE StreamInv'
    <3>1. pc = "idle" /\ phase = "setup" /\ BeginWindow("setup", bytes)
      BY <1>2, <2>1, <2>2 DEF AddSetupBytes, AlreadyFailed, Refused, Fail
    <3>2. bytes \in Seq(Byte) /\ phase # "finished"
      BY <3>1, PsiMatchAssumption
    <3> QED
      BY <2>1, <3>1, <3>2, BeginStream DEF Stream
  <2>3. ASSUME NEW bytes \in ResponseWindows, MatchResponsePiece(bytes) PROVE StreamInv'
    <3>1. pc = "idle" /\ phase = "matching" /\ BeginWindow("response", bytes)
      BY <1>2, <2>1, <2>3 DEF MatchResponsePiece, AlreadyFailed, Refused, Fail
    <3>2. bytes \in Seq(Byte) /\ phase # "finished"
      BY <3>1, PsiMatchAssumption
    <3> QED
      BY <2>1, <3>1, <3>2, BeginStream DEF Stream
  <2>4. ASSUME SealSetup \/ Finish PROVE StreamInv'
    <3>1. /\ pc = "idle" /\ UNCHANGED <<sent, window, reader, received, framing, pc>>
          /\ phase \in {"setup", "matching"}
          /\ phase' # "finished" => setup' = setup
      BY <1>2, <2>1, <2>4 DEF SealSetup, Finish, AlreadyFailed, Refused, Fail, history
    <3>2. \A m \in Stream : Unread(m)' = Unread(m)
      BY <3>1 DEF Unread, Reading
    <3>3. frame = "body" => rawRemaining # 0
      BY <2>1, <3>1 DEF StreamInv, HeaderInv
    <3> QED
      BY <2>1, <3>1, <3>2, <3>3, QuietStream
  <2> QED
    BY <2>2, <2>3, <2>4 DEF NewCall
<1> QED
  BY <1>1, <1>2

\* Steps that read nothing.
LEMMA ReadlessStream ==
  ASSUME ShapeInv, StreamInv, PhaseInv, failure = "OK", failure' = "OK",
         \/ SetupReturns \/ ResponseEnds \/ DecryptBatch \/ DecryptThrows
         \/ ProbeLow \/ ProbeHigh \/ Found \/ NotFound \/ BatchMatched
  PROVE  StreamInv'
<1>1. /\ UNCHANGED <<sent, window, reader, received, framing, phase, setup>>
      /\ pc \in {"setup", "response", "decrypt", "search"} /\ phase # "finished"
      /\ (pc = "setup" \/ pc = "response") /\ pc' = "idle" => window = << >>
      /\ pc # "setup" => pc' # "setup" /\ (pc # "response" => pc' # "idle")
      /\ pc = "setup" => pc' = "idle" /\ ~ (frame = "body" /\ rawRemaining = 0)
  BY DEF SetupReturns, ResponseEnds, DecryptBatch, DecryptThrows, ProbeLow, ProbeHigh, Found,
         NotFound,
         BatchMatched, Probing, Fail, history, PhaseInv
<1>2. pc' \in {"idle", "response", "decrypt", "search", "thrown"}
  BY DEF SetupReturns, ResponseEnds, DecryptBatch, DecryptThrows, ProbeLow, ProbeHigh, Found,
         NotFound,
         BatchMatched, Probing, Fail
<1>3. \A m \in Stream : Unread(m)' = Unread(m)
  <2>1. Len(<< >>) = 0
    OBVIOUS
  <2> QED
    BY <1>1, <1>2, <2>1 DEF Unread, Reading, Stream
<1>4. frame = "body" /\ pc' # "setup" => rawRemaining # 0
  BY <1>1 DEF StreamInv, HeaderInv
<1> QED
  BY <1>1, <1>3, <1>4, QuietStream

LEMMA StepStream ==
  ASSUME ShapeInv, StreamInv, PhaseInv, Step
  PROVE  StreamInv'
<1>1. CASE failure' # "OK"
  BY <1>1 DEF StreamInv
<1>2. CASE failure' = "OK"
  <2>1. failure = "OK"
    <3>1. pc # "idle"
      BY DEF Step, SetupTag, SetupLength, RawEnds, SetupTrailing, SetupReturns, FeedTag,
             FeedLength, FeedBody, InFeed, ResponseEnds, DecryptBatch, DecryptExhausted,
             DecryptThrows, ProbeLow, ProbeHigh, Found, NotFound, BatchMatched, Probing, Stream
    <3> QED
      BY <3>1 DEF ShapeInv, RefusalInv
  <2>2. ~ SetupTrailing /\ ~ DecryptExhausted
    BY <1>2 DEF SetupTrailing, DecryptExhausted, Refused, Fail
  <2>3. ASSUME NEW m \in Stream, FeedTag(m) \/ FeedLength(m) \/ FeedBody(m) PROVE StreamInv'
    BY <1>2, <2>1, <2>3, FeedTagStep, FeedLengthStep, FeedBodyStep DEF FeedGoal
  <2> QED
    BY <1>2, <2>1, <2>2, <2>3, SetupTagStream, SetupLengthStream, RawEndsStream, ReadlessStream
    DEF Step
<1> QED
  BY <1>1, <1>2

LEMMA StreamStutters ==
  ASSUME StreamInv, UNCHANGED vars
  PROVE  StreamInv'
<1>1. CASE failure' # "OK"
  BY <1>1 DEF StreamInv
<1>2. CASE failure' = "OK" /\ phase # "finished"
  <2>1. /\ failure = "OK" /\ phase' = phase
        /\ UNCHANGED <<sent, window, reader, received, framing, setup, pc>>
    BY <1>2 DEF vars, history
  <2>2. \A m \in Stream : Unread(m)' = Unread(m)
    BY <2>1 DEF Unread, Reading
  <2>3. frame = "body" /\ pc' # "setup" => rawRemaining # 0
    BY <1>2, <2>1 DEF StreamInv, HeaderInv
  <2> QED
    BY <1>2, <2>1, <2>2, <2>3, QuietStream
<1>3. CASE failure' = "OK" /\ phase = "finished"
  <2>1. /\ failure = "OK" /\ phase' = phase
        /\ UNCHANGED <<sent, window, reader, received, pc>>
    BY <1>3 DEF vars, history
  <2>2. \A m \in Stream : Taken(m)' = Taken(m) /\ WindowInv(m)'
    BY <2>1 DEF Taken, Unread, Reading, WindowInv, StreamInv
  <2>3. Fed("response")'
    BY <2>1, <2>2 DEF StreamInv, Fed, Message, Eaten, Got, Stream
  <2> QED
    BY <1>3, <2>1, <2>2, <2>3 DEF StreamInv
<1> QED
  BY <1>1, <1>2, <1>3

-----------------------------------------------------------------------------
(***************************************************************************)
(* The setup that is sealed.                                               *)
(***************************************************************************)
LEMMA SealWhole ==
  ASSUME ShapeInv, StreamInv, StrictlyAscends(setup), failure = "OK", phase # "finished",
         pc = "idle", frame = "done"
  PROVE  IsSetup(sent["setup"], setup)
<1> DEFINE s == sent["setup"]
           h == rawLengthBytes
           b == Message("setup")
<1>1. /\ s \in Seq(Byte) /\ h \in Nat /\ h + 1 <= Len(s)
      /\ s[1] = FieldTag /\ WholeVarint(s, 2, h, rawLength)
      /\ b \in Seq(Byte) /\ Len(b) = Eaten("setup") /\ Eaten("setup") \in Nat
      /\ Body(s) = b /\ rawLength \in Nat /\ Eaten("setup") = rawLength - rawRemaining
      /\ Fed("setup") /\ Got("setup") = setup /\ setup \in Seq(Element)
  BY FieldRead
<1>2. rawRemaining = 0 /\ reader["setup"].state = "tag" /\ Len(setup) <= MaxElements
  BY DEF StreamInv, HeaderInv
<1>3. ReaderAt(b, Eaten("setup"), reader["setup"], setup)
  BY <1>1 DEF Fed
<1> HIDE DEF s, h, b
<1>4. Agree(b, b, Eaten("setup"))
  BY <1>1, AgreeSelf
<1>5. Entries(b) = [kind |-> "whole", entries |-> setup]
  BY <1>1, <1>2, <1>3, <1>4, EndsBetween
<1>6. VarintSpan(s, 2) = h /\ Fits(s, 2, h) /\ VarintSum(s, 2, h) = rawLength
  BY <1>1, WholeSpan
<1>7. h > 0 /\ Len(s) >= 2 /\ Len(b) = rawLength
  BY <1>1, <1>2 DEF WholeVarint
<1>8. Ascending(setup)
  <2>1. Len(setup) \in Nat
    BY <1>1
  <2>2. \A i \in 1 .. Len(setup) - 1 : i \in 1 .. Len(setup) /\ i + 1 \in 1 .. Len(setup) /\ i < i + 1
    BY <2>1
  <2>3. \A i \in 1 .. Len(setup) : setup[i] \in Element
    BY <1>1, ElementOfSeq
  <2>4. \A i \in 1 .. Len(setup) - 1 : Less(setup[i], setup[i + 1])
    BY <2>2 DEF StrictlyAscends
  <2>5. \A i \in 1 .. Len(setup) - 1 : Precedes(setup[i], setup[i + 1])
    BY <2>2, <2>3, <2>4, SameOrder
  <2> QED
    BY <2>5 DEF Ascending
<1> QED
  BY <1>1, <1>2, <1>5, <1>6, <1>7, <1>8 DEF IsSetup, s

\* The call that is running when a message is read from.
LEMMA NoCall ==
  ASSUME Step
  PROVE  pc # "idle"
BY DEF Step, SetupTag, SetupLength, RawEnds, SetupTrailing, SetupReturns, FeedTag, FeedLength,
       FeedBody, InFeed, ResponseEnds, DecryptBatch, DecryptExhausted, DecryptThrows,
       ProbeLow, ProbeHigh, Found, NotFound, BatchMatched, Probing, Stream

\* Once it is sealed a setup keeps its bytes and its elements.
LEMMA KeepsSetup ==
  ASSUME ShapeInv, PhaseInv, phase = "matching", phase' = "matching", Next
  PROVE  UNCHANGED <<sent["setup"], setup>>
<1>1. pc # "setup"
  BY DEF PhaseInv
<1>2. ASSUME NewCall PROVE UNCHANGED <<sent["setup"], setup>>
  <2>1. ASSUME NEW bytes, MatchResponsePiece(bytes) PROVE UNCHANGED <<sent["setup"], setup>>
    BY <2>1
    DEF MatchResponsePiece, AlreadyFailed, Refused, BeginWindow, history, ShapeInv, TypeOK,
        Stream
  <2>2. ASSUME NEW bytes, AddSetupBytes(bytes) PROVE UNCHANGED <<sent["setup"], setup>>
    BY <2>2 DEF AddSetupBytes, AlreadyFailed, Refused, history
  <2>3. ASSUME SealSetup \/ Finish PROVE UNCHANGED <<sent["setup"], setup>>
    BY <2>3 DEF SealSetup, Finish, AlreadyFailed, Refused, history
  <2> QED
    BY <1>2, <2>1, <2>2, <2>3 DEF NewCall
<1>3. ASSUME Step PROVE UNCHANGED <<sent["setup"], setup>>
  <2>1. ASSUME NEW m \in Stream, FeedTag(m) \/ FeedLength(m) \/ FeedBody(m)
        PROVE  UNCHANGED <<sent["setup"], setup>>
    <3>1. m = "response"
      BY <1>1, <2>1 DEF FeedTag, FeedLength, FeedBody, InFeed, Stream
    <3>2. UNCHANGED sent
      BY <2>1 DEF FeedTag, FeedLength, FeedBody, Unfed
    <3>3. UNCHANGED setup
      <4>1. CASE FeedTag(m)
        BY <4>1 DEF FeedTag
      <4>2. CASE FeedLength(m)
        BY <3>1, <4>2 DEF FeedLength, OnEntry, AddResponseElement
      <4>3. CASE FeedBody(m)
        BY <3>1, <4>3 DEF FeedBody, OnEntry, AddResponseElement
      <4> QED
        BY <2>1, <4>1, <4>2, <4>3
    <3> QED
      BY <3>2, <3>3
  <2>2. ASSUME ResponseEnds \/ DecryptBatch \/ DecryptExhausted \/ DecryptThrows
                 \/ ProbeLow \/ ProbeHigh \/ Found \/ NotFound \/ BatchMatched
        PROVE  UNCHANGED <<sent["setup"], setup>>
    BY <2>2
    DEF ResponseEnds, DecryptBatch, DecryptExhausted, DecryptThrows, ProbeLow, ProbeHigh,
        Found, NotFound, BatchMatched, history
  <2>3. ~ (SetupTag \/ SetupLength \/ RawEnds \/ SetupTrailing \/ SetupReturns)
    BY <1>1 DEF SetupTag, SetupLength, RawEnds, SetupTrailing, SetupReturns
  <2> QED
    BY <1>3, <2>1, <2>2, <2>3 DEF Step
<1> QED
  BY <1>2, <1>3 DEF Next

\* Only SealSetup begins the matching, and only Finish ends it.
LEMMA PhaseSteps ==
  ASSUME Next
  PROVE  /\ phase' = "matching" /\ phase # "matching" =>
              /\ SealSetup /\ pc = "idle" /\ failure = "OK" /\ phase = "setup" /\ frame = "done"
              /\ UNCHANGED <<sent, setup>>
         /\ phase' = "finished" /\ phase # "finished" =>
              Finish /\ pc = "idle" /\ failure = "OK" /\ phase = "matching"
         /\ phase' = "setup" => phase = "setup"
<1>1. ASSUME Step PROVE phase' = phase
  <2>1. ASSUME NEW m \in Stream, FeedTag(m) \/ FeedLength(m) \/ FeedBody(m) PROVE phase' = phase
    BY <2>1 DEF FeedTag, FeedLength, FeedBody, Unfed
  <2> QED
    BY <1>1, <2>1
    DEF Step, SetupTag, SetupLength, RawEnds, SetupTrailing, SetupReturns, Refused,
        ResponseEnds,
        DecryptBatch, DecryptExhausted, DecryptThrows, ProbeLow, ProbeHigh, Found, NotFound,
        BatchMatched
<1>2. ASSUME NEW bytes, AddSetupBytes(bytes) \/ MatchResponsePiece(bytes) PROVE phase' = phase
  BY <1>2 DEF AddSetupBytes, MatchResponsePiece, AlreadyFailed, Refused, BeginWindow
<1>3. ASSUME SealSetup, phase' # phase
      PROVE  /\ phase' = "matching" /\ pc = "idle" /\ failure = "OK" /\ phase = "setup"
             /\ frame = "done" /\ UNCHANGED <<sent, setup>>
  BY <1>3 DEF SealSetup, AlreadyFailed, Refused, history
<1>4. ASSUME Finish, phase' # phase
      PROVE  phase' = "finished" /\ pc = "idle" /\ failure = "OK" /\ phase = "matching"
  BY <1>4 DEF Finish, AlreadyFailed, Refused
<1> QED
  BY <1>1, <1>2, <1>3, <1>4 DEF Next, NewCall

LEMMA SealedStep ==
  ASSUME MatchInv, StreamInv, SealedSetupIsWhole, Next
  PROVE  SealedSetupIsWhole'
<1>1. SUFFICES ASSUME phase' = "matching" PROVE IsSetup(sent["setup"], setup)'
  BY DEF SealedSetupIsWhole
<1>2. UNCHANGED <<sent["setup"], setup>> /\ IsSetup(sent["setup"], setup)
  <2>1. CASE phase = "matching"
    BY <1>1, <2>1, KeepsSetup DEF MatchInv, SealedSetupIsWhole
  <2>2. CASE phase # "matching"
    BY <1>1, <2>2, PhaseSteps, SealWhole DEF MatchInv
  <2> QED
    BY <2>1, <2>2
<1> QED
  BY <1>2 DEF IsSetup

-----------------------------------------------------------------------------
(***************************************************************************)
(* What is refused.                                                        *)
(***************************************************************************)

\* The setup s of the caller's goes on from what was sent.
Onward(s) == s \in LegalSetups /\ Agree(s, sent["setup"], Len(sent["setup"]))

\* What was sent begins no setup of the caller's.
NoneOnward == \A s : ~ Onward(s)

LEMMA LegalSetup ==
  ASSUME NEW s \in LegalSetups
  PROVE  /\ s \in Seq(Byte) /\ Len(s) >= 2 /\ s[1] = FieldTag
         /\ VarintSpan(s, 2) > 0 /\ Fits(s, 2, VarintSpan(s, 2))
         /\ VarintSum(s, 2, VarintSpan(s, 2)) = Len(Body(s)) /\ ~ Unlawful(Body(s))
<1> DEFINE es == Entries(Body(s)).entries
<1>1. s \in Seq(Byte) /\ IsSetup(s, es)
  BY LegalSetupsAssumption
<1>2. Entries(Body(s)).kind = "whole" /\ Ascending(es) /\ Len(es) <= MaxElements
  BY <1>1 DEF IsSetup
<1>3. Len(es) \in Nat
  <2>1. /\ Len(s) \in Nat /\ VarintSpan(s, 2) \in Nat
    BY <1>1, SpanOf
  <2>2. Body(s) \in Seq(Byte) /\ 1 \in 1 .. Len(Body(s)) + 1
    <3>1. \A i \in 2 + VarintSpan(s, 2) .. Len(s) : s[i] \in Byte
      <4>1. \A i \in 2 + VarintSpan(s, 2) .. Len(s) : i \in 1 .. Len(s)
        BY <2>1
      <4> QED
        BY <1>1, <4>1, ByteAt
    <3>2. Body(s) \in Seq(Byte)
      BY <2>1, <3>1, SubSeqProperties DEF Body
    <3> QED
      BY <3>2
  <2>3. Entries(Body(s)) \in EntriesType
    BY <2>2, EntriesTyped DEF Entries
  <2> QED
    BY <2>3 DEF EntriesType
<1>4. ~ Unlawful(Body(s))
  <2>1. MaxElements \in Nat
    BY PsiMatchAssumption
  <2> HIDE DEF es
  <2>2. ~ (Len(es) > MaxElements)
    BY <1>2, <1>3, <2>1
  <2> QED
    BY <1>2, <2>2 DEF Unlawful, NoEntries, es
<1> QED
  BY <1>1, <1>4 DEF IsSetup

LEMMA PrefixIsOnward ==
  ASSUME NEW s \in LegalSetups, sent["setup"] \in Seq(Byte), SE!IsPrefix(sent["setup"], s)
  PROVE  Onward(s)
<1> DEFINE t == sent["setup"]
<1>1. s \in Seq(Byte) /\ t \in Seq(Byte) /\ Len(t) <= Len(s)
      /\ SubSeq(t, 1, Len(t)) = SubSeq(s, 1, Len(t)) /\ Len(t) \in Nat /\ Len(s) \in Nat
  BY LegalSetup DEF SE!IsPrefix
<1> HIDE DEF t
<1>2. ASSUME NEW u \in Seq(Byte), Len(t) <= Len(u), NEW i \in 1 .. Len(t)
      PROVE  SubSeq(u, 1, Len(t))[i] = u[i]
  <2>1. \A j \in 1 .. Len(t) : u[j] \in Byte
    <3>1. \A j \in 1 .. Len(t) : j \in 1 .. Len(u)
      BY <1>1, <1>2
    <3> QED
      BY <3>1, ElementOfSeq
  <2>2. \A j \in 1 .. Len(t) - 1 + 1 : SubSeq(u, 1, Len(t))[j] = u[1 + j - 1]
    BY <1>1, <2>1, SubSeqProperties
  <2>3. i \in 1 .. Len(t) - 1 + 1 /\ 1 + i - 1 = i
    BY <1>1
  <2> QED
    BY <2>2, <2>3
<1>3. \A i \in 1 .. Len(t) : s[i] = t[i]
  <2>1. Len(t) <= Len(t)
    BY <1>1
  <2> QED
    BY <1>1, <1>2, <2>1
<1> QED
  BY <1>1, <1>3 DEF Onward, Agree, t

\* What a legal setup holds after a header that was read.
LEMMA LegalBody ==
  ASSUME ShapeInv, HeaderRead(sent["setup"]), NEW s, Onward(s)
  PROVE  LET b == Body(s) IN
         /\ b = Field(s, rawLengthBytes) /\ b \in Seq(Byte) /\ Len(b) = rawLength
         /\ Len(b) = Len(s) - (rawLengthBytes + 1) /\ ~ Unlawful(b)
         /\ Message("setup") \in Seq(Byte)
         /\ Len(Message("setup")) = Len(sent["setup"]) - (rawLengthBytes + 1)
         /\ Agree(b, Message("setup"), Len(Message("setup")))
<1> DEFINE t == sent["setup"]
           h == rawLengthBytes
<1>1. /\ t \in Seq(Byte) /\ h \in Nat /\ WholeVarint(t, 2, h, rawLength)
      /\ Message("setup") = Field(t, h)
      /\ s \in LegalSetups /\ Agree(s, t, Len(t))
  BY DEF ShapeInv, TypeOK, Stream, HeaderRead, Message, Onward
<1>2. /\ s \in Seq(Byte) /\ VarintSum(s, 2, VarintSpan(s, 2)) = Len(Body(s))
      /\ ~ Unlawful(Body(s))
  BY <1>1, LegalSetup
<1> HIDE DEF t, h
<1>3. Len(t) >= 1 /\ h + 1 <= Len(t)
  <2>1. h + 1 <= Len(t)
    BY <1>1, BodyIsField
  <2> QED
    BY <1>1, <2>1
<1>4. WholeVarint(s, 2, h, rawLength)
  BY <1>1, <1>3, HeaderGrows
<1>5. Body(s) = Field(s, h) /\ h + 1 <= Len(s)
  BY <1>2, <1>4, BodyIsField
<1>6. VarintSpan(s, 2) = h /\ VarintSum(s, 2, h) = rawLength
  BY <1>2, <1>4, WholeSpan
<1>7. Field(s, h) \in Seq(Byte) /\ Len(Field(s, h)) = Len(s) - (h + 1)
  BY <1>1, <1>2, <1>5, FieldAt
<1>8. Field(t, h) \in Seq(Byte) /\ Len(Field(t, h)) = Len(t) - (h + 1)
  BY <1>1, <1>3, FieldAt
<1>9. Agree(Field(s, h), Field(t, h), Len(Field(t, h)))
  BY <1>1, <1>2, <1>3, FieldGrows
<1> QED
  BY <1>1, <1>2, <1>5, <1>6, <1>7, <1>8, <1>9 DEF t, h

LEMMA RefusesSetupTag ==
  ASSUME ShapeInv, StreamInv, PhaseInv, failure = "OK", SetupTag, failure' # "OK"
  PROVE  NoneOnward
<1>1. pc = "setup" /\ window # << >> /\ frame = "tag" /\ Head(window) # FieldTag /\ phase = "setup"
  BY DEF SetupTag, PhaseInv
<1>2. Taken("setup") = 0
  BY <1>1 DEF StreamInv, HeaderInv
<1> DEFINE t == sent["setup"]
<1>3. t \in Seq(Byte) /\ 0 + 1 <= Len(t) /\ t[1] # FieldTag
  BY <1>1, <1>2, HeaderByte
<1>4. Len(t) \in Nat /\ 1 \in 1 .. Len(t)
  BY <1>3
<1>5. ASSUME NEW s, Onward(s) PROVE FALSE
  BY <1>3, <1>4, <1>5, LegalSetup DEF Onward, Agree
<1> QED
  BY <1>5 DEF NoneOnward

LEMMA RefusesSetupLength ==
  ASSUME ShapeInv, StreamInv, PhaseInv, failure = "OK", SetupLength, failure' # "OK"
  PROVE  NoneOnward
<1> DEFINE t == sent["setup"]
           h == rawLengthBytes
<1>1. pc = "setup" /\ window # << >> /\ frame = "length" /\ VarintRefused(Head(window), h)
      /\ phase = "setup" /\ h \in Nat
  BY DEF SetupLength, PhaseInv, ShapeInv, TypeOK
<1>2. HeaderBegun(t)
  BY <1>1 DEF StreamInv, HeaderInv
<1>3. Taken("setup") = 1 + h /\ PartialVarint(t, 2, h, rawLength)
  BY <1>2 DEF HeaderBegun
<1>4. t \in Seq(Byte) /\ Taken("setup") + 1 <= Len(t) /\ Head(window) = t[Taken("setup") + 1]
  BY <1>1, HeaderByte
<1>5. ASSUME NEW s, Onward(s) PROVE FALSE
  <2>1. /\ s \in Seq(Byte) /\ Agree(s, t, Len(t))
        /\ VarintSpan(s, 2) > 0 /\ Fits(s, 2, VarintSpan(s, 2))
    BY <1>5, LegalSetup DEF Onward
  <2> HIDE DEF t, h
  <2>2. Len(t) \in Nat /\ 2 + h \in 1 .. Len(t) /\ Taken("setup") + 1 = 2 + h /\ Len(t) >= 1
    BY <1>1, <1>3, <1>4
  <2>3. s[2 + h] = t[2 + h] /\ 2 + h <= Len(s)
    BY <2>1, <2>2 DEF Agree
  <2>4. PartialVarint(s, 2, h, rawLength) /\ VarintRefused(s[2 + h], h)
    BY <1>1, <1>3, <1>4, <2>1, <2>2, <2>3, HeaderGrows
  <2>5. \/ VarintSpan(s, 2) = 0
        \/ ~ Fits(s, 2, VarintSpan(s, 2))
    <3>1. 2 \in Nat \ {0} /\ h \in Nat
      BY <1>1
    <3> QED
      BY <2>1, <2>3, <2>4, <3>1, RefusedSpan
  <2> QED
    BY <2>1, <2>5
<1> QED
  BY <1>5 DEF NoneOnward

\* While the raw field is read.
LEMMA InRawField ==
  ASSUME ShapeInv, StreamInv, PhaseInv, failure = "OK", pc = "setup", frame \in {"body", "done"}
  PROVE  /\ HeaderRead(sent["setup"]) /\ Fed("setup") /\ Got("setup") = setup
         /\ reader["setup"] \in Reader /\ rawRemaining \in Nat /\ rawLength \in Nat
         /\ rawLengthBytes \in Nat /\ Len(sent["setup"]) \in Nat
         /\ Len(sent["setup"]) = 1 + rawLengthBytes + (rawLength - rawRemaining) + Len(window)
         /\ rawRemaining <= rawLength /\ Len(window) \in Nat
         /\ (window # << >> => Len(window) > 0)
         /\ (frame = "done" => rawRemaining = 0)
<1>1. phase = "setup" /\ HeaderInv
  BY DEF PhaseInv, StreamInv
<1>2. HeaderRead(sent["setup"]) /\ Fed("setup") /\ (frame = "done" => rawRemaining = 0)
  BY <1>1 DEF HeaderInv
<1>3. /\ reader["setup"] \in Reader /\ rawRemaining \in Nat /\ rawLength \in Nat
      /\ rawLengthBytes \in Nat /\ sent["setup"] \in Seq(Byte) /\ window \in Seq(Byte)
  BY DEF ShapeInv, TypeOK, Stream
<1>4. /\ Taken("setup") = Len(sent["setup"]) - Len(window)
      /\ Taken("setup") = 1 + rawLengthBytes + (rawLength - rawRemaining)
      /\ rawRemaining <= rawLength
  BY <1>2 DEF Taken, Unread, Reading, HeaderRead, Eaten
<1>5. Len(sent["setup"]) \in Nat /\ Len(window) \in Nat /\ (window # << >> => Len(window) > 0)
  BY <1>3
<1>6. Len(sent["setup"]) = 1 + rawLengthBytes + (rawLength - rawRemaining) + Len(window)
  BY <1>3, <1>4, <1>5
<1> QED
  BY <1>2, <1>3, <1>4, <1>5, <1>6 DEF Got

LEMMA RefusesFeed ==
  ASSUME ShapeInv, StreamInv, PhaseInv, failure = "OK", failure' # "OK",
         FeedTag("setup") \/ FeedLength("setup") \/ FeedBody("setup")
  PROVE  NoneOnward
<1>1. FeedGoal("setup") /\ pc = "setup" /\ frame = "body"
  BY FeedTagStep, FeedLengthStep, FeedBodyStep
  DEF FeedTag, FeedLength, FeedBody, InFeed, Stream
<1>2. NothingFollows /\ HeaderRead(sent["setup"])
  BY <1>1, InRawField DEF FeedGoal
<1>3. ASSUME NEW s, Onward(s) PROVE FALSE
  BY <1>2, <1>3, LegalBody DEF NothingFollows
<1> QED
  BY <1>3 DEF NoneOnward

LEMMA RefusesRawEnd ==
  ASSUME ShapeInv, StreamInv, PhaseInv, failure = "OK", RawEnds, failure' # "OK"
  PROVE  NoneOnward
<1>1. pc = "setup" /\ frame = "body" /\ rawRemaining = 0 /\ reader["setup"].state # "tag"
  BY DEF RawEnds
<1> DEFINE t == sent["setup"]
           b == Message("setup")
<1>2. /\ HeaderRead(t) /\ Fed("setup") /\ Got("setup") = setup
      /\ reader["setup"] \in Reader /\ rawLength \in Nat /\ rawLengthBytes \in Nat
      /\ Len(t) = 1 + rawLengthBytes + (rawLength - rawRemaining) + Len(window)
      /\ Len(t) \in Nat /\ Len(window) \in Nat
  BY <1>1, InRawField
<1>3. ReaderAt(b, rawLength, reader["setup"], setup)
  <2>1. Eaten("setup") = rawLength
    BY <1>1, <1>2 DEF Eaten
  <2> QED
    BY <1>2, <2>1 DEF Fed
<1>4. ASSUME NEW s, Onward(s) PROVE FALSE
  <2> DEFINE c == Body(s)
  <2>1. /\ Len(c) = rawLength /\ ~ Unlawful(c) /\ b \in Seq(Byte)
        /\ Len(b) = Len(t) - (rawLengthBytes + 1) /\ Agree(c, b, Len(b))
    BY <1>2, <1>4, LegalBody
  <2> HIDE DEF b, c, t
  <2>2. rawLength <= Len(b) /\ Len(b) \in Nat
    BY <1>1, <1>2, <2>1
  <2>3. Agree(c, b, rawLength)
    BY <1>2, <2>1, <2>2, AgreeLess
  <2>4. NoEntries(c)
    BY <1>1, <1>2, <1>3, <2>1, <2>2, <2>3, EndsInside
  <2> QED
    BY <2>1, <2>4 DEF Unlawful
<1> QED
  BY <1>4 DEF NoneOnward

LEMMA RefusesTrailing ==
  ASSUME ShapeInv, StreamInv, PhaseInv, failure = "OK", SetupTrailing
  PROVE  NoneOnward
<1>1. pc = "setup" /\ frame = "done" /\ window # << >>
  BY DEF SetupTrailing
<1> DEFINE t == sent["setup"]
<1>2. /\ HeaderRead(t) /\ rawLength \in Nat /\ rawLengthBytes \in Nat
      /\ Len(t) = 1 + rawLengthBytes + (rawLength - 0) + Len(window)
      /\ Len(t) \in Nat /\ Len(window) \in Nat /\ Len(window) > 0
  BY <1>1, InRawField
<1>3. ASSUME NEW s, Onward(s) PROVE FALSE
  <2>1. Len(Body(s)) = rawLength /\ Len(Body(s)) = Len(s) - (rawLengthBytes + 1)
    BY <1>2, <1>3, LegalBody
  <2>2. Len(t) <= Len(s) /\ Len(s) \in Nat
    BY <1>3 DEF Onward, Agree
  <2> QED
    BY <1>2, <2>1, <2>2
<1> QED
  BY <1>3 DEF NoneOnward

\* A setup that is sealed too early is not whole.
LEMMA RefusesSeal ==
  ASSUME ShapeInv, StreamInv, failure = "OK", phase = "setup", pc = "idle", frame # "done"
  PROVE  sent["setup"] \notin LegalSetups
<1> DEFINE s == sent["setup"]
<1>1. SUFFICES ASSUME s \in LegalSetups PROVE FALSE
  OBVIOUS
<1>2. /\ s \in Seq(Byte) /\ Len(s) >= 2 /\ VarintSpan(s, 2) > 0
      /\ VarintSum(s, 2, VarintSpan(s, 2)) = Len(Body(s))
  BY <1>1, LegalSetup
<1>3. Taken("setup") = Len(s) /\ HeaderInv /\ rawLengthBytes \in Nat
  BY IdleRead DEF StreamInv, Stream, ShapeInv, TypeOK
<1>4. CASE frame = "tag"
  BY <1>2, <1>3, <1>4 DEF HeaderInv
<1>5. CASE frame = "length"
  <2>1. Len(s) = 1 + rawLengthBytes /\ PartialVarint(s, 2, rawLengthBytes, rawLength)
    BY <1>3, <1>5 DEF HeaderInv, HeaderBegun
  <2> HIDE DEF s
  <2>2. 2 + rawLengthBytes - 1 = Len(s)
    BY <1>3, <2>1
  <2>3. VarintSpan(s, 2) = 0
    BY <1>2, <1>3, <2>1, <2>2, PartialSpan
  <2> QED
    BY <1>2, <2>3
<1>6. CASE frame = "body"
  <2>1. rawRemaining # 0
    BY <1>3, <1>6 DEF HeaderInv
  <2>2. /\ WholeVarint(s, 2, rawLengthBytes, rawLength) /\ Body(s) = Message("setup")
        /\ Len(Message("setup")) = rawLength - rawRemaining
        /\ rawLength \in Nat /\ rawRemaining \in Nat
    BY <1>6, FieldRead
  <2> HIDE DEF s
  <2>3. VarintSpan(s, 2) = rawLengthBytes /\ VarintSum(s, 2, rawLengthBytes) = rawLength
    BY <1>2, <2>2, WholeSpan
  <2> QED
    BY <1>2, <2>1, <2>2, <2>3
<1> QED
  BY <1>4, <1>5, <1>6 DEF ShapeInv, TypeOK

LEMMA LegalStep ==
  ASSUME MatchInv, StreamInv, LegalSetupsAreAccepted, Next
  PROVE  LegalSetupsAreAccepted'
<1>0. ShapeInv /\ PhaseInv
  BY DEF MatchInv
<1>1. SUFFICES ASSUME phase' = "setup", failure' \notin {"OK", "out_of_order"}
               PROVE  /\ failure' = "incomplete" =>
                           \A s \in LegalSetups : sent'["setup"] # s
                      /\ failure' \notin {"OK", "incomplete", "out_of_order"} =>
                           \A s \in LegalSetups : ~ SE!IsPrefix(sent'["setup"], s)
  BY DEF LegalSetupsAreAccepted
<1>2. phase = "setup"
  BY <1>1, PhaseSteps
<1>3. CASE failure # "OK"
  <2>1. ~ Step
    BY <1>0, <1>3, NoCall DEF ShapeInv, RefusalInv
  <2>2. UNCHANGED <<failure, sent>>
    BY <1>3, <2>1
    DEF Next, NewCall, AddSetupBytes, MatchResponsePiece, SealSetup, Finish, AlreadyFailed,
        history
  <2> QED
    BY <1>2, <1>1, <2>2 DEF LegalSetupsAreAccepted
<1>4. CASE failure = "OK" /\ NewCall
  <2>1. SealSetup /\ frame # "done" /\ pc = "idle" /\ failure' = "incomplete" /\ sent' = sent
    <3>1. ASSUME NEW bytes, AddSetupBytes(bytes) PROVE FALSE
      BY <1>1, <1>2, <1>4, <3>1 DEF AddSetupBytes, AlreadyFailed, BeginWindow
    <3>2. ASSUME NEW bytes, MatchResponsePiece(bytes) PROVE FALSE
      BY <1>1, <1>2, <1>4, <3>2 DEF MatchResponsePiece, AlreadyFailed, Refused, Fail
    <3>3. ~ Finish
      BY <1>1, <1>2, <1>4 DEF Finish, AlreadyFailed, Refused, Fail
    <3>4. SealSetup
      BY <1>4, <3>1, <3>2, <3>3 DEF NewCall
    <3> QED
      BY <1>1, <1>2, <1>4, <3>4 DEF SealSetup, AlreadyFailed, Refused, Fail, history
  <2> QED
    BY <1>0, <1>2, <1>4, <2>1, RefusesSeal
<1>5. CASE failure = "OK" /\ Step
  <2>1. pc \notin {"response", "decrypt", "search"}
    BY <1>0, <1>2 DEF PhaseInv
  <2>2. /\ \/ SetupTag \/ SetupLength \/ RawEnds \/ SetupTrailing \/ SetupReturns
           \/ FeedTag("setup") \/ FeedLength("setup") \/ FeedBody("setup")
        /\ sent' = sent /\ failure' # "incomplete"
    <3>1. ~ (ResponseEnds \/ DecryptBatch \/ DecryptExhausted \/ DecryptThrows
               \/ ProbeLow \/ ProbeHigh \/ Found \/ NotFound \/ BatchMatched)
      BY <2>1
      DEF ResponseEnds, DecryptBatch, DecryptExhausted, DecryptThrows, ProbeLow, ProbeHigh,
          Found, NotFound, BatchMatched, Probing
    <3>2. ASSUME NEW m \in Stream, FeedTag(m) \/ FeedLength(m) \/ FeedBody(m)
          PROVE  /\ FeedTag("setup") \/ FeedLength("setup") \/ FeedBody("setup")
                 /\ sent' = sent /\ failure' # "incomplete"
      <4>1. m = "setup"
        BY <2>1, <3>2 DEF FeedTag, FeedLength, FeedBody, InFeed, Stream
      <4>2. CASE FeedTag(m)
        BY <1>5, <4>1, <4>2 DEF FeedTag, Unfed, Fail
      <4>3. CASE FeedLength(m)
        BY <1>5, <4>1, <4>3 DEF FeedLength, Unfed, Fail, OnEntry, AddSetupElement
      <4>4. CASE FeedBody(m)
        BY <1>5, <4>1, <4>4 DEF FeedBody, Unfed, Fail, OnEntry, AddSetupElement
      <4> QED
        BY <3>2, <4>2, <4>3, <4>4
    <3>3. ASSUME SetupTag \/ SetupLength \/ RawEnds \/ SetupTrailing \/ SetupReturns
          PROVE  sent' = sent /\ failure' # "incomplete"
      BY <1>5, <3>3
      DEF SetupTag, SetupLength, RawEnds, SetupTrailing, SetupReturns, Refused, Fail, history
    <3> QED
      BY <1>5, <3>1, <3>2, <3>3 DEF Step
  <2>3. NoneOnward
    <3>1. ~ SetupReturns
      BY <1>1, <1>5 DEF SetupReturns
    <3> QED
      BY <1>0, <1>1, <1>5, <2>2, <3>1, RefusesSetupTag, RefusesSetupLength, RefusesFeed,
         RefusesRawEnd, RefusesTrailing
  <2>4. sent["setup"] \in Seq(Byte)
    BY <1>0 DEF ShapeInv, TypeOK, Stream
  <2>5. \A s \in LegalSetups : ~ SE!IsPrefix(sent["setup"], s)
    BY <2>3, <2>4, PrefixIsOnward DEF NoneOnward
  <2> QED
    BY <2>2, <2>5
<1> QED
  BY <1>3, <1>4, <1>5 DEF Next

-----------------------------------------------------------------------------
(***************************************************************************)
(* What Finish returns.                                                    *)
(***************************************************************************)
EqualPairs(re, su) ==
  {p \in (0 .. Len(re) - 1) \X (0 .. Len(su) - 1) : Decrypt(re[p[1] + 1]) = su[p[2] + 1]}

LEMMA EqualPair ==
  ASSUME NEW re \in Seq(Element), NEW su \in Seq(Element), NEW i \in 1 .. Len(re),
         NEW p \in 1 .. Len(su), su[p] = Decrypt(re[i])
  PROVE  <<i - 1, p - 1>> \in EqualPairs(re, su)
<1>1. Len(re) \in Nat /\ Len(su) \in Nat
  OBVIOUS
<1>2. i - 1 \in 0 .. Len(re) - 1 /\ p - 1 \in 0 .. Len(su) - 1 /\ (i - 1) + 1 = i
      /\ (p - 1) + 1 = p
  BY <1>1
<1> QED
  BY <1>2 DEF EqualPairs

\* ResultOfMessages, of the entries and the answer it names.
Answers(re, su, revealed, answer) ==
  /\ answer.decrypted = Len(re)
  /\ answer.size = {p[2] : p \in EqualPairs(re, su)}
  /\ Len(answer.pairs) = IF revealed THEN Cardinality(EqualPairs(re, su)) ELSE 0
  /\ revealed => {answer.pairs[i] : i \in 1 .. Len(answer.pairs)} = EqualPairs(re, su)
  /\ \A i, j \in 1 .. Len(answer.pairs) : i < j => answer.pairs[i][1] < answer.pairs[j][1]

LEMMA BitsAreSecond ==
  ASSUME NEW re \in Seq(Element), NEW su \in Seq(Element), NEW bits,
         BitsStand(Len(re), su, re, bits)
  PROVE  bits = {p[2] : p \in EqualPairs(re, su)}
<1>1. Len(re) \in Nat /\ Len(su) \in Nat
  OBVIOUS
<1>2. ASSUME NEW q \in bits PROVE \E p \in EqualPairs(re, su) : p[2] = q
  <2>1. q \in 0 .. Len(su) - 1 /\ \E i \in 1 .. Len(re) : su[q + 1] = Decrypt(re[i])
    BY <1>2 DEF BitsStand
  <2>2. PICK i \in 1 .. Len(re) : su[q + 1] = Decrypt(re[i])
    BY <2>1
  <2>3. q + 1 \in 1 .. Len(su) /\ (q + 1) - 1 = q
    BY <1>1, <2>1
  <2>4. <<i - 1, (q + 1) - 1>> \in EqualPairs(re, su)
    BY <2>2, <2>3, EqualPair
  <2>5. <<i - 1, (q + 1) - 1>>[2] = q
    BY <2>3
  <2> QED
    BY <2>4, <2>5
<1>3. ASSUME NEW p \in EqualPairs(re, su) PROVE p[2] \in bits
  <2>1. /\ p[1] \in 0 .. Len(re) - 1 /\ p[2] \in 0 .. Len(su) - 1
        /\ Decrypt(re[p[1] + 1]) = su[p[2] + 1]
    BY DEF EqualPairs
  <2>2. p[1] + 1 \in 1 .. Len(re)
    BY <1>1, <2>1
  <2> QED
    BY <2>1, <2>2 DEF BitsStand
<1> QED
  BY <1>2, <1>3

LEMMA PairsAreAll ==
  ASSUME NEW re \in Seq(Element), NEW su \in Seq(Element), NEW ps \in Seq(Nat \X Nat),
         PairsStand(Len(re), su, re, ps)
  PROVE  {ps[i] : i \in 1 .. Len(ps)} = EqualPairs(re, su)
<1>0. Len(re) \in Nat /\ Len(su) \in Nat
  OBVIOUS
<1>1. ASSUME NEW k \in 1 .. Len(ps) PROVE ps[k] \in EqualPairs(re, su)
  <2>1. PICK i \in 1 .. Len(re) : \E p \in 1 .. Len(su) :
          ps[k] = <<i - 1, p - 1>> /\ su[p] = Decrypt(re[i])
    BY DEF PairsStand, PairsAreEqual
  <2>2. PICK p \in 1 .. Len(su) : ps[k] = <<i - 1, p - 1>> /\ su[p] = Decrypt(re[i])
    BY <2>1
  <2> QED
    BY <2>2, EqualPair
<1>2. ASSUME NEW p \in EqualPairs(re, su) PROVE \E k \in 1 .. Len(ps) : ps[k] = p
  <2>1. /\ p[1] \in 0 .. Len(re) - 1 /\ p[2] \in 0 .. Len(su) - 1 /\ p = <<p[1], p[2]>>
        /\ Decrypt(re[p[1] + 1]) = su[p[2] + 1]
    BY DEF EqualPairs
  <2>2. /\ p[1] + 1 \in 1 .. Len(re) /\ p[2] + 1 \in 1 .. Len(su)
        /\ (p[1] + 1) - 1 = p[1] /\ (p[2] + 1) - 1 = p[2]
    <3>1. p[1] \in 0 .. Len(re) - 1 /\ p[2] \in 0 .. Len(su) - 1
      BY <2>1
    <3> QED
      BY <1>0, <3>1, SMTT(60)
  <2>3. \E k \in 1 .. Len(ps) : ps[k] = <<(p[1] + 1) - 1, (p[2] + 1) - 1>>
    BY <2>1, <2>2 DEF PairsStand, EqualArePairs
  <2> QED
    BY <2>1, <2>2, <2>3
<1> QED
  BY <1>1, <1>2

\* No pair is recorded twice.
LEMMA PairsCounted ==
  ASSUME NEW ps \in Seq(Nat \X Nat), PairsInOrder(ps), NEW S,
         {ps[i] : i \in 1 .. Len(ps)} = S
  PROVE  Len(ps) = Cardinality(S)
<1>1. Len(ps) \in Nat /\ \A i \in 1 .. Len(ps) : ps[i] \in Nat \X Nat
  BY ElementOfSeq
<1> DEFINE f == [i \in 1 .. Len(ps) |-> ps[i]]
<1>2. f \in [1 .. Len(ps) -> S]
  OBVIOUS
<1>3. ASSUME NEW i \in 1 .. Len(ps), NEW j \in 1 .. Len(ps), ps[i] = ps[j] PROVE i = j
  <2>1. ps[i][1] \in Nat /\ ps[j][1] \in Nat
    BY <1>1
  <2>2. ~ (i < j) /\ ~ (j < i)
    BY <1>3, <2>1 DEF PairsInOrder
  <2> QED
    BY <2>2
<1>4. \A t \in S : \E i \in 1 .. Len(ps) : f[i] = t
  OBVIOUS
<1>5. \A i, j \in 1 .. Len(ps) : f[i] = f[j] => i = j
  BY <1>3
<1> HIDE DEF f
<1>6. f \in Bijection(1 .. Len(ps), S)
  BY <1>2, <1>4, <1>5 DEF Bijection, Injection, Surjection, IsInjective
<1>7. ExistsBijection(1 .. Len(ps), S)
  BY <1>6 DEF ExistsBijection
<1> QED
  BY <1>1, <1>7, FS_CountingElements

\* A response that ends between two entries.
LEMMA ResponseRead ==
  ASSUME ShapeInv, StreamInv, failure = "OK", pc = "idle", reader["response"].state = "tag"
  PROVE  Entries(sent["response"]).entries = received
<1> DEFINE b == sent["response"]
<1>1. Taken("response") = Len(b) /\ b \in Seq(Byte)
  BY IdleRead DEF Stream
<1>2. ReaderAt(b, Len(b), reader["response"], received) /\ received \in Seq(Element)
  BY <1>1 DEF StreamInv, Fed, Message, Eaten, Got, ShapeInv, TypeOK
<1> HIDE DEF b
<1>3. Len(b) \in Nat /\ Agree(b, b, Len(b))
  <2>1. Len(b) \in Nat /\ Len(b) <= Len(b)
    BY <1>1
  <2> QED
    BY <1>1, <2>1, AgreeSelf
<1>4. Entries(b) = [kind |-> "whole", entries |-> received]
  BY <1>1, <1>2, <1>3, EndsBetween
<1> QED
  BY <1>4 DEF b

\* A match that is finished stays as it is.
LEMMA FinishedStays ==
  ASSUME ShapeInv, PhaseInv, phase = "finished", Next
  PROVE  UNCHANGED <<result, sent, reveal>>
<1>1. ~ Step
  BY NoCall DEF PhaseInv, ShapeInv, TypeOK
<1>2. NewCall
  BY <1>1 DEF Next
<1> QED
  BY <1>2
  DEF NewCall, AddSetupBytes, MatchResponsePiece, SealSetup, Finish, AlreadyFailed, Refused,
      history

LEMMA FinishResult ==
  ASSUME MatchInv, StreamInv, SealedSetupIsWhole, Finish, phase = "matching", failure = "OK",
         phase' = "finished", pc = "idle"
  PROVE  ResultOfMessages'
<1>1. /\ reader["response"].state = "tag" /\ UNCHANGED <<sent, reveal>>
      /\ result' = [decrypted |-> decryptedCount, size |-> matched, pairs |-> pairs]
  BY DEF Finish, AlreadyFailed, Refused, history
<1>2. /\ ShapeInv /\ setup \in Seq(Element) /\ received \in Seq(Element)
      /\ pairs \in Seq(Nat \X Nat) /\ decryptedCount \in Nat
  BY DEF MatchInv, ShapeInv, TypeOK
<1>3. Entries(sent["response"]).entries = received
  BY <1>1, <1>2, ResponseRead
<1>4. Entries(Body(sent["setup"])).entries = setup
  BY DEF SealedSetupIsWhole, IsSetup
<1>5. decryptedCount = Len(received) /\ done = Len(received)
  <2>1. batch = << >> /\ Len(received) = decryptedCount + Len(batch) /\ Len(<< >>) = 0
    BY EmptySeq DEF MatchInv, ReceivedInv
  <2> QED
    BY <1>2, <2>1 DEF done
<1>6. /\ BitsStand(Len(received), setup, received, matched)
      /\ reveal => PairsStand(Len(received), setup, received, pairs)
      /\ ~ reveal => pairs = << >>
  BY <1>5 DEF MatchInv, StandInv
<1> DEFINE equal == EqualPairs(received, setup)
<1>7. matched = {p[2] : p \in equal}
  BY <1>2, <1>6, BitsAreSecond
<1>8. Len(pairs) = IF reveal THEN Cardinality(equal) ELSE 0
  <2>1. CASE reveal
    <3>1. {pairs[i] : i \in 1 .. Len(pairs)} = equal
      BY <1>2, <1>6, <2>1, PairsAreAll
    <3> HIDE DEF equal
    <3> QED
      BY <1>2, <1>6, <2>1, <3>1, PairsCounted DEF PairsStand
  <2>2. CASE ~ reveal
    BY <1>6, <2>2
  <2> QED
    BY <2>1, <2>2
<1>9. reveal => {pairs[i] : i \in 1 .. Len(pairs)} = equal
  BY <1>2, <1>6, PairsAreAll
<1>10. \A i, j \in 1 .. Len(pairs) : i < j => pairs[i][1] < pairs[j][1]
  <2>1. CASE reveal
    BY <1>6, <2>1 DEF PairsStand, PairsInOrder
  <2>2. CASE ~ reveal
    <3>1. 1 .. Len(pairs) = {}
      BY <1>6, <2>2
    <3> QED
      BY <3>1
  <2> QED
    BY <2>1, <2>2
<1>11. Answers(received, setup, reveal, result')
  <2>1. result'.decrypted = decryptedCount /\ result'.size = matched /\ result'.pairs = pairs
    BY <1>1
  <2> QED
    BY <1>5, <1>7, <1>8, <1>9, <1>10, <2>1 DEF Answers
<1>12. ResultOfMessages' <=>
         (phase' = "finished" =>
            Answers(Entries(sent'["response"]).entries, Entries(Body(sent'["setup"])).entries,
                    reveal', result'))
  BY DEF ResultOfMessages, Answers, EqualPairs
<1> QED
  BY <1>1, <1>3, <1>4, <1>11, <1>12

LEMMA ResultStep ==
  ASSUME MatchInv, StreamInv, SealedSetupIsWhole, ResultOfMessages, Next
  PROVE  ResultOfMessages'
<1>1. CASE phase' # "finished"
  BY <1>1 DEF ResultOfMessages
<1>2. CASE phase' = "finished" /\ phase = "finished"
  <2>1. UNCHANGED <<result, sent, reveal>>
    BY <1>2, FinishedStays DEF MatchInv
  <2> QED
    BY <1>2, <2>1 DEF ResultOfMessages
<1>3. CASE phase' = "finished" /\ phase # "finished"
  BY <1>3, PhaseSteps, FinishResult
<1> QED
  BY <1>1, <1>2, <1>3

GrammarInv ==
  MatchInv /\ StreamInv /\ SealedSetupIsWhole /\ LegalSetupsAreAccepted /\ ResultOfMessages

LEMMA GrammarInit == Init => GrammarInv
<1> SUFFICES ASSUME Init PROVE GrammarInv
  OBVIOUS
<1>1. phase = "setup" /\ failure = "OK"
  BY DEF Init
<1> QED
  BY <1>1, MatchInit, StreamInit
  DEF GrammarInv, SealedSetupIsWhole, LegalSetupsAreAccepted, ResultOfMessages

LEMMA GrammarStep ==
  ASSUME GrammarInv, Next
  PROVE  GrammarInv'
<1>1. MatchInv' /\ SealedSetupIsWhole' /\ LegalSetupsAreAccepted' /\ ResultOfMessages'
  BY MatchStep, SealedStep, LegalStep, ResultStep DEF GrammarInv
<1>2. StreamInv'
  BY NewCallStream, StepStream DEF GrammarInv, MatchInv, Next
<1> QED
  BY <1>1, <1>2 DEF GrammarInv

LEMMA GrammarStutters ==
  ASSUME GrammarInv, UNCHANGED vars
  PROVE  GrammarInv'
<1>1. MatchInv' /\ StreamInv'
  BY MatchStutters, StreamStutters DEF GrammarInv
<1>2. UNCHANGED <<phase, failure, sent, setup, result, reveal>>
  BY DEF vars, history
<1>3. SealedSetupIsWhole' /\ LegalSetupsAreAccepted' /\ ResultOfMessages'
  BY <1>2 DEF GrammarInv, SealedSetupIsWhole, LegalSetupsAreAccepted, ResultOfMessages, IsSetup
<1> QED
  BY <1>1, <1>3 DEF GrammarInv

LEMMA GrammarInvHolds == Spec => []GrammarInv
BY GrammarInit, GrammarStep, GrammarStutters, PTL DEF Spec

\* However its bytes are cut, a setup is sealed only if they are, read as a whole
\* message, one field of ascending entries, and the match holds those entries.
THEOREM SealedSetupsAreWhole == Spec => []SealedSetupIsWhole
<1>1. GrammarInv => SealedSetupIsWhole
  BY DEF GrammarInv
<1> QED
  BY <1>1, GrammarInvHolds, PTL

\* Nothing that begins a legal setup is refused for its bytes, and no legal setup
\* is refused when it is sealed, whatever its elements, its size and its cuts.
THEOREM NothingLegalIsRefused == Spec => []LegalSetupsAreAccepted
<1>1. GrammarInv => LegalSetupsAreAccepted
  BY DEF GrammarInv
<1> QED
  BY <1>1, GrammarInvHolds, PTL

\* What Finish returns is what the two messages, read whole, have in common: it
\* does not depend on the windows they came in, nor on the batches.
THEOREM ResultsAreOfMessages == Spec => []ResultOfMessages
<1>1. GrammarInv => ResultOfMessages
  BY DEF GrammarInv
<1> QED
  BY <1>1, GrammarInvHolds, PTL
=============================================================================
