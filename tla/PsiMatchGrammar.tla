--------------------------- MODULE PsiMatchGrammar ---------------------------
(***************************************************************************)
(* What PsiMatch must accept and answer, said of whole messages: the wire  *)
(* format of ServerSetup and Response (proto/psi.proto) restricted to the  *)
(* shape psi_match.h:67-74 names, read as a grammar instead of a machine.  *)
(***************************************************************************)
EXTENDS PsiMatch, FiniteSets

SE == INSTANCE SequencesExt

\* The length of the varint that starts at position p of b, or 0 where b ends
\* before it does, and its value.  Parts past MaxVarintBytes are never needed.
VarintSpan(b, p) ==
  LET ends == {q \in p .. Len(b) : b[q] < 128}
  IN  IF ends = {} THEN 0
      ELSE (CHOOSE q \in ends : \A u \in ends : q <= u) - p + 1

VarintSum(b, p, span) ==
  LET part[i \in 0 .. span] ==
        IF i = 0 THEN 0 ELSE part[i - 1] + (b[p + i - 1] % 128) * Shift[i]
  IN  part[span]

\* A varint of at most 32 bits in MaxVarintBytes bytes.
Fits(b, p, span) ==
  span <= MaxVarintBytes /\ (span = MaxVarintBytes => b[p + span - 1] < 16)

\* "bad" is a run of bytes no run of entries begins with, "cut" one that ends
\* inside an entry.
Whole == [kind |-> "whole", entries |-> << >>]
Cut   == [kind |-> "cut", entries |-> << >>]
Bad   == [kind |-> "bad", entries |-> << >>]

\* The entry at position p of b, and then what is at the position after it.
EntryAt(b, p, from) ==
  IF p = Len(b) + 1 THEN Whole
  ELSE IF b[p] # FieldTag THEN Bad
  ELSE LET span   == VarintSpan(b, p + 1)
           length == VarintSum(b, p + 1, span)
           first  == p + 1 + span
       IN
    IF span = 0 THEN IF Len(b) - p < MaxVarintBytes THEN Cut ELSE Bad
    ELSE IF ~ Fits(b, p + 1, span) \/ length > MaxElementBytes THEN Bad
    ELSE IF first + length > Len(b) + 1 THEN Cut
    ELSE [kind    |-> from[first + length].kind,
          entries |-> <<SubSeq(b, first, first + length - 1)>> \o from[first + length].entries]

(***************************************************************************)
(* The entries of b from position p on, for each p: a whole run of them, a *)
(* run that is cut, or something that is not a run of entries.             *)
(***************************************************************************)
EntriesFrom(b) ==
  LET from[p \in 1 .. Len(b) + 1] == EntryAt(b, p, from) IN from

Entries(b) == EntriesFrom(b)[1]

\* a before b in the order of the setup: b has a first position where a ends or
\* holds a smaller byte.
Precedes(a, b) ==
  \E i \in 1 .. Len(b) :
    /\ i <= Len(a) + 1 /\ \A j \in 1 .. i - 1 : a[j] = b[j]
    /\ i = Len(a) + 1 \/ a[i] < b[i]

Ascending(es) == \A i \in 1 .. Len(es) - 1 : Precedes(es[i], es[i + 1])

\* What follows the Raw field's tag and length.
Body(b) == SubSeq(b, 2 + VarintSpan(b, 2), Len(b))

\* b is a whole setup with the elements es.
IsSetup(b, es) ==
  /\ Len(b) >= 2 /\ b[1] = FieldTag
  /\ LET span == VarintSpan(b, 2)
     IN  span > 0 /\ Fits(b, 2, span) /\ VarintSum(b, 2, span) = Len(Body(b))
  /\ Entries(Body(b)) = [kind |-> "whole", entries |-> es]
  /\ Ascending(es) /\ Len(es) <= MaxElements

\* A setup is sealed only if its bytes are a whole setup, and then the match
\* holds exactly its elements, wherever the bytes were cut (psi_match.h:67-74).
SealedSetupIsWhole ==
  phase = "matching" => IsSetup(sent["setup"], setup)

\* Nothing legal is refused: a setup refused when it is sealed is not whole,
\* and one refused for its bytes is not the beginning of any setup given here
\* (psi_match.h:67-74, read the other way).
CONSTANT LegalSetups
ASSUME LegalSetupsAssumption ==
  \A s \in LegalSetups : s \in Seq(Byte) /\ IsSetup(s, Entries(Body(s)).entries)

LegalSetupsAreAccepted ==
  phase = "setup" =>
    /\ failure = "incomplete" =>
         \A s \in LegalSetups : sent["setup"] # s
    /\ failure \notin {"OK", "incomplete", "out_of_order"} =>
         \A s \in LegalSetups : ~ SE!IsPrefix(sent["setup"], s)

(***************************************************************************)
(* What Finish returns is a function of the two messages alone: the count  *)
(* of response entries, the setup elements that occur among the decrypted  *)
(* response, and the pairs (psi_match.h:33-45).                            *)
(***************************************************************************)
ResultOfMessages ==
  phase = "finished" =>
    LET response == Entries(sent["response"]).entries
        elements == Entries(Body(sent["setup"])).entries
        equal    == {p \in (0 .. Len(response) - 1) \X (0 .. Len(elements) - 1) :
                       Decrypt(response[p[1] + 1]) = elements[p[2] + 1]}
    IN
    /\ result.decrypted = Len(response)
    /\ result.size = {p[2] : p \in equal}
    /\ Len(result.pairs) = IF reveal THEN Cardinality(equal) ELSE 0
    /\ reveal => {result.pairs[i] : i \in 1 .. Len(result.pairs)} = equal
    /\ \A i, j \in 1 .. Len(result.pairs) :
         i < j => result.pairs[i][1] < result.pairs[j][1]
=============================================================================
