----------------------------- MODULE MCPsiMatch -----------------------------
(***************************************************************************)
(* Instances of PsiMatch with elements of at most two bytes, varints of at *)
(* most two and batches of two.  The cipher swaps the bytes 1 and 2 and    *)
(* refuses an element that contains a 3.                                   *)
(***************************************************************************)
EXTENDS PsiMatchGrammar

MCByte == {0, 1, 2, 3, 5, 6, 9, 10, 16, 130}

MCDecrypt(e) ==
  IF \E i \in 1 .. Len(e) : e[i] = 3 THEN Undecryptable
  ELSE [i \in 1 .. Len(e) |-> IF e[i] = 1 THEN 2 ELSE IF e[i] = 2 THEN 1 ELSE e[i]]

\* Every window a message can be cut into.
Cuts(message) ==
  {SubSeq(message, i, j) : i \in 1 .. Len(message) + 1, j \in 0 .. Len(message)}
CutsOf(messages) == UNION {Cuts(m) : m \in messages}
Singles == {<<b>> : b \in MCByte}

\* Two elements in order; a byte above 127 after one below; the empty element
\* first; a length in two bytes; no elements.
Legal ==
  {<<10, 6, 10, 1, 1, 10, 1, 2>>,
   <<10, 6, 10, 1, 1, 10, 1, 130>>,
   <<10, 5, 10, 0, 10, 1, 1>>,
   <<10, 5, 10, 130, 0, 1, 2>>,
   <<10, 0>>}
\* Two elements out of order, also with a byte above 127 first; the same element
\* twice; an element that runs past the field.
Illegal ==
  {<<10, 6, 10, 1, 2, 10, 1, 1>>,
   <<10, 6, 10, 1, 130, 10, 1, 1>>,
   <<10, 6, 10, 1, 1, 10, 1, 1>>,
   <<10, 5, 10, 1, 1, 10, 2, 1>>}

FramingWindows == CutsOf(Legal) \cup CutsOf(Illegal) \cup Singles
WholeSetups    == Legal
FramingResponses == {<<10, 1, 1>>}

\* An empty element between two equal ones; any part may be sent again or
\* alone, and a stray byte makes an element that does not decrypt, an over-long
\* length or a length in two bytes.
Response == <<10, 1, 1, 10, 0, 10, 1, 1>>
MatchingWindows == Cuts(Response) \cup {<<2>>, <<3>>, <<130>>}
=============================================================================
