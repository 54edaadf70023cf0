----------------------------- MODULE ElementMap -----------------------------
(***************************************************************************)
(* What EncryptElements, ReEncryptElements and DecryptElements promise to  *)
(* psi_client.cpp, psi_server.cpp and psi_match.cpp, whatever the number   *)
(* of threads (parallel_ec.h:31-58): the images in input order, or the     *)
(* refusal of the first input the cipher refuses, or a failure of the      *)
(* environment, which may come at any time and says nothing of the inputs. *)
(***************************************************************************)
EXTENDS Integers

CONSTANT InputCounts

VARIABLES n, bad, busy, outcome, image

vars == <<n, bad, busy, outcome, image>>

OK         == [kind |-> "OK", at |-> -1]
Refusal(i) == [kind |-> "OP", at |-> i]
Environment ==
  [kind : {"CLONE", "EXHAUSTED", "EXCEPTION"}, at : {-1}]

Nothing   == [i \in {} |-> -1]
Images(m) == [i \in 0 .. m - 1 |-> i]

Init ==
  /\ n = 0 /\ bad = {} /\ ~busy /\ outcome = OK /\ image = Nothing

Call(m, refused) ==
  /\ ~busy /\ busy' = TRUE
  /\ n' = m /\ bad' = refused
  /\ outcome' = OK /\ image' = Nothing

Succeed ==
  /\ busy /\ busy' = FALSE
  /\ bad = {}
  /\ outcome' = OK /\ image' = Images(n)
  /\ UNCHANGED <<n, bad>>

Refuse(i) ==
  /\ busy /\ busy' = FALSE
  /\ i \in bad /\ \A j \in bad : i <= j
  /\ outcome' = Refusal(i) /\ image' = Nothing
  /\ UNCHANGED <<n, bad>>

Fail ==
  /\ busy /\ busy' = FALSE
  /\ outcome' \in Environment /\ image' = Nothing
  /\ UNCHANGED <<n, bad>>

Next ==
  \/ \E m \in InputCounts : \E refused \in SUBSET (0 .. m - 1) : Call(m, refused)
  \/ Succeed
  \/ \E i \in bad : Refuse(i)
  \/ Fail

Spec == Init /\ [][Next]_vars /\ WF_vars(Succeed \/ Fail \/ \E i \in bad : Refuse(i))
=============================================================================
