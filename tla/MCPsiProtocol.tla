--------------------------- MODULE MCPsiProtocol ---------------------------
(***************************************************************************)
(* Two keys on each side, so that either party may come back as a          *)
(* stranger; inputs with repeats, in two orders, with and without items in *)
(* common.  One setup is enough for a stale one: the server may be created *)
(* again after it.                                                         *)
(*                                                                         *)
(* No definition tells one key of a party from another: the keys are model *)
(* values, and states that differ by an exchange of them are one.          *)
(***************************************************************************)
EXTENDS PsiProtocol, TLC

CONSTANTS c1, c2, s1, s2

MCItem      == {"a", "b", "c"}
MCClientKey == {c1, c2}
MCServerKey == {s1, s2}
MCClientInputs == {<<"a", "b", "a">>, <<"b", "a", "a">>}
MCServerInputs == {<<"c", "b", "a">>, <<"b", "c", "b">>, << >>}

\* b before a before c: neither input of either party is in this order, and
\* the permutation that sorts c, b, a is not its own inverse.
MCOrders == {[a |-> 2, b |-> 1, c |-> 3]}

KeySymmetry == Permutations(MCClientKey) \cup Permutations(MCServerKey)
=============================================================================
