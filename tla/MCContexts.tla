----------------------------- MODULE MCContexts -----------------------------
(***************************************************************************)
(* Two threads and one object of each language, each a client or a server; *)
(* or, for the cipher that Python threads share, one object of Python's.   *)
(***************************************************************************)
EXTENDS Contexts

Tools == INSTANCE TLC

\* Threads may change names: no definition tells them apart, and both properties
\* are about single steps.
ThreadSymmetry == Tools!Permutations(Threads)
=============================================================================
