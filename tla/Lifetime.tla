------------------------------ MODULE Lifetime ------------------------------
(***************************************************************************)
(* What every binding promises of the PsiServer, PsiClient and PsiMatch    *)
(* objects it makes, whatever its language reclaims memory with: an object *)
(* is made once and freed at most once, a call uses only objects that are  *)
(* made and not freed, and none is freed while a call uses it.             *)
(***************************************************************************)
CONSTANTS
  Objects,   \* the native objects
  Threads    \* the threads that call into them

VARIABLES
  stage,     \* where each object is in its life
  using      \* the objects the call of each thread reads

vars == <<stage, using>>

Init ==
  /\ stage = [o \in Objects |-> "unmade"]
  /\ using = [t \in Threads |-> {}]

Make(o) ==
  /\ stage[o] = "unmade"
  /\ stage' = [stage EXCEPT ![o] = "live"]
  /\ UNCHANGED using

Free(o) ==
  /\ stage[o] = "live"
  /\ \A t \in Threads : o \notin using[t]
  /\ stage' = [stage EXCEPT ![o] = "freed"]
  /\ UNCHANGED using

Enter(t, needed) ==
  /\ using[t] = {}
  /\ \A o \in needed : stage[o] = "live"
  /\ using' = [using EXCEPT ![t] = needed]
  /\ UNCHANGED stage

Leave(t) ==
  /\ using' = [using EXCEPT ![t] = {}]
  /\ UNCHANGED stage

Next ==
  \/ \E o \in Objects : Make(o) \/ Free(o)
  \/ \E t \in Threads : Leave(t) \/ \E needed \in SUBSET Objects : Enter(t, needed)

Spec == Init /\ [][Next]_vars
=============================================================================
