-------------------------- MODULE ParallelEC_proofs --------------------------
(***************************************************************************)
(* Proofs about ParallelEC for any numbers of inputs and threads, any      *)
(* thresholds and any batch size.                                          *)
(***************************************************************************)
EXTENDS ParallelEC, FiniteSetTheorems, NaturalsInduction, WellFoundedInduction, TLAPS

(***************************************************************************)
(* The inductive invariant, in parts.  The ranges laid out so far cover    *)
(* the positions before start, in the order of their shards; a call that   *)
(* throws before any shard has run may leave them half laid out.           *)
(***************************************************************************)
InRange(i, t) == ranges[t].first <= i /\ i < ranges[t].second

RangesOrdered(m) ==
  /\ \A t \in 0 .. m - 1 : ranges[t].first <= ranges[t].second
  /\ \A t, u \in 0 .. m - 1 : t < u => ranges[t].second <= ranges[u].first

RangesInv ==
  /\ phase = "plan" =>
       /\ planned < k
       /\ start = planned * (n \div k) + AtMost(planned, n % k)
       /\ RangesOrdered(planned)
       /\ \A t \in 0 .. planned - 1 : ranges[t].second <= start
       /\ \A i \in 0 .. start - 1 : \E t \in 0 .. planned - 1 : InRange(i, t)
  /\ phase # "plan" /\ n > 0 /\ (phase = "done" => pc[0] = "done") =>
       /\ RangesOrdered(k)
       /\ \A t \in Shard : ranges[t].second <= n
       /\ \A i \in Position : \E t \in Shard : InRange(i, t)

\* What shard t has done: the images of its positions before idx[t], none of
\* them refused; and its status says why it stopped.
ShardInv(t) ==
  /\ pc[t] \in {"idle", "begin", "op"} => status[t] = OK
  /\ pc[t] = "op" => InRange(idx[t], t)
  /\ pc[t] \in {"op", "exit", "done"} /\ status[t].kind \in {"OK", "OP"} =>
       \A i \in Position : ranges[t].first <= i /\ i < idx[t] =>
          i \notin bad /\ outputs[i] = Transformed(i)
  /\ pc[t] \in {"exit", "done"} /\ status[t].kind = "OK" =>
       ranges[t].second <= idx[t]
  /\ status[t].kind = "OK" => status[t] = OK
  /\ status[t].kind = "OP" =>
       status[t].at = idx[t] /\ idx[t] \in bad /\ InRange(idx[t], t)

\* Which shards the calling thread has been through.
CallerInv ==
  /\ phase \in {"plan", "spawn", "run", "join"} => n > 0
  /\ n = 0 => \A t \in Shard : pc[t] \in {"idle", "done"} /\ status[t] = OK
  /\ phase = "plan" => spawned = 1 /\ \A t \in Shard : pc[t] = "idle"
  /\ phase = "spawn" => \A t \in Shard \ Workers : pc[t] = "idle"
  /\ phase = "run" =>
       /\ cur \notin Workers
       /\ \A t \in Shard \ Workers : t < cur => pc[t] = "done"
       /\ \A t \in Shard \ Workers : t > cur => pc[t] = "idle"
  /\ phase = "join" => \A t \in Shard \ Workers : pc[t] = "done"
  /\ phase = "return" /\ n > 0 => \A t \in Shard : pc[t] = "done"
  /\ phase = "done" /\ n > 0 =>
       \/ \A t \in Shard : pc[t] = "done"
       \/ result = Exception /\ \A t \in Shard : pc[t] = "idle"

KeyInv ==
  /\ phase # "done" /\ n > 0 /\ k > 1 => key = "live"
  /\ phase = "done" => key # "live"

CipherInv == \A t \in Shard : pc[t] = "op" => cipher[t] = t

IInv ==
  /\ TypeOK
  /\ RangesInv
  /\ \A t \in Shard : ShardInv(t)
  /\ CallerInv
  /\ KeyInv
  /\ CipherInv
  /\ OutcomeIsSequential

-----------------------------------------------------------------------------
\* Quotient and remainder of the range arithmetic in TransformElements.
LEMMA DivMod ==
  ASSUME NEW a \in Nat, NEW b \in Nat \ {0}
  PROVE  /\ a \div b \in Nat
         /\ a % b \in 0 .. b - 1
         /\ a = b * (a \div b) + (a % b)
  BY SMT

LEMMA DivModNat ==
  ASSUME NEW a \in Nat, NEW b \in Nat \ {0}
  PROVE  a \div b \in Nat /\ a % b \in Nat
  BY SMT

LEMMA OneMore ==
  ASSUME NEW p \in Nat, NEW q \in Nat
  PROVE  (p + 1) * q = p * q + q /\ p * q \in Nat
  BY SMT

\* A nonempty set of natural numbers has a least element: a property that fails
\* for some number fails for a least one.
LEMMA LeastElement ==
  ASSUME NEW S \in SUBSET Nat, S # {}
  PROVE  \E m \in S : \A i \in S : m <= i
<1> DEFINE R == {ss \in Nat \X Nat : ss[1] < ss[2]}
<1>1. IsWellFoundedOn(R, Nat)
  BY NatLessThanWellFounded DEF OpToRel
<1>2. \A i, m \in Nat : <<i, m>> \notin R => m <= i
  OBVIOUS
<1> HIDE DEF R
<1> QED
  BY <1>1, <1>2, WFMin

-----------------------------------------------------------------------------
\* At least one thread is chosen.
LEMMA ThreadCountPositive ==
  ASSUME NEW m \in InputCounts, NEW hw \in HardwareThreads
  PROVE  ChooseThreadCount(m, hw) \in Nat \ {0}
<1>1. m \in Nat /\ hw \in Nat
  BY ParallelECAssumption
<1>2. m \div MinInputsPerThread \in Nat
  BY <1>1, ParallelECAssumption, DivModNat
<1> QED
  BY <1>1, <1>2, ParallelECAssumption DEF ChooseThreadCount, AtLeast, AtMost

LEMMA RangeLengthNat ==
  ASSUME TypeOK, NEW t \in Nat
  PROVE  RangeLength(t) \in Nat
<1>1. n \in Nat /\ k \in Nat \ {0}
  BY DEF TypeOK
<1>2. n \div k \in Nat /\ n % k \in Nat
  BY <1>1, DivModNat
<1> QED
  BY <1>2 DEF RangeLength

LEMMA StatusValues ==
  /\ OK \in Status /\ CloneError \in Status
  /\ Exhausted \in Status /\ Exception \in Status
  /\ \A i \in Nat : OpError(i) \in Status
  BY DEF OK, CloneError, Exhausted, Exception, OpError, Status

LEMMA FirstFailureFails ==
  ASSUME TypeOK, Failed # {}
  PROVE  FirstFailure \in Failed /\ \A t \in Failed : FirstFailure <= t
<1>1. Failed \in SUBSET Nat
  BY DEF Failed, Shard, TypeOK
<1>2. \E m \in Failed : \A t \in Failed : m <= t
  BY <1>1, LeastElement
<1> QED
  BY <1>2 DEF FirstFailure

-----------------------------------------------------------------------------
\* Every variable keeps its type (the std::vectors of TransformElements keep
\* their sizes, next_shard stays within the shards).
THEOREM TypeCorrect == Spec => []TypeOK
<1>1. Init => TypeOK
  BY StatusValues DEF Init, TypeOK, Shard, Position, Pc, Empty
<1>2. TypeOK /\ [Next]_vars => TypeOK'
  <2> SUFFICES ASSUME TypeOK, [Next]_vars PROVE TypeOK'
    OBVIOUS
  <2>a. 0 \in Shard /\ Shard \subseteq Nat
    BY DEF TypeOK, Shard
  <2>1. ASSUME NEW m \in InputCounts, NEW hw \in HardwareThreads,
               NEW refused \in SUBSET (0 .. m - 1), Call(m, refused, hw)
        PROVE  TypeOK'
    <3>1. m \in Nat /\ ChooseThreadCount(m, hw) \in Nat \ {0}
      BY ThreadCountPositive, ParallelECAssumption
    <3> DEFINE threads == ChooseThreadCount(m, hw)
    <3>2. n' = m /\ k' = threads /\ bad' = refused
      BY <2>1 DEF Call
    <3>3. Shard' = 0 .. threads - 1 /\ Position' = 0 .. m - 1
      BY <3>2 DEF Shard, Position
    <3> HIDE DEF threads
    <3>4. 0 \in 0 .. threads - 1 /\ 0 \in 0 .. threads /\ 1 \in 1 .. threads
      BY <3>1 DEF threads
    <3>5. /\ ranges' \in [Shard' -> [first : Nat, second : Nat]]
          /\ pc' \in [Shard' -> Pc]
          /\ idx' \in [Shard' -> Nat] /\ pending' \in [Shard' -> Nat]
          /\ cipher' \in [Shard' -> Shard']
          /\ status' \in [Shard' -> Status]
      BY <2>1, <3>1, <3>3, <3>4, StatusValues DEF Call, Pc, threads
    <3>6. outputs' \in [Position' -> Position' \cup {Empty}]
      BY <2>1, <3>3 DEF Call
    <3> QED
      BY <2>1, <3>1, <3>2, <3>3, <3>4, <3>5, <3>6, StatusValues
         DEF Call, TypeOK, threads
  <2>2. CASE PlanShard
    <3>1. RangeLength(planned) \in Nat /\ planned + 1 \in 0 .. k
      BY <2>2, RangeLengthNat DEF PlanShard, TypeOK
    <3>2. Shard' = Shard /\ Position' = Position
      BY <2>2 DEF PlanShard, Shard, Position
    <3>3. start \in Nat /\ start + RangeLength(planned) \in Nat
      BY <3>1 DEF TypeOK
    <3> QED
      BY <2>2, <3>1, <3>2, <3>3 DEF PlanShard, shards, TypeOK
  <2>3. CASE SpawnWorker
    <3>1. Shard' = Shard /\ Position' = Position
      BY <2>3 DEF SpawnWorker, Shard, Position
    <3>2. spawned + 1 \in 1 .. k
      BY <2>3 DEF SpawnWorker, MoreToSpawn, TypeOK
    <3> QED
      BY <2>3, <3>1, <3>2 DEF SpawnWorker, TypeOK, Pc
  <2>4. CASE StopSpawning
    <3>1. Shard' = Shard /\ Position' = Position
      BY <2>4 DEF StopSpawning, Shard, Position
    <3> QED
      BY <2>4, <2>a, <3>1 DEF StopSpawning, TypeOK, Pc
  <2>5. CASE NextLeftover
    <3>1. Shard' = Shard /\ Position' = Position
      BY <2>5 DEF NextLeftover, Shard, Position
    <3>2. AfterShard(cur) < k => AfterShard(cur) \in Shard
      <4>1. k \in Nat /\ spawned \in 1 .. k /\ cur \in 0 .. k - 1
        BY DEF TypeOK, Shard
      <4> QED
        BY <4>1 DEF AfterShard, Shard
    <3> QED
      BY <2>5, <3>1, <3>2 DEF NextLeftover, TypeOK, Pc
  <2>6. CASE JoinWorkers
    <3>1. Shard' = Shard /\ Position' = Position
      BY <2>6 DEF JoinWorkers, Shard, Position
    <3> QED
      BY <2>6, <3>1 DEF JoinWorkers, TypeOK, shards
  <2>7. CASE Return
    <3>1. Shard' = Shard /\ Position' = Position
      BY <2>7 DEF Return, Shard, Position
    <3>2. result' \in Status
      BY <2>7, StatusValues, FirstFailureFails DEF Return, Failed, TypeOK
    <3> QED
      BY <2>7, <3>1, <3>2 DEF Return, TypeOK, shards, Wiped
  <2>10. CASE CallerThrows
    <3>1. Shard' = Shard /\ Position' = Position
      BY <2>10 DEF CallerThrows, Shard, Position
    <3>2. pc' \in [Shard -> Pc]
      BY <2>10 DEF CallerThrows, Pc
    <3>3. result' \in Status /\ key' \in {"none", "live", "wiped"}
      BY <2>10, StatusValues DEF CallerThrows, Wiped, TypeOK
    <3> QED
      BY <2>10, <3>1, <3>2, <3>3 DEF CallerThrows, TypeOK
  <2>8. ASSUME NEW t \in Shard, RunShard(t) PROVE TypeOK'
    <3>a. UNCHANGED caller
      BY <2>8 DEF RunShard, BeginShard, CloneFails, OpSucceeds, OpRefuses,
                  OpThrows, FlushOnExit
    <3>b. Shard' = Shard /\ Position' = Position
      BY <3>a DEF caller, Shard, Position
    <3>1. CASE BeginShard(t)
      BY <3>1, <3>a, <3>b, <2>a
         DEF BeginShard, EnterLoop, NeedsClone, caller, TypeOK, Pc
    <3>2. CASE CloneFails(t)
      BY <3>2, <3>a, <3>b, StatusValues DEF CloneFails, caller, TypeOK, Pc
    <3>3. CASE OpSucceeds(t)
      <4>1. idx[t] + 1 \in Nat /\ pending[t] + 1 \in Nat
        BY DEF TypeOK
      <4>2. slot' \in Nat /\ pending' \in [Shard -> Nat]
        BY <3>3, <4>1 DEF OpSucceeds, Increment, TypeOK
      <4>3. outputs' \in [Position -> Position \cup {Empty}]
        BY <3>3 DEF OpSucceeds, Transformed, TypeOK
      <4>4. idx' \in [Shard -> Nat] /\ pc' \in [Shard -> Pc]
        BY <3>3, <4>1 DEF OpSucceeds, TypeOK, Pc
      <4> QED
        BY <3>3, <3>a, <3>b, <4>2, <4>3, <4>4 DEF OpSucceeds, caller, TypeOK
    <3>4. CASE OpRefuses(t)
      BY <3>4, <3>a, <3>b, StatusValues DEF OpRefuses, caller, TypeOK, Pc
    <3>5. CASE OpThrows(t)
      BY <3>5, <3>a, <3>b, StatusValues DEF OpThrows, caller, TypeOK, Pc
    <3>6. CASE FlushOnExit(t)
      BY <3>6, <3>a, <3>b DEF FlushOnExit, caller, TypeOK, Pc
    <3> QED
      BY <2>8, <3>1, <3>2, <3>3, <3>4, <3>5, <3>6 DEF RunShard
  <2>9. CASE UNCHANGED vars
    BY <2>9 DEF vars, caller, shards, TypeOK, Shard, Position
  <2> QED
    BY <2>1, <2>2, <2>3, <2>4, <2>5, <2>6, <2>7, <2>8, <2>9, <2>10
       DEF Next, NewCall, CallerStep
<1> QED
  BY <1>1, <1>2, PTL DEF Spec

-----------------------------------------------------------------------------
(***************************************************************************)
(* Steps of one shard.  They leave the ranges and the calling thread alone *)
(* and touch the state of shard t only, and outputs at idx[t].             *)
(***************************************************************************)
LEMMA ShardStepFrame ==
  ASSUME NEW t \in Shard, RunShard(t), TypeOK, CallerInv
  PROVE  /\ UNCHANGED caller /\ UNCHANGED <<key, result>>
         /\ Shard' = Shard /\ Position' = Position /\ Workers' = Workers
         /\ pc[t] \in {"begin", "op", "exit"}
         /\ n > 0 /\ phase \notin {"plan", "return", "done"}
         /\ \A u \in Shard \ {t} :
              /\ pc'[u] = pc[u] /\ idx'[u] = idx[u]
              /\ cipher'[u] = cipher[u] /\ status'[u] = status[u]
<1>1. UNCHANGED caller /\ UNCHANGED <<key, result>>
      /\ pc[t] \in {"begin", "op", "exit"}
  BY DEF RunShard, BeginShard, CloneFails, OpSucceeds, OpRefuses,
         OpThrows, FlushOnExit
<1>2. Shard' = Shard /\ Position' = Position /\ Workers' = Workers
  BY <1>1 DEF caller, Shard, Position, Workers
<1>3. n > 0 /\ phase \notin {"plan", "return", "done"}
  <2>1. n \in Nat
    BY DEF TypeOK
  <2> QED
    BY <1>1, <2>1 DEF CallerInv
<1>4. ASSUME NEW u \in Shard \ {t}
      PROVE  /\ pc'[u] = pc[u] /\ idx'[u] = idx[u]
             /\ cipher'[u] = cipher[u] /\ status'[u] = status[u]
  BY <1>4 DEF RunShard, BeginShard, EnterLoop, CloneFails, OpSucceeds,
              OpRefuses, OpThrows, FlushOnExit, TypeOK
<1> QED
  BY <1>1, <1>2, <1>3, <1>4

\* Outputs are only ever completed.
LEMMA ShardStepOutputs ==
  ASSUME NEW t \in Shard, RunShard(t), TypeOK, NEW i \in Position
  PROVE  /\ outputs[i] = Transformed(i) => outputs'[i] = Transformed(i)
         /\ OpSucceeds(t) /\ i = idx[t] => outputs'[i] = Transformed(i)
  BY DEF RunShard, BeginShard, EnterLoop, CloneFails, OpSucceeds, OpRefuses,
         OpThrows, FlushOnExit, TypeOK, Transformed

\* The calling thread's position is not disturbed by a shard that runs.
LEMMA ShardStepCaller ==
  ASSUME NEW t \in Shard, RunShard(t), TypeOK, CallerInv
  PROVE  CallerInv'
<1>1. /\ UNCHANGED caller /\ Shard' = Shard /\ Workers' = Workers
      /\ pc[t] \in {"begin", "op", "exit"}
      /\ n > 0 /\ phase \notin {"plan", "return", "done"}
      /\ \A u \in Shard \ {t} : pc'[u] = pc[u]
  BY ShardStepFrame
<1>2. UNCHANGED <<phase, n, spawned, cur>>
  BY <1>1 DEF caller
<1>3. phase = "spawn" => t \in Workers
  BY <1>1 DEF CallerInv
<1>4. phase = "join" => t \in Workers
  BY <1>1 DEF CallerInv
<1>5. phase = "run" => t \in Workers \/ t = cur
  <2>1. t \in Int /\ cur \in Int
    BY DEF TypeOK, Shard
  <2> QED
    BY <1>1, <2>1 DEF CallerInv
<1>6. n \in Nat /\ t \in Int /\ cur \in Int /\ Shard \subseteq Int
  BY DEF TypeOK, Shard
<1>7. phase = "run" => cur' \notin Workers'
                       /\ (\A u \in Shard' \ Workers' : u < cur' => pc'[u] = "done")
                       /\ (\A u \in Shard' \ Workers' : u > cur' => pc'[u] = "idle")
  BY <1>1, <1>2, <1>5, <1>6 DEF CallerInv
<1>8. phase = "spawn" => \A u \in Shard' \ Workers' : pc'[u] = "idle"
  BY <1>1, <1>3 DEF CallerInv
<1>9. phase = "join" => \A u \in Shard' \ Workers' : pc'[u] = "done"
  BY <1>1, <1>4 DEF CallerInv
<1> QED
  BY <1>1, <1>2, <1>6, <1>7, <1>8, <1>9 DEF CallerInv

LEMMA ShardStepShardInv ==
  ASSUME NEW t \in Shard, RunShard(t), IInv
  PROVE  \A u \in Shard' : ShardInv(u)'
<1>0. TypeOK /\ CallerInv /\ RangesInv /\ \A u \in Shard : ShardInv(u)
  BY DEF IInv
<1>1. /\ Shard' = Shard /\ Position' = Position /\ ranges' = ranges /\ bad' = bad
      /\ n > 0 /\ phase \notin {"plan", "done"}
      /\ \A u \in Shard \ {t} :
           pc'[u] = pc[u] /\ idx'[u] = idx[u] /\ status'[u] = status[u]
  BY <1>0, ShardStepFrame DEF caller
<1>2. \A i \in Position :
        /\ outputs[i] = Transformed(i) => outputs'[i] = Transformed(i)
        /\ OpSucceeds(t) /\ i = idx[t] => outputs'[i] = Transformed(i)
  BY <1>0, ShardStepOutputs
<1>3. ASSUME NEW u \in Shard, u # t PROVE ShardInv(u)'
  <2>1. pc'[u] = pc[u] /\ idx'[u] = idx[u] /\ status'[u] = status[u]
    BY <1>1, <1>3
  <2> QED
    BY <1>0, <1>1, <1>2, <2>1 DEF ShardInv, InRange, Transformed
<1>4. ShardInv(t)'
  <2>1. /\ ranges[t].first \in Nat /\ ranges[t].second \in Nat /\ idx[t] \in Nat
        /\ ranges[t].first <= ranges[t].second
        /\ Position \subseteq Int
    <3>1. RangesOrdered(k) /\ t \in 0 .. k - 1
      BY <1>0, <1>1 DEF RangesInv, Shard
    <3> QED
      BY <1>0, <3>1 DEF TypeOK, RangesOrdered, Position
  <2>2. ShardInv(t)
    BY <1>0
  <2>3. CASE BeginShard(t)
    <3>1. /\ idx'[t] = ranges[t].first /\ status' = status /\ status[t] = OK
          /\ pc'[t] = IF ranges[t].first >= ranges[t].second THEN "exit" ELSE "op"
      BY <1>0, <2>2, <2>3 DEF BeginShard, EnterLoop, AtRangeEnd, ShardInv, TypeOK
    <3> QED
      BY <1>1, <2>1, <3>1 DEF ShardInv, InRange, OK
  <2>4. CASE CloneFails(t)
    <3>1. pc'[t] = "done" /\ status'[t] \in {CloneError, Exhausted}
      BY <1>0, <2>4 DEF CloneFails, TypeOK
    <3> QED
      BY <3>1 DEF ShardInv, CloneError, Exhausted, OK
  <2>5. CASE OpSucceeds(t)
    <3>1. /\ idx'[t] = idx[t] + 1 /\ status' = status /\ status[t] = OK
          /\ InRange(idx[t], t) /\ idx[t] \notin bad
          /\ pc'[t] = IF idx[t] + 1 >= ranges[t].second THEN "exit" ELSE "op"
      BY <1>0, <2>2, <2>5 DEF OpSucceeds, AtRangeEnd, ShardInv, TypeOK
    <3>2. \A i \in Position : ranges[t].first <= i /\ i < idx[t] + 1 =>
             i \notin bad /\ outputs'[i] = Transformed(i)
      <4>1. \A i \in Position : ranges[t].first <= i /\ i < idx[t] =>
             i \notin bad /\ outputs[i] = Transformed(i)
        BY <2>2, <2>5, <3>1 DEF ShardInv, OpSucceeds, OK
      <4>2. \A i \in Position : i < idx[t] + 1 => i < idx[t] \/ i = idx[t]
        BY <2>1
      <4> QED
        BY <1>2, <2>5, <3>1, <4>1, <4>2
    <3> QED
      BY <1>1, <2>1, <3>1, <3>2 DEF ShardInv, InRange, OK, Transformed
  <2>6. CASE OpRefuses(t)
    <3>1. /\ idx' = idx /\ pc'[t] = "exit" /\ status'[t] = OpError(idx[t])
          /\ InRange(idx[t], t) /\ idx[t] \in bad
      BY <1>0, <2>2, <2>6 DEF OpRefuses, ShardInv, TypeOK
    <3>2. \A i \in Position : ranges[t].first <= i /\ i < idx[t] =>
             i \notin bad /\ outputs[i] = Transformed(i)
      BY <2>2, <2>6 DEF ShardInv, OpRefuses, OK
    <3> QED
      BY <1>1, <1>2, <3>1, <3>2 DEF ShardInv, InRange, OpError, OK, Transformed
  <2>7. CASE OpThrows(t)
    <3>1. pc'[t] = "exit" /\ status'[t] \in {Exception, Exhausted}
      BY <1>0, <2>7 DEF OpThrows, TypeOK
    <3> QED
      BY <3>1 DEF ShardInv, Exception, Exhausted, OK
  <2>8. CASE FlushOnExit(t)
    <3>1. idx' = idx /\ pc'[t] = "done" /\ status' = status /\ pc[t] = "exit"
      BY <1>0, <2>8 DEF FlushOnExit, TypeOK
    <3> QED
      BY <1>1, <1>2, <2>2, <3>1 DEF ShardInv, InRange, Transformed
  <2> QED
    BY <2>3, <2>4, <2>5, <2>6, <2>7, <2>8 DEF RunShard
<1> QED
  BY <1>1, <1>3, <1>4

LEMMA ShardStepInv ==
  ASSUME NEW t \in Shard, RunShard(t), IInv, TypeOK'
  PROVE  IInv'
<1>1. TypeOK /\ CallerInv /\ RangesInv /\ KeyInv /\ CipherInv
  BY DEF IInv
<1>2. /\ UNCHANGED <<key, result>> /\ UNCHANGED caller
      /\ Shard' = Shard /\ Position' = Position
      /\ phase # "done"
      /\ \A u \in Shard \ {t} : pc'[u] = pc[u] /\ cipher'[u] = cipher[u]
  BY <1>1, ShardStepFrame
<1>3. RangesInv'
  BY <1>1, <1>2 DEF RangesInv, RangesOrdered, InRange, caller, AtMost
<1>4. CallerInv'
  BY <1>1, ShardStepCaller
<1>5. \A u \in Shard' : ShardInv(u)'
  BY ShardStepShardInv
<1>6. KeyInv' /\ OutcomeIsSequential'
  BY <1>1, <1>2 DEF KeyInv, OutcomeIsSequential, caller
<1>7. CipherInv'
  <2>1. pc'[t] = "op" => cipher'[t] = t
    BY <1>1 DEF RunShard, BeginShard, EnterLoop, NeedsClone, CloneFails,
                OpSucceeds, OpRefuses, OpThrows, FlushOnExit, CipherInv, TypeOK
  <2> QED
    BY <1>1, <1>2, <2>1 DEF CipherInv
<1> QED
  BY <1>3, <1>4, <1>5, <1>6, <1>7 DEF IInv

-----------------------------------------------------------------------------
(***************************************************************************)
(* Steps of the calling thread.                                            *)
(***************************************************************************)
LEMMA CallInv ==
  ASSUME NEW m \in InputCounts, NEW hw \in HardwareThreads,
         NEW refused \in SUBSET (0 .. m - 1), Call(m, refused, hw), TypeOK'
  PROVE  IInv'
<1> DEFINE threads == ChooseThreadCount(m, hw)
<1>1. m \in Nat /\ threads \in Nat \ {0}
  BY ThreadCountPositive, ParallelECAssumption
<1>2. n' = m /\ k' = threads /\ bad' = refused
  BY DEF Call
<1>3. Shard' = 0 .. threads - 1 /\ Position' = 0 .. m - 1
  BY <1>2 DEF Shard, Position
<1> HIDE DEF threads
<1>4. /\ phase' = IF m = 0 THEN "return" ELSE IF threads <= 1 THEN "run" ELSE "plan"
      /\ planned' = 0 /\ start' = 0 /\ spawned' = 1 /\ cur' = 0
      /\ key' = IF m > 0 /\ threads > 1 THEN "live" ELSE "none"
      /\ \A t \in Shard' :
           /\ pc'[t] = IF m > 0 /\ threads <= 1 THEN "begin" ELSE "idle"
           /\ status'[t] = OK
           /\ ranges'[t].first = 0 /\ ranges'[t].second = m
  BY <1>3 DEF Call, threads
<1>5. RangesInv'
  <2>1. CASE phase' = "plan"
    <3>1. m \div threads \in Nat /\ m % threads \in Nat
      BY <1>1, DivModNat
    <3>2. 0 = 0 * (m \div threads) + AtMost(0, m % threads)
      BY <3>1 DEF AtMost
    <3> QED
      BY <1>1, <1>2, <1>4, <2>1, <3>2 DEF RangesInv, RangesOrdered
  <2>2. CASE phase' # "plan" /\ m > 0
    <3>1. Shard' = {0} /\ k' = 1
      BY <1>1, <1>2, <1>3, <1>4, <2>2
    <3> QED
      BY <1>1, <1>2, <1>3, <1>4, <2>2, <3>1 DEF RangesInv, RangesOrdered, InRange
  <2>3. CASE phase' # "plan" /\ m = 0
    BY <1>2, <2>3 DEF RangesInv
  <2> QED
    BY <1>1, <2>1, <2>2, <2>3
<1>6. \A t \in Shard' : ShardInv(t)'
  BY <1>4 DEF ShardInv, OK
<1>7. CallerInv'
  <2>1. CASE phase' = "run"
    <3>1. Shard' = {0} /\ m > 0 /\ Workers' = {}
      BY <1>1, <1>3, <1>4, <2>1 DEF Workers
    <3> QED
      BY <1>2, <1>4, <2>1, <3>1 DEF CallerInv
  <2>2. CASE phase' # "run"
    BY <1>1, <1>2, <1>4, <2>2 DEF CallerInv
  <2> QED
    BY <2>1, <2>2
<1>8. KeyInv' /\ CipherInv' /\ OutcomeIsSequential'
  BY <1>1, <1>2, <1>4 DEF KeyInv, CipherInv, OutcomeIsSequential
<1> QED
  BY <1>5, <1>6, <1>7, <1>8 DEF IInv

\* One more range extends the cover of the positions, and the last one
\* completes it: k * (n \div k) + n % k is n.
LEMMA PlanRanges ==
  ASSUME IInv, PlanShard, TypeOK'
  PROVE  RangesInv'
<1> DEFINE q    == n \div k
           r    == n % k
           len  == RangeLength(planned)
           next == start + len
<1>1. n \in Nat /\ k \in Nat \ {0} /\ planned \in Nat /\ start \in Nat
      /\ ranges \in [Shard -> [first : Nat, second : Nat]]
  BY DEF IInv, TypeOK
<1>2. /\ phase = "plan" /\ planned < k
      /\ n' = n /\ k' = k /\ planned' = planned + 1 /\ start' = next
      /\ ranges' = [ranges EXCEPT ![planned] = [first |-> start, second |-> next]]
      /\ phase' = IF planned + 1 = k THEN "spawn" ELSE "plan"
  BY DEF PlanShard
<1>3. /\ start = planned * q + AtMost(planned, r)
      /\ RangesOrdered(planned)
      /\ \A t \in 0 .. planned - 1 : ranges[t].second <= start
      /\ \A i \in 0 .. start - 1 : \E t \in 0 .. planned - 1 : InRange(i, t)
  BY <1>2 DEF IInv, RangesInv
<1>4. q \in Nat /\ r \in 0 .. k - 1 /\ n = k * q + r
  BY <1>1, DivMod
<1>5. len = q + (IF planned < r THEN 1 ELSE 0)
  BY DEF RangeLength
<1> HIDE DEF q, r, len
<1>6. len \in Nat /\ next \in Nat /\ start <= next
  BY <1>1, <1>4, <1>5
<1>7. /\ ranges'[planned].first = start /\ ranges'[planned].second = next
      /\ \A t \in 0 .. planned - 1 : ranges'[t] = ranges[t]
      /\ \A t \in 0 .. planned - 1 :
           ranges[t].first \in Nat /\ ranges[t].second \in Nat
  BY <1>1, <1>2 DEF Shard
<1>8. \A t \in 0 .. planned : t \in 0 .. planned - 1 \/ t = planned
  BY <1>1
<1>9. next = (planned + 1) * q + AtMost(planned + 1, r)
  <2>1. (planned + 1) * q = planned * q + q /\ planned * q \in Nat
    BY <1>1, <1>4, OneMore
  <2>2. AtMost(planned, r) + (IF planned < r THEN 1 ELSE 0) = AtMost(planned + 1, r)
        /\ AtMost(planned, r) \in Nat /\ AtMost(planned + 1, r) \in Nat
    BY <1>1, <1>4 DEF AtMost
  <2> QED
    BY <1>1, <1>3, <1>4, <1>5, <2>1, <2>2
<1>10. RangesOrdered(planned)'
  <2>1. \A t \in 0 .. planned : ranges'[t].first <= ranges'[t].second
    BY <1>1, <1>3, <1>6, <1>7, <1>8 DEF RangesOrdered
  <2>2. ASSUME NEW t \in 0 .. planned, NEW u \in 0 .. planned, t < u
        PROVE  ranges'[t].second <= ranges'[u].first
    <3>1. t \in 0 .. planned - 1
      BY <1>1, <2>2
    <3>2. CASE u = planned
      BY <1>3, <1>7, <3>1, <3>2
    <3>3. CASE u \in 0 .. planned - 1
      BY <1>3, <1>7, <2>2, <3>1, <3>3 DEF RangesOrdered
    <3> QED
      BY <1>8, <3>2, <3>3
  <2> QED
    BY <1>1, <1>2, <2>1, <2>2 DEF RangesOrdered
<1>11. \A t \in 0 .. planned : ranges'[t].second <= next
  <2> SUFFICES ASSUME NEW t \in 0 .. planned
               PROVE  ranges'[t].second <= next
    OBVIOUS
  <2>1. CASE t = planned
    BY <1>6, <1>7, <2>1
  <2>2. CASE t \in 0 .. planned - 1
    <3>1. ranges[t].second \in Nat /\ ranges[t].second <= start /\ ranges'[t] = ranges[t]
      BY <1>3, <1>7, <2>2
    <3> HIDE DEF next
    <3> QED
      BY <1>1, <1>6, <3>1
  <2> QED
    BY <1>8, <2>1, <2>2
<1>12. \A i \in 0 .. next - 1 : \E t \in 0 .. planned : InRange(i, t)'
  <2> SUFFICES ASSUME NEW i \in 0 .. next - 1
               PROVE  \E t \in 0 .. planned : InRange(i, t)'
    OBVIOUS
  <2>1. CASE i < start
    <3>1. i \in 0 .. start - 1
      BY <1>1, <1>6, <2>1
    <3>2. PICK t \in 0 .. planned - 1 : InRange(i, t)
      BY <1>3, <3>1
    <3>3. t \in 0 .. planned /\ ranges'[t].first <= i /\ i < ranges'[t].second
      BY <1>1, <1>7, <3>2 DEF InRange
    <3> QED
      BY <3>3 DEF InRange
  <2>2. CASE ~ (i < start)
    <3>1. ranges'[planned].first <= i /\ i < ranges'[planned].second
      BY <1>1, <1>6, <1>7, <2>2
    <3>2. planned \in 0 .. planned
      BY <1>1
    <3> QED
      BY <3>1, <3>2 DEF InRange
  <2> QED
    BY <2>1, <2>2
<1>13. CASE planned + 1 = k
  <2>1. next = n
    BY <1>1, <1>4, <1>9, <1>13 DEF AtMost
  <2>2. Shard' = 0 .. planned /\ Position' = 0 .. next - 1 /\ k' = planned'
    BY <1>1, <1>2, <1>13, <2>1 DEF Shard, Position
  <2> QED
    BY <1>2, <1>10, <1>11, <1>12, <1>13, <2>1, <2>2 DEF RangesInv, RangesOrdered
<1>14. CASE planned + 1 # k
  <2>1. planned' < k' /\ 0 .. planned' - 1 = 0 .. planned
    BY <1>1, <1>2, <1>14
  <2>2. start' = planned' * (n' \div k') + AtMost(planned', n' % k')
    BY <1>2, <1>9 DEF q, r, AtMost
  <2> QED
    BY <1>2, <1>10, <1>11, <1>12, <1>14, <2>1, <2>2 DEF RangesInv, RangesOrdered
<1> QED
  BY <1>13, <1>14

LEMMA PlanInv ==
  ASSUME IInv, PlanShard, TypeOK'
  PROVE  IInv'
<1>1. /\ n' = n /\ k' = k /\ bad' = bad /\ spawned' = spawned
      /\ UNCHANGED shards /\ UNCHANGED <<key, result>>
      /\ phase = "plan" /\ phase' \in {"plan", "spawn"}
  BY DEF PlanShard
<1>2. Shard' = Shard /\ Position' = Position /\ Workers' = Workers
  BY <1>1 DEF Shard, Position, Workers
<1>3. CallerInv /\ KeyInv /\ CipherInv /\ \A t \in Shard : ShardInv(t)
  BY DEF IInv
<1>4. \A t \in Shard : pc[t] = "idle" /\ status[t] = OK
  BY <1>1, <1>3 DEF CallerInv, ShardInv
<1>5. \A t \in Shard' : ShardInv(t)'
  BY <1>1, <1>2, <1>4 DEF ShardInv, shards, OK
<1>6. CallerInv'
  BY <1>1, <1>2, <1>3, <1>4 DEF CallerInv, shards
<1>7. KeyInv' /\ CipherInv' /\ OutcomeIsSequential'
  BY <1>1, <1>2, <1>3 DEF KeyInv, CipherInv, OutcomeIsSequential, shards
<1> QED
  BY <1>5, <1>6, <1>7, PlanRanges DEF IInv

\* A step of the calling thread after the ranges are laid out that changes
\* no more of the shards than starting some idle ones.
LEMMA StartInv ==
  ASSUME IInv, TypeOK', CallerInv',
         UNCHANGED <<n, bad, k, ranges, planned, start>>,
         UNCHANGED <<idx, cipher, pending, status, outputs, slot, key, result>>,
         phase \notin {"plan", "done"}, phase' \notin {"plan", "done"},
         \A t \in Shard : pc'[t] = pc[t] \/ (pc[t] = "idle" /\ pc'[t] = "begin")
  PROVE  IInv'
<1>1. Shard' = Shard /\ Position' = Position
  BY DEF Shard, Position
<1>2. KeyInv /\ CipherInv /\ RangesInv /\ \A t \in Shard : ShardInv(t)
  BY DEF IInv
<1>3. RangesInv'
  BY <1>1, <1>2 DEF RangesInv, RangesOrdered, InRange
<1>4. \A t \in Shard' : ShardInv(t)'
  <2> SUFFICES ASSUME NEW t \in Shard PROVE ShardInv(t)'
    BY <1>1
  <2>1. ShardInv(t)
    BY <1>2
  <2>2. CASE pc'[t] = pc[t]
    BY <1>1, <2>1, <2>2 DEF ShardInv, InRange, Transformed
  <2>3. CASE pc[t] = "idle" /\ pc'[t] = "begin"
    BY <1>1, <2>1, <2>3 DEF ShardInv, OK
  <2> QED
    BY <2>2, <2>3
<1>5. KeyInv' /\ CipherInv' /\ OutcomeIsSequential'
  BY <1>1, <1>2 DEF KeyInv, CipherInv, OutcomeIsSequential
<1> QED
  BY <1>3, <1>4, <1>5 DEF IInv

LEMMA CallerStepInv ==
  ASSUME IInv, CallerStep, TypeOK', ~ PlanShard, ~ Return
  PROVE  IInv'
<1>1. /\ UNCHANGED <<n, bad, k, ranges, planned, start>>
      /\ UNCHANGED <<idx, cipher, pending, status, outputs, slot, key, result>>
      /\ phase \in {"spawn", "run", "join"}
      /\ phase' \in {"spawn", "run", "join", "return"}
  BY DEF CallerStep, SpawnWorker, StopSpawning, NextLeftover, JoinWorkers, shards
<1>2. CallerInv /\ TypeOK /\ n > 0 /\ n \in Nat
  BY <1>1 DEF IInv, CallerInv, TypeOK
<1>3. Shard' = Shard /\ 0 \in Shard /\ Shard \subseteq Int /\ 0 \notin Workers
      /\ k \in Nat /\ spawned \in 1 .. k /\ cur \in Shard
  BY <1>1, <1>2 DEF Shard, TypeOK, Workers
<1>4. CASE SpawnWorker
  <2>1. /\ phase = "spawn" /\ phase' = "spawn" /\ spawned < k
        /\ spawned \in Shard /\ pc[spawned] = "idle"
        /\ pc' = [pc EXCEPT ![spawned] = "begin"]
        /\ Workers' = 1 .. spawned
    BY <1>2, <1>3, <1>4 DEF SpawnWorker, MoreToSpawn, CallerInv, Workers, Shard
  <2>2. \A t \in Shard : pc'[t] = IF t = spawned THEN "begin" ELSE pc[t]
    BY <1>2, <2>1 DEF TypeOK
  <2>3. \A t \in Shard \ Workers' : t \in Shard \ Workers /\ t # spawned
    <3>1. \A t \in Shard \ (1 .. spawned) : t \in Shard \ Workers /\ t # spawned
      BY <1>3 DEF Workers
    <3> QED
      BY <2>1, <3>1
  <2>4. \A t \in Shard \ Workers : pc[t] = "idle"
    BY <1>2, <2>1 DEF CallerInv
  <2>5. \A t \in Shard \ Workers' : pc'[t] = "idle"
    BY <2>2, <2>3, <2>4
  <2>6. CallerInv'
    BY <1>1, <1>2, <1>3, <2>1, <2>5 DEF CallerInv
  <2> QED
    BY <1>1, <2>1, <2>2, <2>6, StartInv
<1>5. CASE StopSpawning
  <2>1. /\ phase = "spawn" /\ phase' = "run" /\ cur' = 0 /\ pc[0] = "idle"
        /\ pc' = [pc EXCEPT ![0] = "begin"] /\ Workers' = Workers
    BY <1>2, <1>3, <1>5 DEF StopSpawning, CallerInv, Workers
  <2>2. \A t \in Shard : pc'[t] = IF t = 0 THEN "begin" ELSE pc[t]
    BY <1>2, <2>1 DEF TypeOK
  <2>3. \A t \in Shard : ~ (t < 0)
    BY DEF Shard
  <2>4. CallerInv'
    BY <1>1, <1>2, <1>3, <2>1, <2>2, <2>3 DEF CallerInv
  <2> QED
    BY <1>1, <2>1, <2>2, <2>4, StartInv
<1>6. CASE NextLeftover
  <2> DEFINE next == AfterShard(cur)
  <2>1. /\ phase = "run" /\ pc[cur] = "done" /\ Workers' = Workers /\ cur \notin Workers
        /\ \A t \in Shard \ Workers : t < cur => pc[t] = "done"
        /\ \A t \in Shard \ Workers : t > cur => pc[t] = "idle"
    BY <1>2, <1>6 DEF NextLeftover, CallerInv, Workers
  \* The calling thread's shards are 0, spawned, spawned + 1, ...
  <2>2. next \in Nat /\ cur < next /\ next \notin Workers
        /\ \A t \in Shard \ Workers : t <= cur \/ next <= t
    <3>1. cur \in Nat /\ spawned \in Nat \ {0} /\ (cur = 0 \/ spawned <= cur)
      BY <1>3, <2>1 DEF Workers, Shard
    <3>2. next = IF cur = 0 THEN spawned ELSE cur + 1
      BY DEF AfterShard
    <3>3. \A t \in Shard \ Workers : t \in Nat /\ (t = 0 \/ spawned <= t)
      BY <1>3 DEF Workers, Shard
    <3> QED
      BY <3>1, <3>2, <3>3 DEF Workers
  <2>3. CASE next < k
    <3>1. next \in Shard /\ phase' = "run" /\ cur' = next /\ pc[next] = "idle"
          /\ pc' = [pc EXCEPT ![next] = "begin"]
      BY <1>3, <1>6, <2>1, <2>2, <2>3 DEF NextLeftover, Shard
    <3>2. \A t \in Shard : pc'[t] = IF t = next THEN "begin" ELSE pc[t]
      BY <1>2, <3>1 DEF TypeOK
    <3>3. \A t \in Shard \ Workers : t < next => pc'[t] = "done"
      BY <1>3, <2>1, <2>2, <3>2
    <3>4. \A t \in Shard \ Workers : t > next => pc'[t] = "idle"
      BY <1>3, <2>1, <2>2, <3>2
    <3> HIDE DEF next
    <3>5. CallerInv'
      BY <1>1, <1>2, <1>3, <2>1, <2>2, <3>1, <3>2, <3>3, <3>4 DEF CallerInv
    <3> QED
      BY <1>1, <2>1, <3>1, <3>2, <3>5, StartInv
  <2>4. CASE ~ (next < k)
    <3>1. phase' = "join" /\ pc' = pc
      BY <1>6, <2>4 DEF NextLeftover
    <3>2. \A t \in Shard \ Workers : pc[t] = "done"
      <4>1. \A t \in Shard : t < next
        BY <1>3, <2>2, <2>4 DEF Shard
      <4> QED
        BY <1>3, <2>1, <2>2, <4>1
    <3>3. CallerInv'
      BY <1>1, <1>2, <1>3, <2>1, <3>1, <3>2 DEF CallerInv
    <3> QED
      BY <1>1, <2>1, <3>1, <3>3, StartInv
  <2> QED
    BY <2>3, <2>4
<1>7. CASE JoinWorkers
  <2>1. phase = "join" /\ phase' = "return" /\ pc' = pc
        /\ \A t \in Shard : pc[t] = "done"
    BY <1>2, <1>7 DEF JoinWorkers, CallerInv, shards
  <2>2. CallerInv'
    BY <1>1, <1>2, <1>3, <2>1 DEF CallerInv
  <2> QED
    BY <1>1, <2>1, <2>2, StartInv
<1> QED
  BY <1>4, <1>5, <1>6, <1>7 DEF CallerStep

\* What is returned: with no failed shard every position has been transformed,
\* and a refusal is that of the first failed shard, so of the first position
\* the cipher refuses.
LEMMA ReturnOutcome ==
  ASSUME IInv, Return
  PROVE  OutcomeIsSequential'
<1>1. /\ phase = "return" /\ n' = n /\ bad' = bad /\ outputs' = outputs
      /\ Position' = Position
      /\ result' = IF Failed = {} THEN OK ELSE status[FirstFailure]
  BY DEF Return, shards, Position
<1>2. TypeOK /\ RangesInv /\ CallerInv /\ \A t \in Shard : ShardInv(t)
  BY DEF IInv
<1>3. CASE n = 0
  <2>1. bad = {} /\ Position = {}
    BY <1>2, <1>3 DEF TypeOK, Position
  <2>2. Failed = {}
    BY <1>2, <1>3 DEF CallerInv, Failed
  <2> QED
    BY <1>1, <2>1, <2>2 DEF OutcomeIsSequential, OK
<1>4. CASE n > 0
  <2>1. \A t \in Shard : pc[t] = "done"
    BY <1>1, <1>2, <1>4 DEF CallerInv
  <2>2. RangesOrdered(k) /\ \A i \in Position : \E t \in Shard : InRange(i, t)
    BY <1>1, <1>2, <1>4 DEF RangesInv
  <2>3. bad \subseteq Position /\ Position \subseteq Int /\ Shard \subseteq Int
        /\ \A t \in Shard : /\ ranges[t].first \in Int /\ ranges[t].second \in Int
                            /\ idx[t] \in Int
    <3>1. bad \subseteq Position /\ Position \subseteq Int /\ Shard \subseteq Int
      BY <1>2 DEF TypeOK, Position, Shard
    <3>2. \A t \in Shard : ranges[t] \in [first : Nat, second : Nat] /\ idx[t] \in Nat
      BY <1>2 DEF TypeOK
    <3> QED
      BY <3>1, <3>2
  \* A shard that did not fail has transformed the whole of its range.
  <2>4. ASSUME NEW t \in Shard, status[t] = OK, NEW i \in Position, InRange(i, t)
        PROVE  i \notin bad /\ outputs[i] = Transformed(i)
    <3>1. ShardInv(t) /\ pc[t] = "done" /\ status[t].kind = "OK"
      BY <1>2, <2>1, <2>4 DEF OK
    <3>2. ranges[t].first <= i /\ i < idx[t]
      BY <2>3, <2>4, <3>1 DEF ShardInv, InRange
    <3> QED
      BY <3>1, <3>2 DEF ShardInv
  <2>5. CASE Failed = {}
    <3>1. \A t \in Shard : status[t] = OK
      BY <2>5 DEF Failed
    <3>2. \A i \in Position : i \notin bad /\ outputs[i] = Transformed(i)
      BY <2>2, <2>4, <3>1
    <3> QED
      BY <1>1, <2>3, <2>5, <3>2 DEF OutcomeIsSequential, OK, Transformed
  <2>6. CASE Failed # {}
    <3> DEFINE t == FirstFailure
    <3>1. t \in Failed /\ \A u \in Failed : t <= u
      BY <1>2, <2>6, FirstFailureFails
    <3> HIDE DEF t
    <3>2. t \in Shard /\ status[t] # OK /\ \A u \in Shard : u < t => status[u] = OK
      BY <2>3, <3>1 DEF Failed
    <3>3. result' = status[t] /\ ShardInv(t) /\ pc[t] = "done"
      BY <1>1, <1>2, <2>1, <2>6, <3>2 DEF t
    <3>4. status[t].kind # "OK"
      BY <3>2, <3>3 DEF ShardInv
    <3>5. ASSUME status[t].kind = "OP"
          PROVE  status[t].at \in bad /\ \A i \in bad : status[t].at <= i
      <4>1. status[t].at = idx[t] /\ idx[t] \in bad /\ InRange(idx[t], t)
        BY <3>3, <3>5 DEF ShardInv
      <4>2. ASSUME NEW i \in bad, i < idx[t] PROVE FALSE
        <5>1. i \in Position
          BY <2>3
        <5>2. PICK u \in Shard : InRange(i, u)
          BY <2>2, <5>1
        <5>3. CASE u < t
          BY <2>4, <3>2, <5>1, <5>2, <5>3
        <5>4. CASE u = t
          <6>1. ranges[t].first <= i /\ i < idx[t]
            BY <4>2, <5>2, <5>4 DEF InRange
          <6> QED
            BY <3>3, <3>5, <5>1, <6>1 DEF ShardInv
        <5>5. CASE t < u
          <6>1. ranges[t].second <= ranges[u].first
            BY <2>2, <3>2, <5>5 DEF RangesOrdered, Shard
          <6>2. ranges[u].first <= i /\ i < idx[t] /\ idx[t] < ranges[t].second
            BY <4>1, <4>2, <5>2 DEF InRange
          <6>3. /\ i \in Int /\ idx[t] \in Int /\ ranges[u].first \in Int
                /\ ranges[t].second \in Int
            BY <2>3, <3>2, <5>1
          <6> QED
            BY <6>1, <6>2, <6>3
        <5>6. u \in Int /\ t \in Int
          BY <2>3, <3>2
        <5> QED
          BY <5>3, <5>4, <5>5, <5>6
      <4>3. idx[t] \in Int /\ \A i \in bad : i \in Int
        BY <2>3, <3>2
      <4> QED
        BY <4>1, <4>2, <4>3
    <3> QED
      BY <1>1, <3>3, <3>4, <3>5 DEF OutcomeIsSequential
  <2> QED
    BY <2>5, <2>6
<1> QED
  BY <1>2, <1>3, <1>4 DEF TypeOK

LEMMA ReturnInv ==
  ASSUME IInv, Return, TypeOK'
  PROVE  IInv'
<1>1. /\ UNCHANGED <<n, bad, k, ranges, planned, start, spawned, cur>>
      /\ UNCHANGED shards
      /\ phase = "return" /\ phase' = "done" /\ key' = Wiped
  BY DEF Return
<1>2. Shard' = Shard /\ Position' = Position /\ Workers' = Workers
  BY <1>1 DEF Shard, Position, Workers
<1>3. RangesInv /\ CallerInv /\ CipherInv /\ \A t \in Shard : ShardInv(t)
  BY DEF IInv
<1>4. RangesInv'
  BY <1>1, <1>2, <1>3 DEF RangesInv, RangesOrdered, InRange
<1>5. \A t \in Shard' : ShardInv(t)'
  BY <1>1, <1>2, <1>3 DEF ShardInv, shards, InRange, Transformed
<1>6. CallerInv' /\ CipherInv'
  BY <1>1, <1>2, <1>3 DEF CallerInv, CipherInv, shards
<1>7. KeyInv'
  BY <1>1 DEF KeyInv, Wiped
<1> QED
  BY <1>4, <1>5, <1>6, <1>7, ReturnOutcome DEF IInv

\* Where the calling thread may throw no shard has begun on its positions.
LEMMA NothingBegun ==
  ASSUME TypeOK, CallerInv, CallerThrows
  PROVE  /\ n > 0 /\ phase \in {"plan", "spawn", "run"}
         /\ \A t \in Shard : pc[t] \in {"idle", "begin"}
<1>1. n > 0 /\ phase \in {"plan", "spawn", "run"}
  BY DEF CallerThrows, CallerInv
<1>2. CASE phase = "plan"
  BY <1>1, <1>2 DEF CallerInv
<1>3. CASE phase = "spawn"
  <2>1. spawned = 1 /\ Workers = {}
    BY <1>3 DEF CallerThrows, Workers
  <2> QED
    BY <1>1, <1>3, <2>1 DEF CallerInv
<1>4. CASE phase = "run"
  <2>1. Shard = {0} /\ pc[0] = "begin"
    BY <1>4 DEF CallerThrows, Shard
  <2> QED
    BY <1>1, <2>1
<1> QED
  BY <1>1, <1>2, <1>3, <1>4

LEMMA CallerThrowsInv ==
  ASSUME IInv, CallerThrows, TypeOK'
  PROVE  IInv'
<1>1. /\ UNCHANGED <<n, bad, k, ranges, planned, start, spawned, cur>>
      /\ UNCHANGED <<idx, cipher, pending, status, outputs, slot>>
      /\ phase' = "done" /\ key' = Wiped /\ result' = Exception
  BY DEF CallerThrows
<1>2. Shard' = Shard /\ Position' = Position /\ Workers' = Workers
  BY <1>1 DEF Shard, Position, Workers
<1>3. TypeOK /\ CallerInv /\ \A t \in Shard : ShardInv(t)
  BY DEF IInv
<1>4. n > 0 /\ \A t \in Shard : pc[t] \in {"idle", "begin"} /\ status[t] = OK
  BY <1>3, NothingBegun DEF ShardInv
<1>5. 0 \in Shard /\ n \in Nat /\ \A t \in Shard : pc'[t] = "idle"
  BY <1>3 DEF TypeOK, Shard, CallerThrows
<1>6. RangesInv'
  BY <1>1, <1>5 DEF RangesInv
<1>7. \A t \in Shard' : ShardInv(t)'
  BY <1>1, <1>2, <1>4, <1>5 DEF ShardInv, OK
<1>8. CallerInv'
  BY <1>1, <1>2, <1>4, <1>5 DEF CallerInv, Exception
<1>9. KeyInv' /\ CipherInv' /\ OutcomeIsSequential'
  BY <1>1, <1>2, <1>5 DEF KeyInv, Wiped, CipherInv, OutcomeIsSequential, Exception
<1> QED
  BY <1>6, <1>7, <1>8, <1>9 DEF IInv

-----------------------------------------------------------------------------
LEMMA InitInv == Init => IInv
<1> SUFFICES ASSUME Init PROVE IInv
  OBVIOUS
<1>1. TypeOK
  BY StatusValues DEF Init, TypeOK, Shard, Position, Pc, Empty
<1>2. /\ phase = "done" /\ n = 0 /\ bad = {} /\ Shard = 0 .. 0
      /\ Position = {} /\ key = "none" /\ result = OK
      /\ \A t \in Shard : /\ pc[t] = "done" /\ status[t] = OK /\ idx[t] = 0
                          /\ ranges[t].second = 0
  BY DEF Init, Shard, Position
<1>3. RangesInv /\ CallerInv /\ KeyInv /\ CipherInv
  BY <1>2 DEF RangesInv, CallerInv, KeyInv, CipherInv
<1>4. \A t \in Shard : ShardInv(t)
  BY <1>2 DEF ShardInv, OK
<1>5. OutcomeIsSequential
  BY <1>2 DEF OutcomeIsSequential, OK
<1> QED
  BY <1>1, <1>3, <1>4, <1>5 DEF IInv

LEMMA StutterInv ==
  ASSUME IInv, UNCHANGED vars
  PROVE  IInv'
<1> USE DEF vars, caller, shards
<1>1. Shard' = Shard /\ Position' = Position /\ Workers' = Workers
  BY DEF Shard, Position, Workers
<1>2. TypeOK'
  BY <1>1 DEF IInv, TypeOK
<1>3. RangesInv' /\ CallerInv' /\ KeyInv' /\ CipherInv'
  BY <1>1 DEF IInv, RangesInv, RangesOrdered, InRange, CallerInv, KeyInv, CipherInv
<1>4. \A t \in Shard' : ShardInv(t)'
  BY <1>1 DEF IInv, ShardInv, InRange, Transformed
<1>5. OutcomeIsSequential'
  BY <1>1 DEF IInv, OutcomeIsSequential, Transformed
<1> QED
  BY <1>2, <1>3, <1>4, <1>5 DEF IInv

LEMMA Invariance == Spec => []IInv
<1>1. IInv /\ TypeOK' /\ [Next]_vars => IInv'
  BY CallInv, PlanInv, CallerStepInv, CallerThrowsInv, ReturnInv, ShardStepInv, StutterInv
     DEF Next, NewCall, CallerStep
<1> QED
  BY <1>1, InitInv, TypeCorrect, PTL DEF Spec

\* Whatever the number of threads, the schedule and the failures of threads,
\* clones and allocations, a call returns OK only with all the images in input
\* order, and a refusal only for the first input the cipher refuses.
THEOREM OutcomeCorrect == Spec => []OutcomeIsSequential
  BY Invariance, PTL DEF IInv

\* The primary cipher's scratch context is the calling thread's alone and no
\* two threads are ever inside operations on one cipher.
THEOREM CipherSafety == Spec => []CipherConfined
<1>1. IInv => CipherConfined
  BY DEF IInv, CipherInv, CipherConfined
<1> QED
  BY <1>1, Invariance, PTL

\* When a call returns, all of its shards have ended; when it throws, each has
\* ended or was never started.
THEOREM NoShardOutlives == Spec => []NoShardOutlivesCall
<1>1. IInv => NoShardOutlivesCall
  BY DEF IInv, CallerInv, NoShardOutlivesCall
<1> QED
  BY <1>1, Invariance, PTL

\* The key copy is there for every shard that has yet to clone a cipher from
\* it, and gone when the call returns.
THEOREM KeySafety == Spec => []KeyOutlivesClones
<1>1. IInv => KeyOutlivesClones
  <2> SUFFICES ASSUME IInv PROVE KeyOutlivesClones
    OBVIOUS
  <2>1. ASSUME NEW t \in Shard, pc[t] = "begin", t # 0 PROVE key = "live"
    <3>1. k > 1 /\ n \in Nat
      BY <2>1 DEF IInv, TypeOK, Shard
    <3>2. n > 0
      BY <2>1, <3>1 DEF IInv, CallerInv
    <3>3. phase # "done"
      BY <2>1, <3>2 DEF IInv, CallerInv
    <3> QED
      BY <3>1, <3>2, <3>3 DEF IInv, KeyInv
  <2> QED
    BY <2>1 DEF IInv, KeyInv, KeyOutlivesClones
<1> QED
  BY <1>1, Invariance, PTL

-----------------------------------------------------------------------------
(***************************************************************************)
(* The progress slot.  What shard t has processed is its positions before  *)
(* idx[t], and the last pending[t] of those are not published yet, so the  *)
(* slot is the number of positions some shard has published.               *)
(***************************************************************************)
CountInv(t) ==
  /\ pc[t] \in {"idle", "begin"} => idx[t] = 0
  /\ pc[t] \in {"idle", "begin", "done"} => pending[t] = 0
  /\ ranges[t].first <= idx[t] - pending[t] \/ (idx[t] = 0 /\ pending[t] = 0)
  /\ idx[t] <= ranges[t].second
  /\ \A i \in Position : InRange(i, t) => (outputs[i] # Empty <=> i < idx[t])

Published ==
  {i \in Position : \E t \in Shard : ranges[t].first <= i /\ i < idx[t] - pending[t]}

ProgressInv ==
  /\ phase = "plan" => \A i \in Position : outputs[i] = Empty
  /\ phase = "done" /\ pc[0] = "idle" => \A i \in Position : outputs[i] = Empty
  /\ \A t \in Shard : CountInv(t)
  /\ slot = Cardinality(Published)

\* The number types of a shard, one by one.
LEMMA ShardTypes ==
  ASSUME TypeOK, NEW t \in Shard
  PROVE  /\ ranges[t].first \in Nat /\ ranges[t].second \in Nat
         /\ idx[t] \in Nat /\ pending[t] \in Nat /\ t \in Nat
<1>1. ranges[t] \in [first : Nat, second : Nat] /\ idx[t] \in Nat /\ pending[t] \in Nat
  BY DEF TypeOK
<1> QED
  BY <1>1 DEF Shard

LEMMA FinitePositions ==
  ASSUME TypeOK, NEW S \in SUBSET Position
  PROVE  IsFiniteSet(S) /\ Cardinality(S) \in Nat
<1>1. n \in Nat /\ 0 \in Int /\ n - 1 \in Int
  BY DEF TypeOK
<1>2. IsFiniteSet(Position)
  BY <1>1, FS_Interval DEF Position
<1> QED
  BY <1>2, FS_Subset, FS_CardinalityType

\* No position lies in the ranges of two shards.
LEMMA RangesDisjoint ==
  ASSUME TypeOK, RangesOrdered(k), NEW t \in Shard, NEW u \in Shard, NEW i \in Position,
         InRange(i, t), InRange(i, u)
  PROVE  t = u
<1>1. /\ ranges[t].first \in Nat /\ ranges[t].second \in Nat
      /\ ranges[u].first \in Nat /\ ranges[u].second \in Nat
      /\ t \in Nat /\ u \in Nat /\ i \in Int
  BY ShardTypes DEF Position
<1>2. t < u => ranges[t].second <= ranges[u].first
  BY DEF RangesOrdered, Shard
<1>3. u < t => ranges[u].second <= ranges[t].first
  BY DEF RangesOrdered, Shard
<1> QED
  BY <1>1, <1>2, <1>3 DEF InRange

\* Where idx[t] - pending[t] moves on within t's range, by as much as the slot
\* is raised, the slot still counts what is published.
LEMMA PublishMore ==
  ASSUME IInv, ProgressInv, NEW t \in Shard, phase \notin {"plan", "done"}, n > 0,
         UNCHANGED <<n, k, ranges>>,
         \A u \in Shard \ {t} : idx'[u] = idx[u] /\ pending'[u] = pending[u],
         NEW a \in Nat, NEW b \in Nat,
         a = idx[t] - pending[t], b = idx'[t] - pending'[t],
         ranges[t].first <= a, a <= b, b <= ranges[t].second, slot' = slot + (b - a)
  PROVE  slot' = Cardinality(Published')
<1>1. TypeOK /\ RangesOrdered(k) /\ slot = Cardinality(Published) /\ CountInv(t)
  BY DEF IInv, RangesInv, ProgressInv
<1>2. Shard' = Shard /\ Position' = Position /\ ranges[t].first \in Nat /\ n \in Nat
      /\ ranges[t].second <= n /\ ranges[t].second \in Nat
  BY <1>1, ShardTypes DEF Shard, Position, TypeOK, IInv, RangesInv
<1> DEFINE More == a .. b - 1
<1>3. Published' = Published \cup More
  <2>1. ASSUME NEW i \in Published' PROVE i \in Published \cup More
    <3>1. PICK u \in Shard : ranges[u].first <= i /\ i < idx'[u] - pending'[u]
      BY <1>2 DEF Published
    <3>2. i \in Position /\ i \in Int
      BY <1>2 DEF Published, Position
    <3>3. CASE u = t
      BY <3>1, <3>2, <3>3 DEF Published
    <3>4. CASE u # t
      BY <3>1, <3>2, <3>4 DEF Published
    <3> QED
      BY <3>3, <3>4
  <2>2. ASSUME NEW i \in Published PROVE i \in Published'
    <3>1. PICK u \in Shard : ranges[u].first <= i /\ i < idx[u] - pending[u]
      BY DEF Published
    <3>2. i \in Position /\ i \in Int
      BY DEF Published, Position
    <3>3. i < idx'[u] - pending'[u]
      BY <3>1, <3>2
    <3> QED
      BY <1>2, <3>1, <3>2, <3>3 DEF Published
  <2>3. ASSUME NEW i \in More PROVE i \in Published'
    <3>1. i \in Position /\ ranges[t].first <= i /\ i < idx'[t] - pending'[t]
      BY <1>2 DEF Position
    <3> QED
      BY <1>2, <3>1 DEF Published
  <2> QED
    BY <2>1, <2>2, <2>3
<1>4. ASSUME NEW i \in Published \cap More PROVE FALSE
  <2>1. i \in Position /\ i \in Int /\ a <= i /\ i < b
    BY DEF Published, Position
  <2>2. PICK u \in Shard : ranges[u].first <= i /\ i < idx[u] - pending[u]
    BY DEF Published
  <2>3. u # t
    BY <2>1, <2>2
  <2>4. CountInv(u) /\ idx[u] \in Nat /\ pending[u] \in Nat /\ ranges[u].second \in Nat
    BY <1>1, ShardTypes DEF ProgressInv
  <2>5. InRange(i, u)
    BY <2>1, <2>2, <2>4 DEF CountInv, InRange
  <2>6. InRange(i, t)
    BY <1>1, <1>2, <2>1, ShardTypes DEF InRange
  <2> QED
    BY <1>1, <2>1, <2>3, <2>5, <2>6, RangesDisjoint
<1>5. IsFiniteSet(Published) /\ Cardinality(Published) \in Nat
  BY <1>1, FinitePositions DEF Published
<1>6. IsFiniteSet(More) /\ Cardinality(More) = b - a
  <2>1. a \in Int /\ b - 1 \in Int
    OBVIOUS
  <2>2. IsFiniteSet(More) /\ Cardinality(More) = IF a > b - 1 THEN 0 ELSE (b - 1) - a + 1
    BY <2>1, FS_Interval
  <2> QED
    BY <2>2
<1>7. Published \cap More = {}
  BY <1>4
<1> HIDE DEF More
<1>8. Cardinality(Published \cup More) = Cardinality(Published) + Cardinality(More)
  <2>1. Cardinality(Published \cup More) =
          Cardinality(Published) + Cardinality(More) - Cardinality(Published \cap More)
    BY <1>5, <1>6, FS_Union
  <2>2. Cardinality(Published \cap More) = 0
    BY <1>7, FS_EmptySet
  <2>3. Cardinality(More) \in Nat
    BY <1>6
  <2> QED
    BY <1>5, <2>1, <2>2, <2>3
<1> QED
  BY <1>1, <1>3, <1>6, <1>8

\* The other shards' counts stay as they are: an output is only filled in at a
\* position of t's range.
LEMMA OthersCount ==
  ASSUME IInv, ProgressInv, NEW t \in Shard, RunShard(t), NEW u \in Shard, u # t
  PROVE  CountInv(u)'
<1>1. TypeOK /\ CallerInv /\ RangesInv /\ ShardInv(t) /\ CountInv(u)
  BY DEF IInv, ProgressInv
<1>2. /\ Position' = Position /\ ranges' = ranges /\ n > 0 /\ phase \notin {"plan", "done"}
      /\ pc'[u] = pc[u] /\ idx'[u] = idx[u]
  BY <1>1, ShardStepFrame DEF caller
<1>3. pending'[u] = pending[u]
  BY <1>1 DEF RunShard, BeginShard, EnterLoop, CloneFails, OpSucceeds, Increment, OpRefuses,
              OpThrows, FlushOnExit, TypeOK
<1>4. ASSUME NEW i \in Position, InRange(i, u) PROVE outputs'[i] = outputs[i]
  <2>1. CASE OpSucceeds(t)
    <3>1. InRange(idx[t], t)
      BY <1>1, <2>1 DEF OpSucceeds, ShardInv
    <3>2. i # idx[t]
      BY <1>1, <1>2, <1>4, <3>1, RangesDisjoint DEF RangesInv
    <3> QED
      BY <1>1, <2>1, <3>2 DEF OpSucceeds, TypeOK
  <2>2. CASE ~ OpSucceeds(t)
    BY <2>2 DEF RunShard, BeginShard, EnterLoop, CloneFails, OpRefuses, OpThrows, FlushOnExit
  <2> QED
    BY <2>1, <2>2
<1> QED
  BY <1>1, <1>2, <1>3, <1>4 DEF CountInv, InRange, Empty

LEMMA ShardStepProgress ==
  ASSUME IInv, IInv', ProgressInv, NEW t \in Shard, RunShard(t)
  PROVE  ProgressInv' /\ slot <= slot'
<1>1. TypeOK /\ CallerInv /\ RangesInv /\ ShardInv(t) /\ CountInv(t) /\ TypeOK'
      /\ slot = Cardinality(Published)
  BY DEF IInv, ProgressInv
<1>2. /\ UNCHANGED caller /\ Shard' = Shard /\ Position' = Position /\ ranges' = ranges
      /\ n' = n /\ k' = k /\ n > 0 /\ phase \notin {"plan", "done"} /\ phase' = phase
      /\ \A u \in Shard \ {t} : idx'[u] = idx[u]
  BY <1>1, ShardStepFrame DEF caller
<1>3. /\ ranges[t].first \in Nat /\ ranges[t].second \in Nat /\ idx[t] \in Nat
      /\ pending[t] \in Nat /\ slot \in Nat /\ Batch \in Nat
      /\ ranges[t].first <= ranges[t].second /\ ranges[t].second <= n /\ n \in Nat
  BY <1>1, <1>2, ShardTypes, ParallelECAssumption DEF TypeOK, RangesInv, RangesOrdered, Shard
<1>4. \A u \in Shard \ {t} : pending'[u] = pending[u]
  BY <1>1 DEF RunShard, BeginShard, EnterLoop, CloneFails, OpSucceeds, Increment, OpRefuses,
              OpThrows, FlushOnExit, TypeOK
\* A step that leaves outputs and what t has published alone.
<1>5. ASSUME slot' = slot, \A i \in Position : ranges[t].first <= i =>
               (i < idx'[t] - pending'[t] <=> i < idx[t] - pending[t])
      PROVE  slot' = Cardinality(Published')
  <2>1. Published' = Published
    <3>1. \A i \in Position : \A u \in Shard :
            (ranges[u].first <= i /\ i < idx'[u] - pending'[u])
              <=> (ranges[u].first <= i /\ i < idx[u] - pending[u])
      BY <1>2, <1>4, <1>5
    <3> QED
      BY <1>2, <3>1 DEF Published
  <2> QED
    BY <1>1, <1>5, <2>1
<1>6. CASE BeginShard(t)
  <2>1. /\ idx'[t] = ranges[t].first /\ pending' = pending /\ outputs' = outputs /\ slot' = slot
        /\ pending[t] = 0 /\ idx[t] = 0 /\ pc'[t] \in {"op", "exit"}
    BY <1>1, <1>6 DEF BeginShard, EnterLoop, TypeOK, CountInv
  <2>2. \A i \in Position : i \in Nat
    BY DEF Position
  <2>3. CountInv(t)'
    BY <1>1, <1>2, <1>3, <2>1, <2>2 DEF CountInv, InRange, Empty
  <2>4. slot' = Cardinality(Published')
    BY <1>3, <1>5, <2>1, <2>2
  <2> QED
    BY <1>2, <1>3, <2>1, <2>3, <2>4, OthersCount DEF ProgressInv
<1>7. CASE CloneFails(t) \/ OpRefuses(t) \/ OpThrows(t)
  <2>1. idx' = idx /\ pending' = pending /\ outputs' = outputs /\ slot' = slot
    BY <1>7 DEF CloneFails, OpRefuses, OpThrows
  <2>2. pc'[t] = "exit" \/ (pc'[t] = "done" /\ pending[t] = 0)
    BY <1>1, <1>7 DEF CloneFails, OpRefuses, OpThrows, TypeOK, CountInv
  <2>3. CountInv(t)'
    BY <1>1, <1>2, <2>1, <2>2 DEF CountInv, InRange, Empty
  <2>4. slot' = Cardinality(Published')
    BY <1>5, <2>1
  <2> QED
    BY <1>2, <1>3, <2>1, <2>3, <2>4, OthersCount DEF ProgressInv
<1>8. CASE OpSucceeds(t)
  <2>1. /\ idx'[t] = idx[t] + 1 /\ InRange(idx[t], t) /\ pc'[t] \in {"op", "exit"}
        /\ outputs' = [outputs EXCEPT ![idx[t]] = idx[t]]
    BY <1>1, <1>8 DEF OpSucceeds, ShardInv, TypeOK, Transformed
  <2>2. idx[t] \in Position /\ ranges[t].first <= idx[t] /\ idx[t] < ranges[t].second
    BY <1>3, <2>1 DEF InRange, Position
  <2>3. ASSUME pending[t] + 1 >= Batch, slot' = slot + pending[t] + 1, pending'[t] = 0
        PROVE  slot' = Cardinality(Published') /\ slot <= slot'
    <3>1. idx'[t] - pending'[t] = idx[t] + 1 /\ idx[t] - pending[t] \in Nat
          /\ ranges[t].first <= idx[t] - pending[t]
      BY <1>1, <1>3, <2>1, <2>2, <2>3 DEF CountInv
    <3> DEFINE a == idx[t] - pending[t]
               b == idx[t] + 1
    <3>2. slot' = slot + (b - a) /\ a \in Nat /\ b \in Nat /\ a <= b /\ b <= ranges[t].second
      BY <1>3, <2>2, <2>3, <3>1
    <3>3. slot' = Cardinality(Published')
      <4>1. a = idx[t] - pending[t] /\ b = idx'[t] - pending'[t]
        BY <3>1
      <4> HIDE DEF a, b
      <4> QED
        BY <1>2, <1>4, <3>1, <3>2, <4>1, PublishMore
    <3> QED
      BY <1>3, <2>3, <3>3
  <2>4. ASSUME slot' = slot, pending'[t] = pending[t] + 1
        PROVE  slot' = Cardinality(Published') /\ slot <= slot'
    <3>1. idx'[t] - pending'[t] = idx[t] - pending[t]
      BY <1>3, <2>1, <2>4
    <3> QED
      BY <1>3, <1>5, <2>4, <3>1
  <2>5. (pending[t] + 1 >= Batch /\ slot' = slot + pending[t] + 1 /\ pending'[t] = 0)
        \/ (slot' = slot /\ pending'[t] = pending[t] + 1)
    BY <1>1, <1>8 DEF OpSucceeds, Increment, TypeOK
  <2>6. slot' = Cardinality(Published') /\ slot <= slot'
    BY <2>3, <2>4, <2>5
  <2>7. CountInv(t)'
    <3>1. ASSUME NEW i \in Position, InRange(i, t)
          PROVE  outputs'[i] # Empty <=> i < idx[t] + 1
      <4>1. i \in Int /\ (i = idx[t] => outputs'[i] # Empty)
        BY <1>1, <2>1, <2>2 DEF TypeOK, Position, Empty
      <4>2. i # idx[t] => outputs'[i] = outputs[i]
        BY <1>1, <2>1 DEF TypeOK
      <4>3. outputs[i] # Empty <=> i < idx[t]
        BY <1>1, <3>1 DEF CountInv
      <4> QED
        BY <1>3, <4>1, <4>2, <4>3
    <3>2. idx'[t] - pending'[t] >= ranges[t].first
      BY <1>1, <1>3, <2>1, <2>2, <2>5 DEF CountInv
    <3>3. idx'[t] <= ranges[t].second
      BY <1>3, <2>1, <2>2
    <3> QED
      BY <1>2, <2>1, <3>1, <3>2, <3>3 DEF CountInv, InRange, Empty
  <2> QED
    BY <1>2, <2>6, <2>7, OthersCount DEF ProgressInv
<1>9. CASE FlushOnExit(t)
  <2>1. /\ idx' = idx /\ outputs' = outputs /\ pending'[t] = 0 /\ slot' = slot + pending[t]
        /\ pc'[t] = "done"
    BY <1>1, <1>9 DEF FlushOnExit, TypeOK
  <2>2. CountInv(t)'
    BY <1>1, <1>2, <1>3, <2>1 DEF CountInv, InRange, Empty
  <2>3. slot' = Cardinality(Published')
    <3>1. CASE pending[t] = 0
      BY <1>3, <1>5, <2>1, <3>1
    <3>2. CASE pending[t] # 0
      <4> DEFINE a == idx[t] - pending[t]
                 b == idx[t]
      <4>1. a \in Nat /\ b \in Nat /\ ranges[t].first <= a /\ a <= b /\ b <= ranges[t].second
            /\ slot' = slot + (b - a) /\ b = idx'[t] - pending'[t]
        BY <1>1, <1>3, <2>1, <3>2 DEF CountInv
      <4>2. a = idx[t] - pending[t]
        OBVIOUS
      <4> HIDE DEF a, b
      <4> QED
        BY <1>2, <1>4, <4>1, <4>2, PublishMore
    <3> QED
      BY <3>1, <3>2
  <2> QED
    BY <1>2, <1>3, <2>1, <2>2, <2>3, OthersCount DEF ProgressInv
<1> QED
  BY <1>6, <1>7, <1>8, <1>9 DEF RunShard

\* The calling thread starts shards that have not run, and no other.
LEMMA StartedWasIdle ==
  ASSUME TypeOK, CallerInv, CallerStep, NEW t \in Shard
  PROVE  pc'[t] = pc[t] \/ (pc[t] = "idle" /\ pc'[t] = "begin")
<1>1. k \in Nat /\ spawned \in 1 .. k /\ cur \in Shard /\ t \in Nat /\ cur \in Nat
      /\ pc \in [Shard -> Pc] /\ spawned \in Nat
  BY DEF TypeOK, Shard
<1>2. CASE SpawnWorker
  <2>1. spawned \notin Workers /\ phase = "spawn"
    BY <1>1, <1>2 DEF SpawnWorker, Workers
  <2> QED
    BY <1>1, <1>2, <2>1 DEF SpawnWorker, CallerInv
<1>3. CASE StopSpawning
  <2>1. 0 \notin Workers /\ phase = "spawn"
    BY <1>3 DEF StopSpawning, Workers
  <2> QED
    BY <1>1, <1>3, <2>1 DEF StopSpawning, CallerInv
<1>4. CASE NextLeftover
  <2> DEFINE next == AfterShard(cur)
  <2>1. phase = "run" /\ cur \notin Workers
    BY <1>4 DEF NextLeftover, CallerInv
  <2>2. next \notin Workers /\ next > cur
    BY <1>1, <2>1 DEF AfterShard, Workers
  <2>3. pc' = pc \/ pc' = [pc EXCEPT ![next] = "begin"]
    BY <1>4 DEF NextLeftover
  <2>4. t = next => pc[t] = "idle"
    BY <2>1, <2>2 DEF CallerInv
  <2> HIDE DEF next
  <2> QED
    BY <1>1, <2>3, <2>4
<1>5. CASE PlanShard \/ JoinWorkers \/ Return
  BY <1>5 DEF PlanShard, JoinWorkers, Return, shards
<1> QED
  BY <1>2, <1>3, <1>4, <1>5 DEF CallerStep

\* The calling thread's steps leave the counts and the slot alone.
LEMMA CallerStepProgress ==
  ASSUME IInv, IInv', ProgressInv, CallerStep
  PROVE  ProgressInv' /\ slot' = slot
<1>1. TypeOK /\ CallerInv /\ \A t \in Shard : CountInv(t)
  BY DEF IInv, ProgressInv
<1>2. UNCHANGED <<n, k, idx, pending, outputs, slot>> /\ (phase' = "done" => Return)
  BY DEF CallerStep, PlanShard, SpawnWorker, StopSpawning, NextLeftover, JoinWorkers, Return,
         shards
<1>3. Shard' = Shard /\ Position' = Position
  BY <1>2 DEF Shard, Position
<1>4. CASE PlanShard
  <2>1. phase = "plan" /\ pc' = pc /\ \A t \in Shard : pc[t] = "idle"
    BY <1>1, <1>4 DEF PlanShard, shards, CallerInv
  <2>2. \A i \in Position : outputs[i] = Empty /\ i \in Nat
    BY <2>1 DEF ProgressInv, Position
  <2>3. \A t \in Shard : idx[t] = 0 /\ pending[t] = 0
    BY <1>1, <2>1 DEF CountInv
  <2>4. TypeOK'
    BY DEF IInv
  <2>5. \A t \in Shard : ranges'[t].second \in Nat /\ ranges'[t].first \in Nat
    <3>1. \A t \in Shard : ranges'[t] \in [first : Nat, second : Nat]
      BY <1>3, <2>4 DEF TypeOK
    <3> QED
      BY <3>1
  <2>6. \A t \in Shard : CountInv(t)'
    BY <1>2, <1>3, <2>1, <2>2, <2>3, <2>5 DEF CountInv, InRange, Empty
  <2>7. Published' = {} /\ Published = {}
    BY <1>2, <1>3, <2>2, <2>3 DEF Published
  <2> QED
    BY <1>2, <1>3, <2>2, <2>6, <2>7 DEF ProgressInv, Empty
<1>5. CASE ~ PlanShard
  <2>1. ranges' = ranges /\ phase' # "plan"
    BY <1>5 DEF CallerStep, SpawnWorker, StopSpawning, NextLeftover, JoinWorkers, Return
  <2>2. \A t \in Shard : pc'[t] = pc[t] \/ (pc[t] = "idle" /\ pc'[t] = "begin")
    BY <1>1, StartedWasIdle
  <2>4. Published' = Published
    BY <1>2, <1>3, <2>1 DEF Published
  <2>5. \A t \in Shard : CountInv(t)'
    BY <1>1, <1>2, <1>3, <2>1, <2>2 DEF CountInv, InRange, Empty
  <2>6. phase' = "done" /\ pc'[0] = "idle" => Position = {}
    <3>1. ASSUME phase' = "done", pc'[0] = "idle" PROVE Position = {}
      <4>1. phase = "return" /\ pc' = pc /\ n \in Nat /\ 0 \in Shard
        BY <1>1, <1>2, <3>1 DEF Return, shards, TypeOK, Shard
      <4>2. n = 0
        BY <1>1, <3>1, <4>1 DEF CallerInv
      <4> QED
        BY <4>2 DEF Position
    <3> QED
      BY <3>1
  <2> QED
    BY <1>2, <1>3, <2>1, <2>4, <2>5, <2>6 DEF ProgressInv
<1> QED
  BY <1>4, <1>5

\* Where the calling thread throws nothing has been processed, nor counted.
LEMMA CallerThrowsProgress ==
  ASSUME IInv, ProgressInv, CallerThrows
  PROVE  ProgressInv' /\ slot' = slot
<1>1. /\ TypeOK /\ CallerInv /\ RangesInv /\ \A t \in Shard : CountInv(t)
      /\ slot = Cardinality(Published)
  BY DEF IInv, ProgressInv
<1>2. /\ UNCHANGED <<n, k, ranges, idx, pending, outputs, slot>> /\ phase' = "done"
      /\ \A t \in Shard : pc'[t] = "idle"
  BY DEF CallerThrows
<1>3. Shard' = Shard /\ Position' = Position
  BY <1>2 DEF Shard, Position
<1>4. /\ n > 0 /\ phase \in {"plan", "spawn", "run"}
      /\ \A t \in Shard : pc[t] \in {"idle", "begin"}
  BY <1>1, NothingBegun
<1>5. \A t \in Shard : idx[t] = 0 /\ pending[t] = 0
  BY <1>1, <1>4 DEF CountInv
<1>6. ASSUME NEW i \in Position PROVE outputs[i] = Empty
  <2>1. CASE phase = "plan"
    BY <2>1 DEF ProgressInv
  <2>2. CASE phase # "plan"
    <3>1. PICK t \in Shard : InRange(i, t)
      BY <1>1, <1>4, <2>2 DEF RangesInv
    <3>2. ~ (i < idx[t])
      BY <1>5 DEF Position
    <3> QED
      BY <1>1, <3>1, <3>2 DEF CountInv
  <2> QED
    BY <2>1, <2>2
<1>7. Published' = Published
  BY <1>2, <1>3 DEF Published
<1>8. \A t \in Shard : CountInv(t)'
  BY <1>1, <1>2, <1>3, <1>5 DEF CountInv, InRange, Empty
<1> QED
  BY <1>1, <1>2, <1>3, <1>6, <1>7, <1>8 DEF ProgressInv, Empty

LEMMA CallProgress ==
  ASSUME NEW m \in InputCounts, NEW hw \in HardwareThreads, NEW refused, Call(m, refused, hw),
         TypeOK'
  PROVE  ProgressInv'
<1> DEFINE threads == ChooseThreadCount(m, hw)
<1>1. threads \in Nat \ {0} /\ m \in Nat
  BY ThreadCountPositive, ParallelECAssumption
<1>2. /\ n' = m /\ k' = threads /\ slot' = 0
      /\ Shard' = 0 .. threads - 1 /\ Position' = 0 .. m - 1
      /\ outputs' = [i \in 0 .. m - 1 |-> Empty]
      /\ idx' = [t \in 0 .. threads - 1 |-> 0] /\ pending' = [t \in 0 .. threads - 1 |-> 0]
      /\ ranges' = [t \in 0 .. threads - 1 |-> [first |-> 0, second |-> m]]
  BY DEF Call, Shard, Position
<1> HIDE DEF threads
<1>3. \A i \in Position' : i \in Nat /\ outputs'[i] = Empty
  BY <1>2
<1>4. \A t \in Shard' : idx'[t] = 0 /\ pending'[t] = 0 /\ ranges'[t].first = 0 /\ ranges'[t].second = m
  BY <1>2
<1>5. \A t \in Shard' : CountInv(t)'
  BY <1>1, <1>3, <1>4 DEF CountInv, InRange, Empty
<1>6. Published' = {}
  BY <1>3, <1>4 DEF Published
<1> QED
  BY <1>2, <1>3, <1>5, <1>6, FS_EmptySet DEF ProgressInv, Empty

LEMMA ProgressStep ==
  ASSUME IInv, IInv', ProgressInv, [Next]_vars
  PROVE  ProgressInv' /\ (phase # "done" => slot <= slot')
<1>1. TypeOK' /\ slot \in Nat
  BY DEF IInv, TypeOK
<1>2. CASE NewCall
  BY <1>1, <1>2, CallProgress DEF NewCall, Call
<1>3. CASE CallerStep
  BY <1>1, <1>3, CallerStepProgress
<1>4. CASE \E t \in Shard : RunShard(t)
  BY <1>4, ShardStepProgress
<1>6. CASE CallerThrows
  BY <1>1, <1>6, CallerThrowsProgress
<1>5. CASE UNCHANGED vars
  <2>1. Shard' = Shard /\ Position' = Position
    BY <1>5 DEF vars, caller, Shard, Position
  <2>2. Published' = Published
    BY <1>5, <2>1 DEF vars, caller, shards, Published
  <2>3. \A t \in Shard' : CountInv(t)'
    BY <1>5, <2>1 DEF vars, caller, shards, ProgressInv, CountInv, InRange, Empty
  <2> QED
    BY <1>1, <1>5, <2>1, <2>2, <2>3 DEF vars, caller, shards, ProgressInv, Empty
<1> QED
  BY <1>2, <1>3, <1>4, <1>5, <1>6 DEF Next

LEMMA ProgressInit == Init => ProgressInv
<1> SUFFICES ASSUME Init PROVE ProgressInv
  OBVIOUS
<1>1. /\ phase = "done" /\ Position = {} /\ Shard = 0 .. 0 /\ slot = 0
      /\ \A t \in Shard : /\ pc[t] = "done" /\ idx[t] = 0 /\ pending[t] = 0
                          /\ ranges[t].first = 0 /\ ranges[t].second = 0
  BY DEF Init, Shard, Position
<1>2. Published = {}
  BY <1>1 DEF Published
<1> QED
  BY <1>1, <1>2, FS_EmptySet DEF ProgressInv, CountInv

LEMMA ProgressInvHolds == Spec => [](IInv /\ ProgressInv)
<1>1. Spec => []IInv
  BY Invariance
<1>2. IInv /\ IInv' /\ ProgressInv /\ [Next]_vars => ProgressInv'
  BY ProgressStep
<1> QED
  BY <1>1, <1>2, ProgressInit, PTL DEF Spec

\* What is published has been processed.
LEMMA PublishedIsProcessed ==
  ASSUME IInv, ProgressInv
  PROVE  Published \subseteq Processed /\ slot <= Cardinality(Processed)
<1>1. TypeOK /\ slot = Cardinality(Published)
  BY DEF IInv, ProgressInv
<1>2. ASSUME NEW i \in Published PROVE i \in Processed
  <2>1. PICK t \in Shard : ranges[t].first <= i /\ i < idx[t] - pending[t]
    BY DEF Published
  <2>2. i \in Position /\ i \in Int /\ CountInv(t) /\ idx[t] \in Nat /\ pending[t] \in Nat
        /\ ranges[t].second \in Nat
    BY <1>1, ShardTypes DEF Published, Position, ProgressInv
  <2>3. InRange(i, t) /\ i < idx[t]
    BY <2>1, <2>2 DEF CountInv, InRange
  <2> QED
    BY <2>2, <2>3 DEF CountInv, Processed
<1>3. IsFiniteSet(Processed)
  BY <1>1, FinitePositions DEF Processed
<1> QED
  BY <1>1, <1>2, <1>3, FS_Subset

\* Whatever the number of threads, the batch size, the schedule and the
\* failures: when a call returns, the slot counts the elements processed.
THEOREM ProgressCorrect == Spec => []ProgressIsExact
<1>1. ASSUME IInv, ProgressInv, phase = "done" PROVE slot = Cardinality(Processed)
  <2>1. TypeOK /\ slot = Cardinality(Published) /\ Published \subseteq Processed /\ n \in Nat
    BY <1>1, PublishedIsProcessed DEF IInv, ProgressInv, TypeOK
  <2>2. ASSUME NEW i \in Processed PROVE i \in Published
    <3>1. i \in Position /\ n > 0 /\ outputs[i] # Empty
      BY <2>1 DEF Processed, Position
    <3>5. pc[0] = "done"
      <4>1. pc[0] # "idle"
        BY <1>1, <3>1 DEF ProgressInv
      <4>2. 0 \in Shard
        BY <1>1 DEF IInv, TypeOK, Shard
      <4> QED
        BY <1>1, <3>1, <4>1, <4>2 DEF IInv, CallerInv
    <3>2. PICK t \in Shard : InRange(i, t)
      BY <1>1, <3>1, <3>5 DEF IInv, RangesInv
    <3>3. pc[t] = "done" /\ CountInv(t) /\ idx[t] \in Nat
      <4>1. 0 \in Shard
        BY <1>1 DEF IInv, TypeOK, Shard
      <4>2. pc[t] = "done"
        BY <1>1, <3>1, <3>5, <4>1 DEF IInv, CallerInv
      <4> QED
        BY <1>1, <2>1, <4>2, ShardTypes DEF ProgressInv
    <3>4. ranges[t].first <= i /\ i < idx[t] - pending[t]
      BY <3>1, <3>2, <3>3 DEF CountInv, InRange, Processed
    <3> QED
      BY <3>1, <3>4 DEF Published
  <2> QED
    BY <2>1, <2>2
<1> QED
  BY <1>1, ProgressInvHolds, PTL DEF ProgressIsExact

\* A poller never reads a slot ahead of the elements processed, nor one that
\* goes back within a call.
THEOREM ProgressNeverGoesBack == Spec => ProgressMonotone
<1>1. IInv /\ IInv' /\ ProgressInv /\ [Next]_vars =>
        ProgressInv' /\ (phase # "done" => slot <= slot')
  BY ProgressStep
<1>2. IInv /\ ProgressInv => slot <= Cardinality(Processed)
  BY PublishedIsProcessed
<1>3. (slot <= Cardinality(Processed))' => slot' <= Cardinality(Processed')
  OBVIOUS
<1>4. Spec => [](IInv /\ ProgressInv)
  BY ProgressInvHolds
<1> QED
  BY <1>1, <1>2, <1>3, <1>4, PTL DEF Spec, ProgressMonotone

-----------------------------------------------------------------------------
(***************************************************************************)
(* The refinement.  A shard's status is OK, the refusal of a position, or  *)
(* one of the failures the abstract specification puts down to the         *)
(* environment; Return is then the one step that ends an abstract call.    *)
(***************************************************************************)
Reason(s) == s = OK \/ s = OpError(s.at) \/ s \in ElementMapSpec!Environment

StatusInv == \A t \in Shard : Reason(status[t])

LEMMA Reasons ==
  /\ Reason(OK) /\ Reason(CloneError) /\ Reason(Exhausted) /\ Reason(Exception)
  /\ \A i \in Nat : Reason(OpError(i))
  BY DEF Reason, OK, CloneError, Exhausted, Exception, OpError,
         ElementMapSpec!Environment

LEMMA StatusInit == Init => StatusInv
  BY Reasons DEF Init, StatusInv, Shard

LEMMA StatusStep ==
  ASSUME IInv, StatusInv, [Next]_vars
  PROVE  StatusInv'
<1>0. TypeOK /\ CallerInv
  BY DEF IInv
<1>1. ASSUME NEW m \in InputCounts, NEW hw \in HardwareThreads,
             NEW refused \in SUBSET (0 .. m - 1), Call(m, refused, hw)
      PROVE  StatusInv'
  <2> DEFINE threads == ChooseThreadCount(m, hw)
  <2>1. k' = threads /\ status' = [t \in 0 .. threads - 1 |-> OK]
    BY <1>1 DEF Call
  <2> HIDE DEF threads
  <2>2. \A t \in Shard' : status'[t] = OK
    BY <2>1 DEF Shard
  <2> QED
    BY <2>2, Reasons DEF StatusInv, Reason, OK, OpError, ElementMapSpec!Environment
<1>2. ASSUME CallerStep \/ CallerThrows \/ UNCHANGED vars PROVE StatusInv'
  <2>1. status' = status /\ Shard' = Shard
    BY <1>2 DEF CallerStep, PlanShard, SpawnWorker, StopSpawning, NextLeftover,
                JoinWorkers, Return, CallerThrows, vars, caller, shards, Shard
  <2> QED
    BY <2>1 DEF StatusInv, Reason, OK, OpError, ElementMapSpec!Environment
<1>3. ASSUME NEW t \in Shard, RunShard(t) PROVE StatusInv'
  <2>1. Shard' = Shard /\ \A u \in Shard \ {t} : status'[u] = status[u]
    BY <1>0, <1>3, ShardStepFrame
  <2>2. \/ status'[t] = status[t]
        \/ status'[t] \in {CloneError, Exhausted, Exception}
        \/ status'[t] = OpError(idx[t])
    BY <1>0, <1>3 DEF RunShard, BeginShard, EnterLoop, CloneFails, OpSucceeds,
                      OpRefuses, OpThrows, FlushOnExit, TypeOK
  <2>3. idx[t] \in Nat
    BY <1>0 DEF TypeOK
  <2>4. Reason(status'[t])
    BY <2>2, <2>3, Reasons DEF StatusInv
  <2>5. \A u \in Shard' : Reason(status'[u])
    BY <2>1, <2>4 DEF StatusInv
  <2> QED
    BY <2>5 DEF StatusInv, Reason, OK, OpError, ElementMapSpec!Environment
<1> QED
  BY <1>1, <1>2, <1>3 DEF Next, NewCall

LEMMA StatusInvHolds == Spec => [](IInv /\ StatusInv)
<1>1. IInv /\ StatusInv /\ [Next]_vars => StatusInv'
  BY StatusStep
<1> QED
  BY <1>1, StatusInit, Invariance, PTL DEF Spec

\* Every step but a new call and a return is internal.
LEMMA InternalStep ==
  ASSUME IInv, IInv',
         \/ PlanShard \/ SpawnWorker \/ StopSpawning \/ NextLeftover
         \/ JoinWorkers \/ (\E t \in Shard : RunShard(t))
  PROVE  phase # "done" /\ phase' # "done" /\ UNCHANGED <<n, bad>>
<1>1. ASSUME NEW t \in Shard, RunShard(t)
      PROVE  phase # "done" /\ phase' # "done" /\ UNCHANGED <<n, bad>>
  BY <1>1, ShardStepFrame DEF IInv, caller
<1> QED
  BY <1>1 DEF PlanShard, SpawnWorker, StopSpawning, NextLeftover, JoinWorkers

\* Return ends the abstract call: with every image in place, with the refusal
\* of the least position the cipher refuses, or with a failure.
LEMMA ReturnEndsCall ==
  ASSUME IInv, IInv', StatusInv, Return
  PROVE  ElementMapSpec!Next
<1>1. /\ phase # "done" /\ phase' = "done" /\ UNCHANGED <<n, bad, outputs>>
      /\ Position' = Position
  BY DEF Return, shards, Position
<1>2. Reason(result')
  <2>1. Failed # {} => FirstFailure \in Shard
    BY FirstFailureFails DEF IInv, Failed
  <2>2. result' = OK \/ \E t \in Shard : result' = status[t]
    BY <2>1 DEF Return
  <2> QED
    BY <2>2, Reasons DEF StatusInv
<1>3. /\ result'.kind = "OK" =>
           bad = {} /\ \A i \in Position : outputs[i] = Transformed(i)
      /\ result'.kind = "OP" =>
           result'.at \in bad /\ \A i \in bad : result'.at <= i
  BY <1>1 DEF IInv, OutcomeIsSequential
<1>4. outputs \in [Position -> Position \cup {Empty}]
  BY DEF IInv, TypeOK
<1>5. CASE result' = OK
  <2>1. bad = {} /\ \A i \in Position : outputs[i] = i
    BY <1>3, <1>5 DEF OK, Transformed
  <2>2. outputs' = [i \in 0 .. n - 1 |-> i]
    BY <1>1, <1>4, <2>1 DEF Position
  <2>3. ElementMapSpec!Succeed
    BY <1>1, <1>5, <2>1, <2>2
       DEF ElementMapSpec!Succeed, ElementMapSpec!OK, ElementMapSpec!Images,
           Returned, OK
  <2> QED
    BY <2>3 DEF ElementMapSpec!Next
<1>6. CASE result' = OpError(result'.at)
  <2>1. result'.at \in bad /\ (\A i \in bad : result'.at <= i) /\ result' # OK
    BY <1>3, <1>6 DEF OpError, OK
  <2>2. ElementMapSpec!Refuse(result'.at)
    BY <1>1, <1>6, <2>1
       DEF ElementMapSpec!Refuse, ElementMapSpec!Refusal, ElementMapSpec!Nothing,
           Returned, OpError, Empty
  <2> QED
    BY <2>1, <2>2 DEF ElementMapSpec!Next
<1>7. CASE result' \in ElementMapSpec!Environment
  <2>1. result' # OK
    BY <1>7 DEF ElementMapSpec!Environment, OK
  <2>2. ElementMapSpec!Fail
    BY <1>1, <1>7, <2>1
       DEF ElementMapSpec!Fail, ElementMapSpec!Nothing, Returned, Empty,
           ElementMapSpec!Environment
  <2> QED
    BY <2>2 DEF ElementMapSpec!Next
<1> QED
  BY <1>2, <1>5, <1>6, <1>7 DEF Reason

LEMMA RefinementStep ==
  ASSUME IInv, IInv', StatusInv, [Next]_vars
  PROVE  [ElementMapSpec!Next]_(ElementMapSpec!vars)
<1>1. ASSUME NEW m \in InputCounts, NEW hw \in HardwareThreads,
             NEW refused \in SUBSET (0 .. m - 1), Call(m, refused, hw)
      PROVE  ElementMapSpec!Next
  <2>1. phase = "done" /\ phase' # "done" /\ n' = m /\ bad' = refused
    BY <1>1 DEF Call
  <2>2. ElementMapSpec!Call(m, refused)
    BY <2>1 DEF ElementMapSpec!Call, ElementMapSpec!OK, ElementMapSpec!Nothing,
                Returned, OK, Empty
  <2> QED
    BY <2>2 DEF ElementMapSpec!Next
<1>2. ASSUME Return PROVE ElementMapSpec!Next
  BY <1>2, ReturnEndsCall
<1>3. ASSUME \/ PlanShard \/ SpawnWorker \/ StopSpawning \/ NextLeftover
             \/ JoinWorkers \/ (\E t \in Shard : RunShard(t))
      PROVE  UNCHANGED ElementMapSpec!vars
  <2>1. phase # "done" /\ phase' # "done" /\ UNCHANGED <<n, bad>>
    BY <1>3, InternalStep
  <2> QED
    BY <2>1 DEF ElementMapSpec!vars, Returned
<1>4. ASSUME UNCHANGED vars PROVE UNCHANGED ElementMapSpec!vars
  BY <1>4 DEF vars, caller, shards, ElementMapSpec!vars, Returned
<1>5. ASSUME CallerThrows PROVE ElementMapSpec!Next
  <2>1. phase # "done" /\ phase' = "done" /\ result' = Exception /\ UNCHANGED <<n, bad>>
    BY <1>5 DEF CallerThrows
  <2>2. ElementMapSpec!Fail
    BY <2>1 DEF ElementMapSpec!Fail, ElementMapSpec!Nothing, Returned, Empty,
                ElementMapSpec!Environment, Exception, OK
  <2> QED
    BY <2>2 DEF ElementMapSpec!Next
<1> QED
  BY <1>1, <1>2, <1>3, <1>4, <1>5 DEF Next, NewCall, CallerStep

\* The sharded transform, with any numbers of threads and any schedule,
\* implements the element map that happens at once (its safety part; that every
\* call returns is model-checked).
THEOREM RefinesElementMap ==
  Spec => ElementMapSpec!Init /\ [][ElementMapSpec!Next]_(ElementMapSpec!vars)
<1>1. Init => ElementMapSpec!Init
  BY DEF Init, ElementMapSpec!Init, ElementMapSpec!OK, ElementMapSpec!Nothing,
         Returned, OK, Empty
<1>2. IInv /\ IInv' /\ StatusInv /\ [Next]_vars =>
        [ElementMapSpec!Next]_(ElementMapSpec!vars)
  BY RefinementStep
<1> QED
  BY <1>1, <1>2, StatusInvHolds, PTL DEF Spec
=============================================================================
