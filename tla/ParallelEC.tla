----------------------------- MODULE ParallelEC -----------------------------
(***************************************************************************)
(* TransformElements of cpp/parallel_ec.cpp: one elliptic-curve operation  *)
(* applied to every input, sharded over the calling thread and up to       *)
(* k - 1 workers, with the ProgressCounter of cpp/progress.h.              *)
(*                                                                         *)
(* A shard is a contiguous range of input positions.  Shard 0 always runs  *)
(* on the calling thread with the caller's own ("primary") cipher.  The    *)
(* others run on a worker each, or, from the first std::thread whose       *)
(* construction throws, one after the other on the calling thread; each of *)
(* them builds its own cipher from a transport copy of the key.            *)
(*                                                                         *)
(* The image of inputs[i] under the operation is named by the position i,  *)
(* so that an output in the wrong place shows.  bad is the set of          *)
(* positions the operation refuses (a point off the curve, say): that is   *)
(* a function of the input, while a throw (bad_alloc), a clone that fails  *)
(* and a thread that cannot be created happen at any time.  The calling    *)
(* thread may fail to allocate what it lays the shards out in.             *)
(***************************************************************************)
EXTENDS Integers, FiniteSets

CONSTANTS
  InputCounts,         \* the numbers of inputs a call may get
  HardwareThreads,     \* what std::thread::hardware_concurrency may return
  MinInputsForThreads, \* kMinInputsForThreads, 1024 in the code
  MinInputsPerThread,  \* kMinInputsPerThread, 512 in the code
  Batch                \* ProgressCounter::kBatch, 256 in the code

ASSUME ParallelECAssumption ==
  /\ InputCounts \subseteq Nat
  /\ HardwareThreads \subseteq Nat
  /\ MinInputsForThreads \in Nat
  /\ MinInputsPerThread \in Nat \ {0}
  /\ Batch \in Nat \ {0}

VARIABLES
  phase,     \* where the calling thread is
  n, bad,    \* the inputs of the call
  k,         \* num_threads
  ranges,    \* ranges[t]: the positions of shard t
  planned,   \* the shards whose range is laid out
  start,     \* first position no range covers yet
  spawned,   \* next_shard: shards 1 .. spawned - 1 have a worker
  cur,       \* the shard the calling thread is running
  pc,        \* where each shard is
  idx,       \* the next position of each shard
  cipher,    \* the cipher each shard uses
  pending,   \* the count each shard's ProgressCounter has not published
  status,    \* shard_status
  outputs,   \* (*outputs)[i]
  slot,      \* the caller's progress slot
  key,       \* the transport copy of the private key
  result     \* what the last call returned

caller == <<phase, n, bad, k, ranges, planned, start, spawned, cur>>
shards == <<pc, idx, cipher, pending, status, outputs, slot>>
vars   == <<caller, shards, key, result>>

-----------------------------------------------------------------------------
OK           == [kind |-> "OK",        at |-> -1]
OpError(i)   == [kind |-> "OP",        at |-> i]
CloneError   == [kind |-> "CLONE",     at |-> -1]
Exhausted    == [kind |-> "EXHAUSTED", at |-> -1]  \* ResourceExhaustedError
Exception    == [kind |-> "EXCEPTION", at |-> -1]  \* the call throws
Status       == [kind : {"OK", "OP", "CLONE", "EXHAUSTED", "EXCEPTION"},
                 at   : Int]

Empty          == -1     \* the std::string() outputs starts with
Transformed(i) == i

Shard    == 0 .. k - 1
Position == 0 .. n - 1

AtMost(a, b)  == IF a <= b THEN a ELSE b
AtLeast(a, b) == IF a >= b THEN a ELSE b

ChooseThreadCount(m, hw) ==
  IF m < MinInputsForThreads
  THEN 1
  ELSE AtLeast(1, AtMost(AtLeast(1, hw), m \div MinInputsPerThread))

-----------------------------------------------------------------------------
Init ==
  /\ phase = "done" /\ n = 0 /\ bad = {} /\ k = 1
  /\ ranges = [t \in 0 .. 0 |-> [first |-> 0, second |-> 0]]
  /\ planned = 0 /\ start = 0 /\ spawned = 1 /\ cur = 0
  /\ pc = [t \in 0 .. 0 |-> "done"]
  /\ idx = [t \in 0 .. 0 |-> 0]
  /\ cipher = [t \in 0 .. 0 |-> 0]
  /\ pending = [t \in 0 .. 0 |-> 0]
  /\ status = [t \in 0 .. 0 |-> OK]
  /\ outputs = [i \in {} |-> Empty]
  /\ slot = 0 /\ key = "none" /\ result = OK

(***************************************************************************)
(* A call: the slot is reset by the operation that makes it (ResetProgress *)
(* in psi_client.cpp, psi_server.cpp and psi_match.cpp), outputs is sized  *)
(* once, and a key copy is taken only if there will be more than one       *)
(* shard.  With one shard the loop runs on the primary cipher at once.     *)
(***************************************************************************)
Call(m, refused, hw) ==
  LET threads == ChooseThreadCount(m, hw) IN
  /\ phase = "done"
  /\ phase' = IF m = 0 THEN "return" ELSE IF threads <= 1 THEN "run" ELSE "plan"
  /\ n' = m /\ bad' = refused /\ k' = threads
  /\ ranges' = [t \in 0 .. threads - 1 |-> [first |-> 0, second |-> m]]
  /\ planned' = 0 /\ start' = 0 /\ spawned' = 1 /\ cur' = 0
  /\ pc' = [t \in 0 .. threads - 1 |->
              IF m > 0 /\ threads <= 1 THEN "begin" ELSE "idle"]
  /\ idx' = [t \in 0 .. threads - 1 |-> 0]
  /\ cipher' = [t \in 0 .. threads - 1 |-> 0]
  /\ pending' = [t \in 0 .. threads - 1 |-> 0]
  /\ status' = [t \in 0 .. threads - 1 |-> OK]
  /\ outputs' = [i \in 0 .. m - 1 |-> Empty]
  /\ slot' = 0
  /\ key' = IF m > 0 /\ threads > 1 THEN "live" ELSE "none"
  /\ result' = OK

(***************************************************************************)
(* One round of the loop that lays the ranges out: base inputs for every   *)
(* shard and one more for the first `remainder' of them.                   *)
(***************************************************************************)
RangeLength(t) == (n \div k) + (IF t < n % k THEN 1 ELSE 0)

PlanShard ==
  /\ phase = "plan" /\ planned < k
  /\ ranges' = [ranges EXCEPT ![planned] =
                  [first |-> start, second |-> start + RangeLength(planned)]]
  /\ start' = start + RangeLength(planned)
  /\ planned' = planned + 1
  /\ phase' = IF planned + 1 = k THEN "spawn" ELSE "plan"
  /\ UNCHANGED <<n, bad, k, spawned, cur, shards, key, result>>

\* Mutant: the spawning loop runs one round too many.
MoreToSpawnTooFar == spawned <= k

MoreToSpawn == spawned < k

SpawnWorker ==
  /\ phase = "spawn" /\ MoreToSpawn
  /\ pc' = [pc EXCEPT ![spawned] = "begin"]
  /\ spawned' = spawned + 1
  /\ UNCHANGED <<phase, n, bad, k, ranges, planned, start, cur,
                 idx, cipher, pending, status, outputs, slot, key, result>>

\* The loop ends with every worker started, or at the first std::thread
\* whose construction throws; either way the calling thread runs shard 0.
StopSpawning ==
  /\ phase = "spawn"
  /\ phase' = "run" /\ cur' = 0
  /\ pc' = [pc EXCEPT ![0] = "begin"]
  /\ UNCHANGED <<n, bad, k, ranges, planned, start, spawned,
                 idx, cipher, pending, status, outputs, slot, key, result>>

\* Mutant: the shard whose thread could not be created is skipped.
AfterShardSkips(t) == IF t = 0 THEN spawned + 1 ELSE t + 1

\* What the calling thread runs after shard t.
AfterShard(t) == IF t = 0 THEN spawned ELSE t + 1

NextLeftover ==
  /\ phase = "run" /\ pc[cur] = "done"
  /\ IF AfterShard(cur) < k
     THEN /\ cur' = AfterShard(cur)
          /\ pc' = [pc EXCEPT ![AfterShard(cur)] = "begin"]
          /\ UNCHANGED phase
     ELSE phase' = "join" /\ UNCHANGED <<cur, pc>>
  /\ UNCHANGED <<n, bad, k, ranges, planned, start, spawned,
                 idx, cipher, pending, status, outputs, slot, key, result>>

\* Mutant: the last worker is not joined.
WorkersButOne == 1 .. spawned - 2

Workers == 1 .. spawned - 1

JoinWorkers ==
  /\ phase = "join"
  /\ \A t \in Workers : pc[t] = "done"
  /\ phase' = "return"
  /\ UNCHANGED <<n, bad, k, ranges, planned, start, spawned, cur, shards,
                 key, result>>

\* Mutant: the last failure is kept.
LastFailure == CHOOSE t \in {u \in Shard : status[u] # OK} :
                 \A u \in Shard : status[u] # OK => u <= t

\* The first shard that failed decides what is returned.
Failed == {t \in Shard : status[t] # OK}
FirstFailure == CHOOSE t \in Failed : \A u \in Failed : t <= u

\* Mutant: the key is wiped on the path that returns OK only.
WipedOnSuccess == IF key = "live" /\ Failed = {} THEN "wiped" ELSE key

\* ~KeyWiper runs on every path that leaves the parallel section.
Wiped == IF key = "live" THEN "wiped" ELSE key

\* A bad_alloc on the calling thread, which nothing catches: of the outputs or the
\* key copy, before a shard is laid out or the only one run; of the ranges; or of
\* shard_status or the vector of threads, before the first worker.
CallerThrows ==
  /\ \/ phase = "plan" /\ planned = 0
     \/ phase = "spawn" /\ spawned = 1
     \/ phase = "run" /\ k = 1 /\ pc[0] = "begin"
  /\ result' = Exception
  /\ key' = Wiped
  /\ pc' = [t \in Shard |-> "idle"]
  /\ phase' = "done"
  /\ UNCHANGED <<n, bad, k, ranges, planned, start, spawned, cur,
                 idx, cipher, pending, status, outputs, slot>>

Return ==
  /\ phase = "return"
  /\ result' = IF Failed = {} THEN OK ELSE status[FirstFailure]
  /\ key' = Wiped
  /\ phase' = "done"
  /\ UNCHANGED <<n, bad, k, ranges, planned, start, spawned, cur, shards>>

-----------------------------------------------------------------------------
(***************************************************************************)
(* run_shard(t), on whichever thread it runs.                              *)
(***************************************************************************)
\* Mutant: shard 1 is given the primary cipher.
NeedsCloneFromTwo(t) == t > 1

NeedsClone(t) == t # 0

AtRangeEnd(t, i) == i >= ranges[t].second

\* A cipher in hand, the shard's ProgressCounter is built and the loop entered.
EnterLoop(t, c) ==
  /\ cipher' = [cipher EXCEPT ![t] = c]
  /\ idx' = [idx EXCEPT ![t] = ranges[t].first]
  /\ pc' = [pc EXCEPT ![t] = IF AtRangeEnd(t, ranges[t].first)
                             THEN "exit" ELSE "op"]
  /\ UNCHANGED <<status, pending, outputs, slot>>

BeginShard(t) ==
  /\ pc[t] = "begin"
  /\ EnterLoop(t, IF NeedsClone(t) THEN t ELSE 0)
  /\ UNCHANGED <<caller, key, result>>

\* CloneCipher returns an error or throws; no ProgressCounter exists yet.
CloneFails(t) ==
  /\ pc[t] = "begin" /\ NeedsClone(t)
  /\ \E e \in {CloneError, Exhausted} : status' = [status EXCEPT ![t] = e]
  /\ pc' = [pc EXCEPT ![t] = "done"]
  /\ UNCHANGED <<caller, idx, cipher, pending, outputs, slot, key, result>>

\* Mutant: a shard stores its batch instead of adding it.
IncrementStores(t) ==
  IF pending[t] + 1 >= Batch
  THEN slot' = pending[t] + 1 /\ pending' = [pending EXCEPT ![t] = 0]
  ELSE pending' = [pending EXCEPT ![t] = pending[t] + 1] /\ UNCHANGED slot

\* ProgressCounter::Increment, for shard t: one atomic fetch_add per Batch.
Increment(t) ==
  IF pending[t] + 1 >= Batch
  THEN /\ slot' = slot + pending[t] + 1
       /\ pending' = [pending EXCEPT ![t] = 0]
  ELSE /\ pending' = [pending EXCEPT ![t] = pending[t] + 1]
       /\ UNCHANGED slot

OpSucceeds(t) ==
  /\ pc[t] = "op" /\ idx[t] \notin bad
  /\ outputs' = [outputs EXCEPT ![idx[t]] = Transformed(idx[t])]
  /\ Increment(t)
  /\ idx' = [idx EXCEPT ![t] = idx[t] + 1]
  /\ pc' = [pc EXCEPT ![t] = IF AtRangeEnd(t, idx[t] + 1) THEN "exit" ELSE "op"]
  /\ UNCHANGED <<caller, cipher, status, key, result>>

OpRefuses(t) ==
  /\ pc[t] = "op" /\ idx[t] \in bad
  /\ status' = [status EXCEPT ![t] = OpError(idx[t])]
  /\ pc' = [pc EXCEPT ![t] = "exit"]
  /\ UNCHANGED <<caller, idx, cipher, pending, outputs, slot, key, result>>

\* An exception: the catch of run_shard makes it a shard error, while the
\* single-threaded loop has none and the call itself throws.
OpThrows(t) ==
  /\ pc[t] = "op"
  /\ status' = [status EXCEPT ![t] = IF k <= 1 THEN Exception ELSE Exhausted]
  /\ pc' = [pc EXCEPT ![t] = "exit"]
  /\ UNCHANGED <<caller, idx, cipher, pending, outputs, slot, key, result>>

\* Mutant: a shard that stops on an error publishes nothing.
FlushOnSuccess(t) ==
  /\ pc[t] = "exit"
  /\ slot' = IF status[t] = OK THEN slot + pending[t] ELSE slot
  /\ pending' = [pending EXCEPT ![t] = 0]
  /\ pc' = [pc EXCEPT ![t] = "done"]
  /\ UNCHANGED <<caller, idx, cipher, status, outputs, key, result>>

\* ~ProgressCounter publishes what is pending, whatever ended the loop.
FlushOnExit(t) ==
  /\ pc[t] = "exit"
  /\ slot' = slot + pending[t]
  /\ pending' = [pending EXCEPT ![t] = 0]
  /\ pc' = [pc EXCEPT ![t] = "done"]
  /\ UNCHANGED <<caller, idx, cipher, status, outputs, key, result>>

RunShard(t) ==
  \/ BeginShard(t)
  \/ CloneFails(t)
  \/ OpSucceeds(t)
  \/ OpRefuses(t)
  \/ OpThrows(t)
  \/ FlushOnExit(t)

-----------------------------------------------------------------------------
NewCall ==
  \E m \in InputCounts, hw \in HardwareThreads :
    \E refused \in SUBSET (0 .. m - 1) : Call(m, refused, hw)

CallerStep ==
  \/ PlanShard
  \/ SpawnWorker
  \/ StopSpawning
  \/ NextLeftover
  \/ JoinWorkers
  \/ Return

Next == NewCall \/ CallerStep \/ CallerThrows \/ \E t \in Shard : RunShard(t)

(***************************************************************************)
(* Once a call is made the calling thread keeps going where it can, and    *)
(* some runnable shard is always given the processor: less than what an    *)
(* operating system's scheduler gives each thread.  Nothing forces a call. *)
(***************************************************************************)
Spec ==
  /\ Init /\ [][Next]_vars
  /\ WF_vars(CallerStep)
  /\ WF_vars(\E t \in Shard : RunShard(t))

-----------------------------------------------------------------------------
Pc == {"idle", "begin", "op", "exit", "done"}

\* Every variable keeps its type; the shard functions are total on the shards.
TypeOK ==
  /\ phase \in {"plan", "spawn", "run", "join", "return", "done"}
  /\ n \in Nat /\ bad \subseteq Position /\ k \in Nat \ {0}
  /\ ranges \in [Shard -> [first : Nat, second : Nat]]
  /\ planned \in 0 .. k /\ start \in Nat
  /\ spawned \in 1 .. k /\ cur \in Shard
  /\ pc \in [Shard -> Pc]
  /\ idx \in [Shard -> Nat]
  /\ cipher \in [Shard -> Shard]
  /\ pending \in [Shard -> Nat]
  /\ status \in [Shard -> Status]
  /\ outputs \in [Position -> Position \cup {Empty}]
  /\ slot \in Nat
  /\ key \in {"none", "live", "wiped"}
  /\ result \in Status

(***************************************************************************)
(* "The output is identical for any thread count" (parallel_ec.cpp:52-56): *)
(* a call that returns OK has every image at its input's position, and one *)
(* that returns a refusal returns the one the sequential loop would have   *)
(* met first, however the shards interleaved and whatever else failed.     *)
(***************************************************************************)
OutcomeIsSequential ==
  phase = "done" =>
    /\ result.kind = "OK" =>
         bad = {} /\ \A i \in Position : outputs[i] = Transformed(i)
    /\ result.kind = "OP" =>
         result.at \in bad /\ \A i \in bad : result.at <= i

\* The thread that runs shard t: a worker of its own or the calling thread.
ThreadOf(t) == IF t \in Workers THEN t ELSE 0

\* A cipher's BN_CTX is not thread-safe (parallel_ec.h:41-46): two threads are
\* never inside an operation on the same cipher, and none but the calling
\* thread is ever inside one on the primary.
CipherConfined ==
  \A t, u \in Shard :
    pc[t] = "op" /\ pc[u] = "op" /\ cipher[t] = cipher[u]
      => ThreadOf(t) = ThreadOf(u)

\* No worker outlives the call, whatever ends it (std::terminate on a joinable
\* thread, writes to freed outputs), and a call that returns a status has left no
\* shard without having been run.
NoShardOutlivesCall ==
  phase = "done" /\ n > 0 => \A t \in Shard :
    \/ pc[t] = "done"
    \/ pc[t] = "idle" /\ result = Exception

\* Every return path wipes the key copy, and only after the last shard that
\* clones a cipher from it has done so.
KeyOutlivesClones ==
  /\ \A t \in Shard : pc[t] = "begin" /\ t # 0 => key = "live"
  /\ phase = "done" => key # "live"

\* At return the slot counts the elements processed, neither more (a batch
\* published twice) nor fewer (a batch lost when a shard stops early).
Processed == {i \in Position : outputs[i] # Empty}
ProgressIsExact == phase = "done" => slot = Cardinality(Processed)

\* Seen by a poller, the slot never runs ahead of the elements really processed
\* and never goes back within a call.
ProgressMonotone ==
  [][phase # "done" => slot <= slot' /\ slot' <= Cardinality(Processed')]_vars

(***************************************************************************)
(* The sharded transform implements one that happens at once, and every    *)
(* call returns: no shard waits for another, and the join cannot hang.     *)
(***************************************************************************)
Returned == phase = "done"
ElementMapSpec ==
  INSTANCE ElementMap WITH
    busy    <- ~ Returned,
    outcome <- IF Returned THEN result ELSE OK,
    image   <- IF Returned /\ result = OK THEN outputs ELSE [i \in {} |-> Empty]
ImplementsElementMap == ElementMapSpec!Spec
=============================================================================
