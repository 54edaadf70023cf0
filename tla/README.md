# A verification project for the OpenMined PSI library

This directory models the private set intersection library of this repository
(`src/private_set_intersection`) in TLA+, checks the models with TLC on small
instances and proves theorems about them with TLAPS.  Paths below are relative
to `src/private_set_intersection/`.

## The system

Two parties, a *client* and a *server*, hold a set of strings each.  Every
element is hashed to a point of the curve P-256 and raised to a party's secret
key; the two keys commute.  The server publishes its elements under its own key
(`CreateSetupMessage`), the client sends its elements under its own key
(`CreateRequest`), the server raises those to its key too (`ProcessRequest`) and
the client removes its own key and compares (`GetIntersection`,
`GetIntersectionSize`, `GetAssociationTable`, or the streamed `PsiMatch`).
Both sides fix at creation whether the *positions* of the intersection or only
its *size* may be learned (`reveal_intersection`).

| component | code | state it keeps | operations |
|---|---|---|---|
| element transforms, threaded | `cpp/parallel_ec.{h,cpp}`, `cpp/progress.h` | per call: shard ranges, per-shard ciphers and statuses, the outputs, a transport copy of the key, the caller's progress slot | `EncryptElements`, `ReEncryptElements`, `DecryptElements`; `ProgressCounter::Increment`, `Flush`; `ResetProgress` |
| client | `cpp/psi_client.{h,cpp}` | key (in the cipher), `reveal_intersection` | `CreateWithNewKey`, `CreateFromKey`, `CreateRequest`, `GetIntersection`, `GetIntersectionSize`, `GetAssociationTable`, `CreateMatch`, `GetPrivateKeyBytes` |
| server | `cpp/psi_server.{h,cpp}` | key (in the cipher), `reveal_intersection` | `CreateWithNewKey`, `CreateFromKey`, `CreateSetupMessage`, `ProcessRequest`, `GetPrivateKeyBytes` |
| streamed match | `cpp/psi_match.{h,cpp}` | phase, kept failure, two readers cut anywhere, the setup's elements, a batch, match bits and pairs | `AddSetupBytes`, `SealSetup`, `MatchResponsePiece`, `Finish` |
| Raw container | `cpp/datastructure/raw.{h,cpp}` | sorted encrypted elements | `Create`, `CreateFromProtobuf`, `Intersect`, `GetAssociationTable`, `ToProtobuf` |
| GCS container | `cpp/datastructure/{gcs,golomb}.{h,cpp}` | Golomb-compressed hashes, divisor, range | `Create`, `CreateFromProtobuf`, `Intersect`, `ToProtobuf` |
| Bloom container | `cpp/datastructure/bloom_filter.{h,cpp}` | bit array, number of hash functions | `Create`, `CreateEmpty`, `CreateFromProtobuf`, `Add`, `Check`, `Intersect`, `ToProtobuf` |
| Node addon | `napi/psi_napi.cpp` | per wrap: an owned native object or null; per environment: constructors, a cleanup hook | creation through an `External`, every client, server and match call, `delete`, finalizers, teardown |
| WebAssembly binding | `javascript/cpp/*` | none of its own | every call, messages passed in windows |
| JavaScript wrappers | `javascript/src/implementation/*.ts` | the native instance, or null after `delete` | every call, `delete` |
| C binding | `c/*.cpp` | none: contexts belong to the caller | every call, creation and `*_delete`; the buffers it returns are the caller's to free |
| Go, Rust bindings | `go/{client,server}`, `rust/src` | an owned context pointer or null | every call; `Destroy` and a finalizer, or `drop` |
| Python binding | `python/psi_bindings.cpp` | the object, owned by its Python wrapper | every call, with the interpreter lock released |

## How the parts interact

Everything is a call.  A binding parses bytes into a protobuf message, calls the
client or server object it owns, and serializes what comes back.  The client and
the server never call each other: the application carries setup, request and
response between them.  `psi_client.cpp`, `psi_server.cpp` and `psi_match.cpp`
call the threaded transforms in native builds; those share the caller's progress
slot, the outputs vector and the key copy between threads.  The Node addon and the
WebAssembly binding sit under the same TypeScript wrappers; Go and Rust call the C
interface, Python the C++ classes.

## Where the behaviour is hard

* **Threads.** A native build splits a transform over threads that share the
  output vector, the progress slot and the key copy, clone their ciphers while
  running, fail one by one, and may not even be created.
* **Messages cut anywhere.** `PsiMatch` reads two serialized messages in windows
  that end in the middle of a tag, a length or an element, decrypts in batches
  across those windows, and must give the result of the uncut messages.
* **Order of calls.** `PsiMatch` has four calls and three phases; any other order,
  and any refused input, must leave it failed for good.
* **In-place algorithms over repeats.** `Raw` sorts along the cycles of a
  permutation and joins two vectors with repeats on both sides, one of which comes
  from the other party in whatever order it was sent.
* **Messages that outlive their makers.** Setups, requests and responses carry no
  name of the key they were made with; the application may combine any three of
  them, with objects created anew in between.
* **Two modes.** What a client may learn and whether an answer keeps the order of
  its request rest on a flag held in two processes and compared once.
* **Native objects behind managed ones.** The bindings free native objects on
  `delete`, in finalizers, on drop and at environment teardown, while calls on them may be
  running, half created, or made on wrappers already emptied. The addon's code is unmapped
  when the last environment unloads it, and threads that used the crypto library run a
  destructor of that code when they exit.
* **Memory owned across languages.** Go copies arguments into C memory and frees what C
  returns, on success and on every error path.

PROJECT.json lists these hazards line by line.

## What makes each part correct

* *Threaded transforms*: the outcome is the sequential one; no two threads in one
  cipher; no shard outlives the call; the key copy outlives its last clone and no
  return leaves it unwiped; the progress slot is exact at the end and never ahead.
* *Streamed match*: exactly the whole, strictly ascending Raw setups are sealed;
  the result is a function of the two messages, not of their windows; a refusal is
  final; every search ends.
* *Raw*: sorted once, described by its permutation; no read out of bounds whatever
  the setup; no false pair or position; all pairs over an ascending setup.
* *Client and server*: results are true of the two sets, tell nothing when their
  parts do not belong together, and a size-only client learns a size only.
* *GCS*: the cursor ends where each word was written to end, whatever bytes it spans;
  exactly the hashes in both are found; nothing outside the string is touched.
* *Bloom filter*: no element put in is ever missed, by the server's filter or by one made
  from its message; a filter made for somebody has bits.
* *Bindings*: every native object is freed once and under no call (`Lifetime`, one abstract
  specification for all of them), a Go program calling `Destroy` as it may (below); a terminated worker leaves none behind; no destructor
  runs in unmapped code; a call leaves no buffer allocated except those named.

## Modules

| module | models | proofs |
|---|---|---|
| `ParallelEC` | `TransformElements`: planning of the ranges, spawning, `run_shard` on each thread, left-over shards, join, return; `ProgressCounter` | `ParallelEC_proofs` |
| `ElementMap` | the abstract specification of a transform: one atomic success, or one refusal, or one failure | implemented by `ParallelEC` (TLC; its safety also TLAPS) |
| `PsiMatch` | `PsiMatch` and its `EntryReader`, one action per round of a loop | `PsiMatch_proofs` |
| `PsiMatchGrammar` | reference: which byte strings are Raw setups, which elements they hold, what a response says | `PsiMatch_proofs` |
| `RawSort` | the cycle sort shared by `Raw::Create` and `Raw::GetAssociationTable` | `RawAssociation_proofs` |
| `RawAssociation` | `Raw::GetAssociationTable`: `RawSort`, then the join, one action per loop test | `RawAssociation_proofs` |
| `RawIntersect` | `Raw::Intersect` and `custom_set_intersection` | `RawIntersect_proofs` |
| `RawResults` | reference: what `Raw`'s results are, said of whole vectors | - |
| `Golomb` | `golomb_compress`, then `golomb_intersect` over its bytes, one action per round of a loop | `Containers_proofs` |
| `BloomFilter` | `BloomFilter`, on the server, in a message and on the client | `Containers_proofs` |
| `Bytes` | the bits of a byte, and how many bytes some bits need: what the two containers share | `Containers_proofs` |
| `PsiProtocol` | `PsiClient`, `PsiServer` and an application that carries their messages | `PsiProtocol_proofs` |
| `NativeAddon` | the Node addon under the TypeScript wrappers: who owns an object at each step, calls, `delete`, finalizers, worker teardown, thread-exit destructors, unmapping | `NativeAddon_proofs` |
| `Contexts` | the C interface as Go and Rust use it, and the Python binding: objects under the calls of several threads, and every buffer C allocates | `Contexts_proofs` |
| `Lifetime` | the abstract specification of a binding's objects: made once, freed once, under no call | implemented by `NativeAddon` and `Contexts` (TLC and TLAPS) |
| `MC*` | instances of the above | |

`RawAssociation` extends `RawSort`, so its sort is the very one proved about.
`PsiProtocol` takes the results of `Raw` from `RawResults`, which the runs
`raw_association` and `raw_intersect` show the loops to compute; that its element
transforms are maps is what `ParallelEC` implements (`ElementMap`). `NativeAddon` and
`Contexts` say nothing of what a call computes, and `PsiProtocol` nothing of where its
objects live: a call there is one on an object `Lifetime` lets it use.

### How state and actions correspond to the code

* **ParallelEC.** `n`, `k`, `ranges`, `status`, `outputs`, `key`, `result` are the
  locals of `TransformElements`; `pc[t]`, `idx[t]`, `cipher[t]`, `pending[t]` those
  of `run_shard(t)`; `slot` is the caller's progress word. `CallerStep` is the
  calling thread outside a shard, `RunShard(t)` one step of the shard on whatever
  thread runs it. Between entering an operation on a cipher and its result other
  threads may step. Clones, operations and thread creation may fail at any point.
  `CallerThrows` is the calling thread's own exception: while it makes its vectors, before
  the first thread is started (one that comes later is caught: by the loop that creates
  threads or by the shard's handler), or in the loop of a call of one thread, which catches
  nothing. `KeyWiper` and the frame end with it.
  A call of one thread takes the same path as shard 0 alone, as the code's two
  loops do the same. `bad` is the set of inputs the curve refuses.
* **PsiMatch.** Variables keep the members' names; `window` is the argument of the
  call in progress and `pc` the place in it. A byte is a number, an element a short
  sequence; `Decrypt` is any map, and may refuse. An action is one round of
  `AddSetupBytes`, `Feed` or `FindInSetup`, so a failure in the middle of a window
  leaves exactly the members the code leaves. An exhausted memory is a refusal that is kept
  (`DecryptExhausted`) where the transforms catch it, in a batch of at least
  `MinInputsForThreads`. In a smaller one, or before the threads start, it unwinds through
  `MatchResponsePiece` without `Fail` (`DecryptThrows`), and the call ends `thrown`. Nothing
  follows in the model: the Node addon and the WebAssembly build
  (`javascript/cpp/BUILD:15`) catch nothing on the way, so the process ends. A C++ program
  that catches it and goes on with the object is outside of the model.
* **PsiMatchGrammar.** What is legal is said of whole messages, with an order of its own on
  elements (`Precedes`, by the first byte that differs), not with the model's comparison
  (`Less`); `SameOrder` proves the two one. Setups with bytes above 127 are among those of
  the runs, so a signed comparison would refuse a legal one.
* **RawSort, RawAssociation, RawIntersect.** The loops' variables under their names
  (`i`, `j` of the join are `left`, `right`). `std::sort` by element is any sorting
  permutation, since equal elements may come in any order; `std::sort` of pairs in
  `Intersect` is the only one there is. `encrypted` is any vector: the client never
  sorts it.
* **Golomb.** The locals of the two functions under their names. A byte is the set of its
  bits that are 1; the floating-point estimate of `div` is any parameter; `sorted_arr` is
  any ascending vector, the client's with its positions as the second components.
* **BloomFilter.** A filter is its number of functions, its number of bytes and the bytes,
  each as the set of its bits that are 1; `index / 8` and `1 << (index % 8)` are the byte and
  the bit that `SetBits` ors and `Check` tests. A write outside of the string would add a byte
  to it, which `TypeOK` rules out. The two SHA-256 digests of an element are any two numbers;
  the rate is log2(1 / fpr) in hundredths, and a rate that is not a number is not among them.
  A reduction modulo zero ends the process (`aborted` is the filter it happened in), as
  a failed check of the big-number library does. Of the messages the server may make, any
  one is followed.
* **PsiProtocol.** A point is an item and the exponent each key has in it. Once
  created an object never changes, so a call is one step. The messages made so far
  stay available for ever: any of them may be processed at any later time, again, or
  never. A filter answers yes to all that was put in it and possibly to every other
  item under its server's key. Where the code sorts points, they come in any order that
  sorts them, for any order of the points' bytes. Of the rate a filter is made with, corrected
  for the number of client inputs, only matters whether it is inside of (0, 1), outside, or
  not a number: 0 / 0 fails no comparison and so is let in, and what is then converted to an
  integer is undefined, so no answer of such a filter is modelled unless it holds nothing. Each message carries, for the properties
  only, what it was made of and with.
* **NativeAddon.** `held[o]` says which of the three pointers to an object is not null: the
  local of `Wrap`, the `External`'s, the wrap object's; `shells[o]` which of the two
  JavaScript objects exist, each with a finalizer; `wrapper[o]` the TypeScript object and its
  `_instance`. `WrapServer` and its like are the two steps `External::New` and
  `constructor.New`, each of which may throw; a script may be terminated between any two
  steps, a call in progress first returns. `armed[e]` is the crypto library's thread-exit
  destructor on an environment's own thread, which the cleanup hook (`Drain`) takes away;
  the threads of an operation (`shards`) exit with theirs before it returns. When the garbage
  collector runs, and in which order, is left open; the order of Node's teardown (hooks,
  finalizers, unload, thread exit) is that stated at `psi_napi.cpp:717-739`, and external.
* **Contexts.** `context[o]` is whether the wrapper's pointer is not null. A call has three
  steps: the wrapper reads its pointer and copies the arguments (`Enter`), C runs and returns
  on one of its paths (`ReturnFromC`), the wrapper copies the result out and frees
  (`Finish`). Per C function the sets of buffers it may return with stand for its success and
  error paths. `GoFinalize` may come once no step of a method still to come may use the
  receiver (`KeepsReceiver`), on success or on error. Per method `receiver` says after which
  outcomes it does: `GetIntersection`, `GetIntersectionSize` and `GetPrivateKeyBytes` use it
  for an error alone, by a helper that is a method of it; while C runs, the outcome is open,
  so Go's compiler keeps it. A method that used it on no path would let the finalizer
  free the object under the call (the mutant `GoClientKeyAlone`). Rust's borrow and Python's
  reference do the same. `Destroy` tests the pointer, lets C free and then sets the pointer,
  without a lock (`GoDestroy`, `GoDelete`, `GoClear`): another goroutine's `Destroy` or call
  between those steps would free twice or use what is freed. So both are taken to be kept off
  by the program (`NoCallOn`, `NoDestroyOn`): an assumption about the program, since nothing in
  `go/client/client.go:286-291` sees to it. The finalizer needs no such assumption.

## Runs

| run | asks | instance |
|---|---|---|
| `parallel_ec` | every interleaving of the shards with every failure | 0, 1 or 5 inputs, up to 3 threads, batch of 2 |
| `psi_match_framing` | which setups are sealed, and that a refusal is final | 9 setups of at most 8 bytes in every cut, bytes above 127 among them, stray bytes, calls in any order |
| `psi_match_matching` | that the result is that of the messages | 5 setups, a response in every cut, repeated or broken by stray bytes, batches of 2 |
| `raw_association` | the cycle sort and the join | up to 3 elements on each side of 3 values, every sorting permutation, any setup order |
| `raw_intersect` | the merge | up to 4 and 3 elements of 3 values, any setup order |
| `golomb` | words across bytes, and the search in them | up to 3 and 2 hashes of 6, 0 to 4 remainder bits, bytes of 3 bits |
| `bloom_filter` | what a filter forgets, and when it divides by zero | 2 elements, 16 pairs of digests, bytes of 2 bits, 2 rates and one refused |
| `bloom_filter_parse` | a comment on `CreateFromProtobuf` (violated) | as above |
| `psi_protocol` | what the parties learn | 2 keys a side, 2 requests, 1 setup, 2 responses, repeats on both sides |
| `native_addon` | objects and threads of the addon under termination at any moment | a main thread and a worker, a server, a client and a match, 1 extra thread per operation |
| `contexts` | objects and buffers under calls of several threads | 2 interchangeable threads, one object of each of Go, Rust and Python, each a client or a server |
| `contexts_python` | a comment on shared ciphers (violated) | 2 threads, one Python object |

Every property of a passing run has a mutant in PROJECT.json: a plausible bug in
the modelled code with which TLC finds the property violated.

**Why these bounds.** Three threads are the least with two workers besides the
caller, and with five inputs the ranges differ in length, so a remainder is spread;
a batch of two lets a shard publish inside its loop, at its end, or both, where the
code has 256. The thresholds for threads (1024, 512) are scaled to 2 and 1 and keep
their ratio. Elements of two bytes have a strict prefix, an empty element and
both directions of the byte order; two-byte varints have a continuation, an
over-long form and a second byte that must be refused (the code's five-byte case is the same
test at another position, covered as it is by the theorems, which fix no number of bytes);
three elements of a response overfill a batch of two. A setup with more elements than a
result can number is in no run and in the theorems alone. Three elements on each side give a cycle of each length up to three next
to elements already in place and a run of two repeats on both
sides with another element before or after it. With bytes of three bits and up to four
bits of remainder, a word lies inside a byte, ends with it, spans two or three, or is
followed by another in the same byte, and its remainder is absent, shorter than a byte, as long
or longer. With bytes of two bits, two hash functions hit one bit, one byte or two bytes,
and filters of one to three bytes arise. In `psi_protocol` a second key on
each side is what makes a message stale; one setup suffices since the server may be
created anew after it; two responses are needed to compare them. The keys of a side
are interchangeable, which the symmetry set uses; liveness is checked by no run that
has one. The threads of `contexts` are interchangeable too: both its properties are about
single steps. In `native_addon` a second environment is what keeps the code mapped or not when the
worker exits, and one object of each class lets a match outlive its client; one thread beside
the caller suffices for one to exit before or after another step. In `contexts` two threads
are what a call and a finalizer, or two calls, need. Both are proved for any number of objects,
environments and threads.

**Fairness.** `ParallelEC`: weak fairness of the calling thread and of the running
shards: the operating system runs every thread, and none waits for anything but
`join`. `PsiMatch`, `RawAssociation`: weak fairness of the next step of a call in
progress, on the one thread that made it; nothing makes the application call again.
`NativeAddon`: weak fairness of what goes on by itself once started (native code returns,
threads exit, a terminated worker is torn down) and of the finalizers that teardown runs;
nothing makes a script act or the collector run before that. The others assume none and
claim no progress.
Deadlock is checked except in the two `Raw` runs and `golomb`, which end when their
call returns, in the `bloom_filter` runs, where the process may abort, in the `psi_match` runs, where an exception may end it, and in
`native_addon` and the `contexts` runs, which end when every object has been made and freed.

### Findings

Shown by a run:

* `CreateFromProtobuf` of the Bloom filter is documented to refuse empty bits and a number
  of functions that is not positive (`cpp/datastructure/bloom_filter.h:63-64`); it tests
  neither (`bloom_filter.cpp:69`). The bits were empty because `CreateEmpty` lets
  `max_elements` be zero (`bloom_filter.cpp:55`), which its own comment and message rule
  out (`bloom_filter.h:55-56`); `Create` makes such a filter when neither side has elements.
* `cpp/parallel_ec.h:40-41` says that a cipher cannot be used from several threads. The
  Python binding releases the interpreter lock around every call that works with the cipher
  (`python/psi_bindings.cpp:136`), so two Python threads that share a client or a server are
  inside its one cipher at once.

Met while modelling, visible in one definition and so without a run:

* `createRequest` of the JavaScript wrapper is documented to sort its result
  (`javascript/src/implementation/client.ts:66-67`); `CreateRequest` keeps the order
  of the inputs (`cpp/psi_client.cpp:129`), and identifier mode depends on it.
* `processRequest` is documented to return a sorted array
  (`javascript/src/implementation/server.ts:125-126`); it is sorted in size-only mode
  alone (`cpp/psi_server.cpp:215`), as `cpp/psi_server.h:103-106` says.
* The Go binding frees neither the copy of a key it passes to `CreateFromKey` nor the one it
  receives from `GetPrivateKeyBytes`, and the C interface not the message whose
  serialization fails; `OnlyKeysAreLeft` says that nothing else is left allocated.

## Proofs

Everything below holds for every value of the constants that satisfies the named
assumptions of the modules.

**ParallelEC** (any number of inputs, threads and any batch size):
`TypeCorrect`, `OutcomeCorrect`, `CipherSafety`, `NoShardOutlives`, `KeySafety`;
`ProgressCorrect`, `ProgressNeverGoesBack`; `RefinesElementMap`. `OutcomeCorrect` and the
three after it come from one inductive invariant, `IInv`. `OutcomeIsSequential` says
something only of finished calls, so `IInv` has to say what holds on the way: the
ranges planned so far partition the inputs they cover (`RangesInv`); a shard has
written all of its range up to its index, none of it was refused, and a shard that
stopped early recorded a status, with the refused input, if that is why, the first
one of its range (`ShardInv`); which shards are whose and that
the caller joins only what it spawned (`CallerInv`); the key is live while a shard
may still clone (`KeyInv`); and a shard inside an operation uses the cipher
made for it (`CipherInv`). The return step then needs that the first
failing shard holds the first refused input when every shard before it succeeded
(`ReturnOutcome`), where the ranges' order meets the shards' statuses.
A call that ended has either all shards done or, when the calling thread threw, none at work
(`CallerInv`).
The progress slot has an invariant of its own, `ProgressInv`: the slot counts the positions
some shard has both processed and published, which are those before its index less its
pending ones. A step that publishes adds a stretch of a range, disjoint from all others as
the ranges are, so the count grows by its length. `RefinesElementMap` maps every step of the
sharded transform to a step or a stutter of `ElementMap`: all stutter but the new
call, which is its `Call`, and the return; it needs besides that a status is one of the reasons
`ElementMap` names (`StatusInv`).

**RawSort** (in `RawAssociation_proofs`; vectors of any length): `SortTypeCorrect`, `SortCorrect`,
`SortMovesOnce`. The invariant `SortInv` says that the permutation is injective and
sorts the input (`PermutationInv`); that the positions in place (visited or before the
current index) are closed under the permutation, but for the start of the cycle in
progress (`CycleInv`); and that a position in place holds its sorted element and every
other one still what it was given (`ElementsInv`). As the permutation is injective, the
next position of a cycle is therefore never one in place, and no element moves twice.

**RawAssociation** (vectors of any length, repeats on both sides): `NoReadOutOfBounds`,
`TableCorrect`. The invariant adds to `SortInv` where the join is and what it compared to get
there (`PlaceInv`), that what it reported are equal pairs it has passed, each once
(`PairsInv`), and that over an ascending setup every equal pair with either position passed
has been reported (`CoverInv`). The last is why the inner loop may go back to the first
repeat: `PlaceInv` keeps that all of the run from `firstRight` on equals the current element.

**RawIntersect** (vectors of any length, repeats on both sides): `IntersectionCorrect`. That
the merge has an order to follow is `SortedPairsExist`: a position's rank is the number of positions
below it, ranks are distinct, and listing positions by rank sorts them. The merge reads that
order and the setup (`VectorsInv`, `PlaceInv`); what it takes is common, passed and taken once
(`TakenOnce`). Over an ascending setup, once a side has an element in front, no value from
that element on has been passed more often on the other side (`LevelInv`): this is why an element passed without a partner has
none left, and a position is taken exactly if
it is one the reference names (`ChosenInv`). Over a strictly ascending setup each hit of the
setup is counted once (`CountInv`).

**PsiMatch** (any setup, response, windows and order of calls): all that its two runs check
but that calls return. The invariants build on each other.

* `RefusalsAreFinal`. A kept failure is the status last returned, and no call is in progress
  once there is one (`RefusalInv`); every call then returns it and changes nothing.
* `MatchTypesHold`. `ShapeInv` adds to the types how far a reader may be into a length or a
  body (`BodyInv`, `LengthInv`) and that the batch has room wherever an entry may still be
  added (`BatchInv`).
* `MatchesAreExact`. What has been received is what has been decrypted and then the batch
  (`ReceivedInv`); the setup ascends strictly (`StrictlyAscends`), so what the binary search
  has excluded is not the element (`SearchInv`); the bits and the pairs are those of the
  entries whose search has ended, each counted from the start of the response (`StandInv`).
* `SealedSetupsAreWhole`, `NothingLegalIsRefused`, `ResultsAreOfMessages`, which say of whole
  messages what the readers do byte by byte (`GrammarInv`). What was sent is what was consumed
  and then the window (`WindowInv`), and the raw field's header is read up to there (`HeaderInv`).
  The state of a reader (`ReaderAt`) says that the entries it gave are the first entries of
  *every* message that goes on from what it has read, and what it holds of the next one. So an
  accepted byte keeps it true, and a refused byte is one with which no run of entries
  goes on (`NothingFollows`): the same step of the proof gives both directions.
  `NothingLegalIsRefused` is about the messages in the constant `LegalSetups`, which
  `LegalSetupsAssumption` requires to be whole setups by the grammar; any set of them will do.
  The grammar is a recursive function over the positions of a message. That it exists, and
  equals what its definition says (`EntriesUnfold`), is proved without induction, by taking
  the least distance from the end at which it would not (`LeastElement`), as are the sums of varint parts (`VarintSum`).

**PsiProtocol** (any items, inputs, keys and number of messages): `ResultsAreTrue`,
`TableRelatesRows`, `MatchIsOneShot`, `StrangersNeverMatch`, `PositionsStaySecret`,
`AnswersHideOrder`: all that the run `psi_protocol` checks. The invariant says of every message
made so far what its points are in terms of the keys and inputs it was made of, whatever was
created anew since: a setup and an answer are a permutation of them, an answer that may tell
positions the identity (`SetupInv`, `FilterInv`, `RequestInv`, `ResponseInv`), any other one
sorted (`OrderInv`). `EqualPoints` then says when a decrypted point of a response is one of a
setup: only if all keys belong together, and then if the items are equal. The table needs,
besides, that a permutation of a finite set is onto. The sizes need counting without induction:
the members of a finite set of numbers have the ranks from 0 on, each once (`Ranks`), so a
position of a permuted vector goes to the one with its item and its rank, and this is a
bijection between the common positions (`SameCommon`). For the order, the same map between two
ascending vectors of the same items would take the first `a` positions into the first `a - 1`
wherever they differed (`NothingLarger`), so they are equal (`SortedIsUnique`).

**BloomFilter** (in `Containers_proofs`; any elements, digests, rates and sizes, any order of
calls): `FilterTypesHold`,
`NothingIsForgotten`, `NonemptyFiltersNeverAbort`. Of each of the three filters, the server's, the
message's and the client's, the invariant says that its bytes are as many as it was made with,
that what was put in it is found, and that it has bytes if it was made for somebody or holds
something (`FilterInv`); of an answer that it names in order what it must (`AnswerInv`). A bit
of the filter lies in one of its bytes (`ByteOfBit`), and setting bits takes none from a byte
(`SetBitsKeeps`).

**Golomb** (in `Containers_proofs`; any hashes, with repeats, any number of remainder
bits, any positive number of bits in a byte): `BytesStayInBounds`, `CursorFollowsTheWords`, `IntersectionFound`: all
that the run `golomb` checks. No conjunct of the run's invariants is inductive: what the cursor
may touch depends on where the words lie, what a word says on no other word having written into
it, and what is found on every word read so far. The invariant `GolombInv` goes in that order.

* *Where words lie.* A word ends at the sum of the lengths up to it (`EndOf`), which is the end
  of the word before and the word's own length (`Words`). So words follow each other
  without overlap (`WordsInOrder`), and a bit within a word is no other word's (`OwnBits`).
* *Writing.* The bits that are one are those of the words up to the hash before, and of the
  present word's rest those below `binaryIdx` (`WriteInv`, `CopyInv`). When the writer is
  done, the string is the words' and nothing else (`StringInv`).
* *Reading.* From the end of the last word read only zeros have been passed (`UnaryInv`), so
  the next one ends the unary part of the next word (`NextOne`); the bits read of its rest are
  the rest modulo `2^binaryIdx` (`ReadUpTo`, `MoreBits`). The cursor therefore ends each
  word where the writer did, and the sum kept is the word's hash.
* *Searching.* No written hash below the one read is among the client's that are left
  (`Past`, `MatchInv`), as both sides ascend; so the positions found are exactly those, among
  the client's passed so far, whose hash was written, each once (`ResInv`).

What holds of powers of two and of sums would be shown by induction, which is not to be had
here. `2^n` is counted instead, as the number of subsets of a set of `n` (`Subsets`,
`Power`), and two sums are compared on a smallest set on which they would differ (`TotalAdds`,
`TotalSame`).

**NativeAddon** (any environments, objects and threads): `TypeCorrect`, `DeletionTracked`,
`UnloadSafe`, and `LifetimeRefined`, that the addon implements `Lifetime`. The invariant: an
object made and not freed has exactly one owner, and a wrapper that is live has its wrap's
pointer (`OwnerInv`); a call keeps its environment alive and its object held, threads run only
under an operation, and an environment past its cleanup hook is not armed (`CallInv`). A free
is then the reset of the one pointer left, under no call.

**Contexts** (any threads and objects): `BuffersAreFreed`, and `LifetimeRefined`, for programs
that keep Go's `Destroy` apart as above. The
invariant: an object made is freed exactly if its context is null (`ContextInv`), but between the
two steps of a `Destroy`, which has the object to itself; a call inside C has a context, and has allocated or may still allocate only what its language's wrapper
frees or the property lists (`CallInv`).

**Model-checked only.** Liveness, which is out of the prover's reach: `CallReturns`,
`JoinEnds`, `TeardownFreesAll`, and of `ImplementsElementMap` the part that says every call
returns. The two runs that expect a violation have, of course, no theorem.

## Not modelled

* The curve, the hash and the ciphers: third-party code
  (`private_join_and_compute`, BoringSSL), taken to be a commuting, injective
  exponentiation. Collisions of hashes appear only as a filter's extra answers.
* Protobuf and Abseil: third-party code. What `ParseFrom*` accepts is not modelled
  except where `PsiMatch` reads the bytes itself.
* Failures of the element transforms inside the one-shot calls: `ParallelEC` has them,
  `PsiProtocol` does not.
* Floating-point arithmetic: the estimate of `div`, the corrected false-positive rate, and
  how often a filter is wrong, which is a probability.
* The conversions of the bindings: bytes to messages and back, strings, arrays. In the Node
  addon an argument's getter may run script while it is read; that is left out. The
  WebAssembly binding is such conversions only and has no module: the windows in which it
  passes messages to `PsiMatch` are among the cuts the `psi_match` runs take.
* The array a JavaScript caller passes to `createSetupMessage` and finds the permutation
  appended to (`server.ts:113`): what it held before is the caller's affair.
* The main environment's teardown: it ends with the process.
* Allocation failures in the C binding, whose `malloc` results are not tested, and a
  Go program that calls `Destroy` under a call of its own or twice at once. A C++ caller that
  catches an exception of `MatchResponsePiece` and goes on with the match. Go's `CreateRequest` of no
  inputs, which panics before C is called (`go/client/client.go:153`).
* That Python's `GetPrivateKeyBytes` keeps the interpreter lock: in the model every call
  releases it, which only adds interleavings.
* What Node, the Go runtime, Rust's borrow checker and pybind11 guarantee of finalizers,
  moves and references: external, and taken as their documentation and the comments in the
  code state it.
* Build files, releases, benchmarks: no behaviour of the library.

## Plan

Done, each with its proofs: (A) `ParallelEC`, `ElementMap`; (B) `PsiMatch`,
`PsiMatchGrammar`; (C) `RawSort`, `RawAssociation`, `RawIntersect`; (D) `PsiProtocol`;
(E) `Golomb`, `BloomFilter`; (F) `NativeAddon`, `Lifetime`; (G) `Contexts`.

Left to model: failures of the transforms in `PsiProtocol`; getters that run inside the addon's argument conversion.

Left to prove: no safety property that a passing run checks. Liveness stays with TLC.
