----------------------------- MODULE NativeAddon -----------------------------
(***************************************************************************)
(* The Node addon (napi/psi_napi.cpp) under the TypeScript wrappers        *)
(* (javascript/src/implementation): who owns a native PsiServer, PsiClient *)
(* or PsiMatch at each step from its making to its freeing, and the        *)
(* teardown of a worker that used it.                                      *)
(*                                                                         *)
(* A native object is owned by a local of Wrap, by the External that       *)
(* carries it to the constructor, or by the wrap object; the garbage       *)
(* collector finalizes the last two, in any order.  The crypto library     *)
(* registers a thread-exit destructor with each thread that used it, whose *)
(* code is unmapped when the last environment that loaded the addon has    *)
(* unloaded it.                                                            *)
(***************************************************************************)
EXTENDS Integers, FiniteSets

CONSTANTS
  Servers, Clients, Matches,  \* the native objects there may be of each class
  Envs,        \* the environments, each with its own JavaScript thread
  Main,        \* the environment of the main thread
  MaxShards,   \* bound: the threads an operation may start
  None

Objects == Servers \cup Clients \cup Matches

\* What a thread may be doing in the addon: passing an object on to its wrap,
\* or an operation on it.
Wrapping(o)  == [step |-> "wrap", of |-> o]
Operating(o) == [step |-> "operate", of |-> o]
Calls == [step : {"wrap", "operate"}, of : Objects]

ASSUME NativeAddonAssumption ==
  /\ MaxShards \in Nat
  /\ None \notin Objects \cup Envs
  /\ None \notin Calls

VARIABLES
  phase,      \* of each environment's life
  armed,      \* whether its thread has a thread-exit destructor of the crypto library's
  shards,     \* the threads its operation started that have not exited
  call,       \* what its JavaScript thread runs in the addon, or None
  home,       \* the environment an object was made in
  maker,      \* what a match was made by; itself for other objects
  shells,     \* which of an object's External and wrap exist
  held,       \* which pointers to the object are not null
  frees,      \* how often it was freed
  wrapper,    \* the TypeScript object: its _instance, and whether it is referenced
  refused,    \* whether the addon was ever called on a deleted instance
  crashed     \* whether a destructor ran in unmapped code

threads == <<phase, armed, shards, call>>
objects == <<home, maker, shells, held, frees, wrapper>>
vars    == <<threads, objects, refused, crashed>>

Init ==
  /\ phase = [e \in Envs |-> "absent"]
  /\ armed = [e \in Envs |-> FALSE]
  /\ shards = [e \in Envs |-> 0]
  /\ call = [e \in Envs |-> None]
  /\ home = [o \in Objects |-> None]
  /\ maker = [o \in Objects |-> o]
  /\ shells = [o \in Objects |-> {}]
  /\ held = [o \in Objects |-> {}]
  /\ frees = [o \in Objects |-> 0]
  /\ wrapper = [o \in Objects |-> "none"]
  /\ refused = FALSE /\ crashed = FALSE

-----------------------------------------------------------------------------
\* The addon is never unloaded on the main thread (psi_napi.cpp:725-726).
Loaded(e) ==
  \/ phase[e] \in {"running", "terminating", "drained"}
  \/ e = Main /\ phase[e] # "absent"

Mapped == \E e \in Envs : Loaded(e)

Load(e) ==
  /\ phase[e] = "absent"
  /\ phase' = [phase EXCEPT ![e] = "running"]
  /\ UNCHANGED <<armed, shards, call, objects, refused, crashed>>

RunsScript(e) == phase[e] = "running" /\ call[e] = None

\* The first operation of the crypto library on a thread registers its destructor.
UsesCrypto(e) == armed' = [armed EXCEPT ![e] = TRUE]

-----------------------------------------------------------------------------
\* The factory's StatusOr holds the object, or an error that the wrapper throws.
Make(e, o, by) ==
  /\ home[o] = None
  /\ UsesCrypto(e)
  /\ \/ /\ home' = [home EXCEPT ![o] = e]
        /\ maker' = [maker EXCEPT ![o] = by]
        /\ held' = [held EXCEPT ![o] = {"local"}]
        /\ call' = [call EXCEPT ![e] = Wrapping(o)]
     \/ UNCHANGED <<home, maker, held, call>>
  /\ UNCHANGED <<phase, shards, shells, frees, wrapper, refused, crashed>>

CreateServer(e, o) == o \in Servers /\ RunsScript(e) /\ Make(e, o, o)
CreateClient(e, o) == o \in Clients /\ RunsScript(e) /\ Make(e, o, o)

\* The wrapper's guard: _instance is not null.
InstanceIsSet(e, o) == wrapper[o] = "live" /\ home[o] = e

\* What ThrowIfDeleted tests: the wrap's pointer is null.
Deleted(o) == "wrap" \notin held[o]
CreateMatch(e, c, o) ==
  /\ o \in Matches /\ c \in Clients
  /\ RunsScript(e) /\ InstanceIsSet(e, c) /\ ~ Deleted(c)
  /\ Make(e, o, c)

-----------------------------------------------------------------------------
\* A pointer is reset: what it owned is freed.
Reset(o, pointer) ==
  IF pointer \in held[o]
  THEN /\ held' = [held EXCEPT ![o] = @ \ {pointer}]
       /\ frees' = [frees EXCEPT ![o] = @ + 1]
  ELSE UNCHANGED <<held, frees>>

\* Mutant: the local gave its pointer up before the External had it.
LocalLost(o) == held' = [held EXCEPT ![o] = {}] /\ UNCHANGED frees

LocalFreed(o) == Reset(o, "local")

EndCall(e) == call' = [call EXCEPT ![e] = None]

\* External::New takes the pointer over, or throws and the local frees it.
AdoptExternal(e, o) ==
  /\ call[e] = Wrapping(o) /\ "local" \in held[o]
  /\ \/ /\ shells' = [shells EXCEPT ![o] = {"external"}]
        /\ held' = [held EXCEPT ![o] = {"external"}]
        /\ UNCHANGED <<frees, call>>
     \/ /\ LocalFreed(o) /\ EndCall(e)
        /\ UNCHANGED shells
  /\ UNCHANGED <<phase, armed, shards, home, maker, wrapper, refused, crashed>>

\* Mutant: the constructor copies the pointer out of the External.
CopiedToWrap == {"external", "wrap"}

MovedToWrap == {"wrap"}

\* constructor.New moves the object into the wrap.  MakeOk and the wrapper's
\* constructor follow, unless one of them throws and the wrap is lost.
Construct(e, o) ==
  /\ call[e] = Wrapping(o) /\ "external" \in held[o]
  /\ shells' = [shells EXCEPT ![o] = {"external", "wrap"}]
  /\ held' = [held EXCEPT ![o] = MovedToWrap]
  /\ \E w \in {"live", "none"} : wrapper' = [wrapper EXCEPT ![o] = w]
  /\ EndCall(e)
  /\ UNCHANGED <<phase, armed, shards, home, maker, frees, refused, crashed>>

\* constructor.New throws: the object is left to the External's finalizer.
ConstructThrows(e, o) ==
  /\ call[e] = Wrapping(o) /\ "external" \in held[o]
  /\ EndCall(e)
  /\ UNCHANGED <<phase, armed, shards, objects, refused, crashed>>

WrapServer(e, o) == o \in Servers /\ (AdoptExternal(e, o) \/ Construct(e, o) \/ ConstructThrows(e, o))
WrapClient(e, o) == o \in Clients /\ (AdoptExternal(e, o) \/ Construct(e, o) \/ ConstructThrows(e, o))
WrapMatch(e, o)  == o \in Matches /\ (AdoptExternal(e, o) \/ Construct(e, o) \/ ConstructThrows(e, o))

-----------------------------------------------------------------------------
\* An operation, which may start threads for its elements.  One refused for its
\* arguments changes nothing.
Starts(e, o) ==
  /\ call' = [call EXCEPT ![e] = Operating(o)]
  /\ UsesCrypto(e)
  /\ \E n \in 0 .. MaxShards : shards' = [shards EXCEPT ![e] = n]
  /\ UNCHANGED phase

Operate(e, o) ==
  /\ RunsScript(e) /\ InstanceIsSet(e, o)
  /\ refused' = (refused \/ Deleted(o))
  /\ IF Deleted(o) THEN UNCHANGED threads ELSE Starts(e, o)
  /\ UNCHANGED <<objects, crashed>>

CallServer(e, o) == o \in Servers /\ Operate(e, o)
CallClient(e, o) == o \in Clients /\ Operate(e, o)
CallMatch(e, o)  == o \in Matches /\ Operate(e, o)

\* Mutant: a match works with its client's cipher.
UsesMaker(o) == {o, maker[o]}

\* What an operation reads: a match has its own copy of the key (psi_client.cpp).
Uses(o) == {o}

\* A thread ends with the destructor its crypto registered.
ShardExits(e) ==
  /\ shards[e] > 0
  /\ shards' = [shards EXCEPT ![e] = @ - 1]
  /\ crashed' = (crashed \/ ~ Mapped)
  /\ UNCHANGED <<phase, armed, call, objects, refused>>

Joined(e) == shards[e] = 0

\* The addon's { Value, Status } is turned into a value or an exception.
Return(e, class) ==
  /\ \E o \in class : call[e] = Operating(o)
  /\ Joined(e)
  /\ EndCall(e)
  /\ UNCHANGED <<phase, armed, shards, objects, refused, crashed>>

ServerReturns(e) == Return(e, Servers)
ClientReturns(e) == Return(e, Clients)
MatchReturns(e)  == Return(e, Matches)

-----------------------------------------------------------------------------
\* Mutant: the wrapper forgets to clear _instance.
StillSet == "live"

Cleared == "deleted"

Delete(e, o) ==
  /\ RunsScript(e) /\ InstanceIsSet(e, o)
  /\ Reset(o, "wrap")
  /\ wrapper' = [wrapper EXCEPT ![o] = Cleared]
  /\ UNCHANGED <<threads, home, maker, shells, refused, crashed>>

DeleteServer(e, o) == o \in Servers /\ Delete(e, o)
DeleteClient(e, o) == o \in Clients /\ Delete(e, o)
DeleteMatch(e, o)  == o \in Matches /\ Delete(e, o)

\* The program drops its last reference.
Drop(e, o) ==
  /\ RunsScript(e) /\ home[o] = e /\ wrapper[o] \in {"live", "deleted"}
  /\ wrapper' = [wrapper EXCEPT ![o] = "dropped"]
  /\ UNCHANGED <<threads, home, maker, shells, held, frees, refused, crashed>>

\* Mutant: freeing an object touches the crypto library's per-thread state.
DestructorRearms(e) == TRUE

\* The destructors merely free (psi_napi.cpp:737-739).
AfterDestructor(e) == armed[e]

\* What the collector may not reclaim yet.
Rooted(o, shell) == shell = "wrap" /\ wrapper[o] \in {"live", "deleted"}

Finalize(e, o, shell) ==
  /\ home[o] = e /\ shell \in shells[o] /\ call[e] = None
  /\ \/ phase[e] \in {"running", "terminating"} /\ ~ Rooted(o, shell)
     \/ phase[e] = "drained"
  /\ shells' = [shells EXCEPT ![o] = @ \ {shell}]
  /\ Reset(o, shell)
  /\ armed' = [armed EXCEPT ![e] = AfterDestructor(e)]
  /\ UNCHANGED <<phase, shards, call, home, maker, wrapper, refused, crashed>>

-----------------------------------------------------------------------------
\* worker.terminate(), or the end of its script: no script runs after it.
Terminate(e) ==
  /\ phase[e] = "running" /\ e # Main
  /\ phase' = [phase EXCEPT ![e] = "terminating"]
  /\ UNCHANGED <<armed, shards, call, objects, refused, crashed>>

\* The cleanup hook runs on the worker's own thread: OPENSSL_thread_stop.
Drained(e) == FALSE

Drain(e) ==
  /\ phase[e] = "terminating" /\ call[e] = None
  /\ phase' = [phase EXCEPT ![e] = "drained"]
  /\ armed' = [armed EXCEPT ![e] = Drained(e)]
  /\ UNCHANGED <<shards, call, objects, refused, crashed>>

\* Every finalizer has run.
Unload(e) ==
  /\ phase[e] = "drained"
  /\ \A o \in Objects : home[o] = e => shells[o] = {}
  /\ phase' = [phase EXCEPT ![e] = "unloaded"]
  /\ UNCHANGED <<armed, shards, call, objects, refused, crashed>>

ThreadExits(e) ==
  /\ phase[e] = "unloaded"
  /\ phase' = [phase EXCEPT ![e] = "exited"]
  /\ crashed' = (crashed \/ (armed[e] /\ ~ Mapped))
  /\ UNCHANGED <<armed, shards, call, objects, refused>>

-----------------------------------------------------------------------------
Script(e) ==
  \/ Load(e)
  \/ \E o \in Objects :
       \/ CreateServer(e, o) \/ CreateClient(e, o)
       \/ \E c \in Clients : CreateMatch(e, c, o)
       \/ CallServer(e, o) \/ CallClient(e, o) \/ CallMatch(e, o)
       \/ DeleteServer(e, o) \/ DeleteClient(e, o) \/ DeleteMatch(e, o)
       \/ Drop(e, o)
  \/ Terminate(e)

\* What goes on by itself once it has been started.
Progress(e) ==
  \/ \E o \in Objects : WrapServer(e, o) \/ WrapClient(e, o) \/ WrapMatch(e, o)
  \/ ShardExits(e)
  \/ ServerReturns(e) \/ ClientReturns(e) \/ MatchReturns(e)
  \/ Drain(e)
  \/ Unload(e)
  \/ ThreadExits(e)

FinalizeAny(e) == \E o \in Objects : \E shell \in {"external", "wrap"} : Finalize(e, o, shell)

Next == \E e \in Envs : Script(e) \/ Progress(e) \/ FinalizeAny(e)

\* Native code returns and Node's teardown goes on; nothing makes the collector run before it.
Spec ==
  /\ Init /\ [][Next]_vars
  /\ \A e \in Envs :
       WF_vars(Progress(e)) /\ WF_vars(phase[e] = "drained" /\ FinalizeAny(e))

-----------------------------------------------------------------------------
Phases == {"absent", "running", "terminating", "drained", "unloaded", "exited"}

\* Every variable keeps its type.
TypeOK ==
  /\ phase \in [Envs -> Phases]
  /\ armed \in [Envs -> BOOLEAN]
  /\ shards \in [Envs -> 0 .. MaxShards]
  /\ call \in [Envs -> Calls \cup {None}]
  /\ home \in [Objects -> Envs \cup {None}]
  /\ maker \in [Objects -> Objects]
  /\ shells \in [Objects -> SUBSET {"external", "wrap"}]
  /\ held \in [Objects -> SUBSET {"local", "external", "wrap"}]
  /\ frees \in [Objects -> 0 .. 1]
  /\ wrapper \in [Objects -> {"none", "live", "deleted", "dropped"}]
  /\ refused \in BOOLEAN /\ crashed \in BOOLEAN

\* The wrappers track deletion: the addon is never called on an instance that
\* delete has emptied (psi_napi.cpp:183-184).
WrappersTrackDeletion == ~ refused

\* No thread-exit destructor of the crypto library, of a worker or of a thread
\* an operation started, runs once the addon's code is unmapped
\* (psi_napi.cpp:717-729).
NoDestructorInUnmappedCode == ~ crashed

\* A worker that is terminated, whatever its script was doing, exits with every
\* native object it made freed, those of calls that threw halfway included.
TeardownFreesAll ==
  \A e \in Envs :
    phase[e] = "terminating" ~>
      /\ phase[e] = "exited"
      /\ \A o \in Objects : home[o] = e => frees[o] = 1 /\ held[o] = {}

Stage(o) ==
  CASE frees[o] = 1 -> "freed"
    [] frees[o] = 0 /\ home[o] = None -> "unmade"
    [] frees[o] = 0 /\ home[o] # None -> "live"
    [] OTHER -> "freed twice"

UsedBy(e) == UNION {Uses(o) : o \in {x \in Objects : call[e] = Operating(x)}}

Objectlife == INSTANCE Lifetime WITH
  Threads <- Envs,
  stage <- [o \in Objects |-> Stage(o)],
  using <- [e \in Envs |-> UsedBy(e)]

\* Whatever is deleted, dropped, collected or torn down, and in whatever order,
\* an object is freed once and a call uses none that is freed; a match may
\* outlive its client.
ImplementsLifetime == Objectlife!Spec
=============================================================================
