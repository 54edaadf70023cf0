------------------------- MODULE NativeAddon_proofs -------------------------
(***************************************************************************)
(* Proofs about NativeAddon for any number of environments, objects and    *)
(* threads of an operation.                                                *)
(***************************************************************************)
EXTENDS NativeAddon, TLAPS

(***************************************************************************)
(* The inductive invariant.  An object that was made and is not freed has  *)
(* one owner; while its environment runs script, the owner of one whose    *)
(* wrapper is live is the wrap.                                            *)
(***************************************************************************)
Alive(e) == phase[e] \in {"running", "terminating"}

OwnerInv(o) ==
  /\ home[o] = None => held[o] = {} /\ frees[o] = 0 /\ wrapper[o] = "none"
  /\ home[o] # None =>
       /\ phase[home[o]] # "absent"
       /\ \/ frees[o] = 0 /\ held[o] \in {{"local"}, {"external"}, {"wrap"}}
          \/ frees[o] = 1 /\ held[o] = {}
       /\ wrapper[o] = "live" /\ Alive(home[o]) => held[o] = {"wrap"}

\* A call keeps its environment alive and its object owned; an environment whose
\* thread is in none has nothing left that would run in the addon later.
CallInv(e) ==
  /\ ~ Alive(e) => call[e] = None /\ ~ armed[e]
  /\ shards[e] > 0 => \E o \in Objects : call[e] = Operating(o)
  /\ \A o \in Objects :
       /\ call[e] = Operating(o) => home[o] = e /\ held[o] = {"wrap"}
       /\ call[e] = Wrapping(o) => home[o] = e /\ held[o] \in {{"local"}, {"external"}}

IInv ==
  /\ TypeOK
  /\ \A o \in Objects : OwnerInv(o)
  /\ \A e \in Envs : CallInv(e)
  /\ ~ refused /\ ~ crashed

-----------------------------------------------------------------------------
\* The calls of a thread are told apart.
LEMMA CallFacts ==
  \A o, p \in Objects :
    /\ Operating(o) \in Calls /\ Wrapping(o) \in Calls
    /\ Operating(o) # None /\ Wrapping(o) # None
    /\ Operating(o) # Wrapping(p)
    /\ Operating(o) = Operating(p) => o = p
    /\ Wrapping(o) = Wrapping(p) => o = p
BY NativeAddonAssumption DEF Operating, Wrapping, Calls

LEMMA InitInv == Init => IInv
<1> SUFFICES ASSUME Init PROVE IInv
  OBVIOUS
<1>1. TypeOK
  <2>1. armed \in [Envs -> BOOLEAN] /\ refused \in BOOLEAN /\ crashed \in BOOLEAN
    BY Zenon DEF Init
  <2>2. shells \in [Objects -> SUBSET {"external", "wrap"}]
    BY DEF Init
  <2>3. held \in [Objects -> SUBSET {"local", "external", "wrap"}]
    BY DEF Init
  <2> QED
    BY <2>1, <2>2, <2>3, NativeAddonAssumption DEF Init, TypeOK, Phases
<1>2. \A o \in Objects : OwnerInv(o)
  BY DEF Init, OwnerInv
<1>3. \A e \in Envs : CallInv(e)
  BY CallFacts DEF Init, CallInv
<1> QED
  BY <1>1, <1>2, <1>3 DEF Init, IInv

\* The steps of Next without the names of the three classes.
LEMMA Steps ==
  ASSUME Next
  PROVE  \E e \in Envs :
           \/ Load(e) \/ Terminate(e) \/ Drain(e) \/ Unload(e) \/ ThreadExits(e)
           \/ ShardExits(e) \/ Return(e, Objects)
           \/ \E o \in Objects :
                \/ \E c \in Objects : RunsScript(e) /\ Make(e, o, c)
                \/ AdoptExternal(e, o) \/ Construct(e, o) \/ ConstructThrows(e, o)
                \/ Operate(e, o) \/ Delete(e, o) \/ Drop(e, o)
                \/ \E shell \in {"external", "wrap"} : Finalize(e, o, shell)
<1>1. \A e \in Envs : Return(e, Servers) \/ Return(e, Clients) \/ Return(e, Matches)
                        => Return(e, Objects)
  BY DEF Return, Objects
<1>2. Clients \subseteq Objects
  BY DEF Objects
<1>3. PICK e \in Envs : Script(e) \/ Progress(e) \/ FinalizeAny(e)
  BY DEF Next
<1>4. CASE Script(e)
  BY <1>2, <1>4 DEF Script, CreateServer, CreateClient, CreateMatch, CallServer, CallClient,
     CallMatch, DeleteServer, DeleteClient, DeleteMatch
<1>5. CASE Progress(e)
  BY <1>1, <1>5 DEF Progress, WrapServer, WrapClient, WrapMatch, ServerReturns, ClientReturns,
     MatchReturns
<1>6. CASE FinalizeAny(e)
  BY <1>6 DEF FinalizeAny
<1> QED
  BY <1>3, <1>4, <1>5, <1>6

-----------------------------------------------------------------------------
(* One lemma for each step: what it leaves of the invariant's four parts.   *)

LEMMA LoadInv ==
  ASSUME IInv, NEW e \in Envs, Load(e)
  PROVE  IInv'
<1>1. TypeOK'
  BY DEF IInv, TypeOK, Phases, Load, objects
<1>2. \A x \in Objects : OwnerInv(x)'
  BY DEF IInv, TypeOK, OwnerInv, Alive, Load, objects
<1>3. \A f \in Envs : CallInv(f)'
  BY DEF IInv, TypeOK, CallInv, Alive, Load, objects
<1>4. ~ refused' /\ ~ crashed'
  BY DEF IInv, Load
<1> QED
  BY <1>1, <1>2, <1>3, <1>4 DEF IInv

LEMMA TerminateInv ==
  ASSUME IInv, NEW e \in Envs, Terminate(e)
  PROVE  IInv'
<1>1. TypeOK'
  BY DEF IInv, TypeOK, Phases, Terminate, objects
<1>2. \A x \in Objects : OwnerInv(x)'
  BY DEF IInv, TypeOK, OwnerInv, Alive, Terminate, objects
<1>3. \A f \in Envs : CallInv(f)'
  BY DEF IInv, TypeOK, CallInv, Alive, Terminate, objects
<1>4. ~ refused' /\ ~ crashed'
  BY DEF IInv, Terminate
<1> QED
  BY <1>1, <1>2, <1>3, <1>4 DEF IInv

LEMMA DrainInv ==
  ASSUME IInv, NEW e \in Envs, Drain(e)
  PROVE  IInv'
<1>1. TypeOK'
  BY DEF IInv, TypeOK, Phases, Drain, Drained, objects
<1>2. \A x \in Objects : OwnerInv(x)'
  BY DEF IInv, TypeOK, OwnerInv, Alive, Drain, objects
<1>3. \A f \in Envs : CallInv(f)'
  BY DEF IInv, TypeOK, CallInv, Alive, Drain, Drained, objects
<1>4. ~ refused' /\ ~ crashed'
  BY DEF IInv, Drain
<1> QED
  BY <1>1, <1>2, <1>3, <1>4 DEF IInv

LEMMA UnloadInv ==
  ASSUME IInv, NEW e \in Envs, Unload(e)
  PROVE  IInv'
<1>1. TypeOK'
  BY DEF IInv, TypeOK, Phases, Unload, objects
<1>2. \A x \in Objects : OwnerInv(x)'
  BY DEF IInv, TypeOK, OwnerInv, Alive, Unload, objects
<1>3. \A f \in Envs : CallInv(f)'
  BY DEF IInv, TypeOK, CallInv, Alive, Unload, objects
<1>4. ~ refused' /\ ~ crashed'
  BY DEF IInv, Unload
<1> QED
  BY <1>1, <1>2, <1>3, <1>4 DEF IInv

LEMMA ThreadExitsInv ==
  ASSUME IInv, NEW e \in Envs, ThreadExits(e)
  PROVE  IInv'
<1>1. TypeOK'
  BY DEF IInv, TypeOK, Phases, ThreadExits, objects
<1>2. \A x \in Objects : OwnerInv(x)'
  BY DEF IInv, TypeOK, OwnerInv, Alive, ThreadExits, objects
<1>3. \A f \in Envs : CallInv(f)'
  BY DEF IInv, TypeOK, CallInv, Alive, ThreadExits, objects
<1>4. ~ refused' /\ ~ crashed'
  BY DEF IInv, CallInv, Alive, ThreadExits
<1> QED
  BY <1>1, <1>2, <1>3, <1>4 DEF IInv

LEMMA ShardExitsInv ==
  ASSUME IInv, NEW e \in Envs, ShardExits(e)
  PROVE  IInv'
<1>1. TypeOK'
  BY NativeAddonAssumption DEF IInv, TypeOK, ShardExits, objects
<1>2. \A x \in Objects : OwnerInv(x)'
  BY DEF IInv, OwnerInv, Alive, ShardExits, objects
<1>3. \A f \in Envs : CallInv(f)'
  BY NativeAddonAssumption DEF IInv, TypeOK, CallInv, Alive, ShardExits, objects
<1>4. ~ refused' /\ ~ crashed'
  <2>1. Alive(e)
    BY CallFacts DEF IInv, CallInv, ShardExits
  <2>2. Mapped
    BY <2>1 DEF Alive, Mapped, Loaded
  <2> QED
    BY <2>2 DEF IInv, TypeOK, ShardExits
<1> QED
  BY <1>1, <1>2, <1>3, <1>4 DEF IInv

LEMMA ReturnInv ==
  ASSUME IInv, NEW e \in Envs, Return(e, Objects)
  PROVE  IInv'
<1>1. TypeOK'
  BY DEF IInv, TypeOK, Return, EndCall, objects
<1>2. \A x \in Objects : OwnerInv(x)'
  BY DEF IInv, OwnerInv, Alive, Return, objects
<1>3. \A f \in Envs : CallInv(f)'
  BY CallFacts, SMTT(60) DEF IInv, TypeOK, CallInv, Alive, Return, EndCall, Joined, objects
<1>4. ~ refused' /\ ~ crashed'
  BY DEF IInv, Return
<1> QED
  BY <1>1, <1>2, <1>3, <1>4 DEF IInv

LEMMA MakeInv ==
  ASSUME IInv, NEW e \in Envs, NEW o \in Objects, NEW by \in Objects, RunsScript(e), Make(e, o, by)
  PROVE  IInv'
<1>1. TypeOK'
  BY CallFacts, SMTT(60) DEF IInv, TypeOK, Make, UsesCrypto
<1>2. \A x \in Objects : OwnerInv(x)'
  BY NativeAddonAssumption DEF IInv, TypeOK, OwnerInv, Alive, RunsScript, Make
<1>3. \A f \in Envs : CallInv(f)'
  BY CallFacts, NativeAddonAssumption, SMTT(60) DEF IInv, TypeOK, CallInv, Alive, RunsScript, Make, UsesCrypto
<1>4. ~ refused' /\ ~ crashed'
  BY DEF IInv, Make
<1> QED
  BY <1>1, <1>2, <1>3, <1>4 DEF IInv

\* A pointer that is reset was the only one, or nothing is freed.
LEMMA ResetFacts ==
  ASSUME IInv, NEW o \in Objects, NEW pointer \in {"local", "external", "wrap"},
         home[o] # None, Reset(o, pointer)
  PROVE  \/ pointer \notin held[o] /\ UNCHANGED <<held, frees>>
         \/ /\ held[o] = {pointer} /\ frees[o] = 0
            /\ held' = [held EXCEPT ![o] = {}] /\ frees' = [frees EXCEPT ![o] = 1]
<1>1. CASE pointer \notin held[o]
  BY <1>1 DEF Reset
<1>2. CASE pointer \in held[o]
  <2>1. held[o] = {pointer} /\ frees[o] = 0
    BY <1>2 DEF IInv, OwnerInv
  <2> QED
    BY <1>2, <2>1 DEF Reset
<1> QED
  BY <1>1, <1>2

LEMMA AdoptInv ==
  ASSUME IInv, NEW e \in Envs, NEW o \in Objects, AdoptExternal(e, o)
  PROVE  IInv'
<1>1. home[o] = e /\ held[o] = {"local"} /\ frees[o] = 0
  BY NativeAddonAssumption DEF IInv, CallInv, OwnerInv, AdoptExternal
<1>2. \/ /\ held' = [held EXCEPT ![o] = {"external"}] /\ UNCHANGED <<frees, call>>
         /\ shells' = [shells EXCEPT ![o] = {"external"}]
      \/ /\ held' = [held EXCEPT ![o] = {}] /\ frees' = [frees EXCEPT ![o] = 1]
         /\ call' = [call EXCEPT ![e] = None] /\ UNCHANGED shells
  BY <1>1, ResetFacts, NativeAddonAssumption DEF AdoptExternal, LocalFreed, EndCall
<1>3. TypeOK'
  BY <1>2 DEF IInv, TypeOK, AdoptExternal
<1>4. \A x \in Objects : OwnerInv(x)'
  <2>1. ~ (wrapper[o] = "live" /\ Alive(e))
    BY <1>1, NativeAddonAssumption DEF IInv, OwnerInv
  <2>2. UNCHANGED <<home, phase, wrapper>> /\ e # None
    BY NativeAddonAssumption DEF AdoptExternal
  <2>3. OwnerInv(o)'
    BY <1>1, <1>2, <2>1, <2>2 DEF IInv, TypeOK, OwnerInv, Alive
  <2>4. \A x \in Objects \ {o} : OwnerInv(x)'
    BY <1>2, <2>2 DEF IInv, TypeOK, OwnerInv, Alive
  <2> QED
    BY <2>3, <2>4
<1>5. \A f \in Envs : CallInv(f)'
  <2> SUFFICES ASSUME NEW f \in Envs PROVE CallInv(f)'
    OBVIOUS
  <2>1. call[e] = Wrapping(o) /\ CallInv(f) /\ CallInv(e)
    BY DEF IInv, AdoptExternal
  <2>2. CASE f = e
    BY <1>1, <1>2, <2>1, <2>2, CallFacts DEF IInv, TypeOK, CallInv, Alive, AdoptExternal
  <2>3. CASE f # e
    <3>1. call'[f] = call[f] /\ \A x \in Objects \ {o} : held'[x] = held[x]
      BY <1>2, <2>3 DEF IInv, TypeOK
    <3>2. call[f] # Operating(o) /\ call[f] # Wrapping(o)
      BY <1>1, <2>1, <2>3 DEF CallInv
    <3> QED
      BY <2>1, <3>1, <3>2 DEF CallInv, Alive, AdoptExternal
  <2> QED
    BY <2>2, <2>3
<1>6. ~ refused' /\ ~ crashed'
  BY DEF IInv, AdoptExternal
<1> QED
  BY <1>1, <1>2, <1>3, <1>4, <1>5, <1>6 DEF IInv

LEMMA ConstructInv ==
  ASSUME IInv, NEW e \in Envs, NEW o \in Objects, Construct(e, o)
  PROVE  IInv'
<1>1. home[o] = e /\ held[o] = {"external"} /\ frees[o] = 0
  BY NativeAddonAssumption DEF IInv, CallInv, OwnerInv, Construct
<1>2. TypeOK'
  BY DEF IInv, TypeOK, Construct, MovedToWrap, EndCall
<1>3. \A x \in Objects : OwnerInv(x)'
  BY <1>1, ZenonT(60) DEF IInv, TypeOK, OwnerInv, Alive, Construct, MovedToWrap
<1>4. \A f \in Envs : CallInv(f)'
  <2> SUFFICES ASSUME NEW f \in Envs PROVE CallInv(f)'
    OBVIOUS
  <2>1. call[e] = Wrapping(o) /\ CallInv(f) /\ CallInv(e)
    BY DEF IInv, Construct
  <2>2. call' = [call EXCEPT ![e] = None] /\ held' = [held EXCEPT ![o] = {"wrap"}]
    BY DEF Construct, EndCall, MovedToWrap
  <2>3. CASE f = e
    BY <1>1, <2>1, <2>2, <2>3, CallFacts DEF IInv, TypeOK, CallInv, Alive, Construct
  <2>4. CASE f # e
    BY <1>1, <2>1, <2>2, <2>4, CallFacts DEF IInv, TypeOK, CallInv, Alive, Construct
  <2> QED
    BY <2>3, <2>4
<1>5. ~ refused' /\ ~ crashed'
  BY DEF IInv, Construct
<1> QED
  BY <1>1, <1>2, <1>3, <1>4, <1>5 DEF IInv

LEMMA ConstructThrowsInv ==
  ASSUME IInv, NEW e \in Envs, NEW o \in Objects, ConstructThrows(e, o)
  PROVE  IInv'
<1>1. TypeOK'
  BY DEF IInv, TypeOK, ConstructThrows, EndCall, objects
<1>2. \A x \in Objects : OwnerInv(x)'
  BY DEF IInv, OwnerInv, Alive, ConstructThrows, objects
<1>3. \A f \in Envs : CallInv(f)'
  BY CallFacts, NativeAddonAssumption DEF IInv, TypeOK, CallInv, Alive, ConstructThrows, EndCall, objects
<1>4. ~ refused' /\ ~ crashed'
  BY DEF IInv, ConstructThrows
<1> QED
  BY <1>1, <1>2, <1>3, <1>4 DEF IInv

LEMMA OperateInv ==
  ASSUME IInv, NEW e \in Envs, NEW o \in Objects, Operate(e, o)
  PROVE  IInv'
<1>1. ~ Deleted(o) /\ held[o] = {"wrap"}
  BY NativeAddonAssumption DEF IInv, OwnerInv, Alive, Operate, RunsScript, InstanceIsSet, Deleted
<1>2. armed' \in [Envs -> BOOLEAN]
  BY <1>1, Zenon DEF IInv, TypeOK, Operate, Starts, UsesCrypto
<1>3. refused' = FALSE /\ crashed' = FALSE
  BY <1>1 DEF IInv, TypeOK, Operate
<1>4. TypeOK'
  <2>1. call' \in [Envs -> Calls \cup {None}] /\ shards' \in [Envs -> 0 .. MaxShards]
    BY <1>1, CallFacts DEF IInv, TypeOK, Operate, Starts
  <2>2. UNCHANGED <<phase, home, maker, shells, held, frees, wrapper>>
    BY <1>1 DEF Operate, Starts, objects
  <2> QED
    BY <1>2, <1>3, <2>1, <2>2 DEF IInv, TypeOK
<1>5. \A x \in Objects : OwnerInv(x)'
  BY <1>1 DEF IInv, OwnerInv, Alive, Operate, Starts, objects
<1>6. \A f \in Envs : CallInv(f)'
  BY <1>1, CallFacts DEF IInv, TypeOK, CallInv, Alive, Operate, Starts, UsesCrypto, RunsScript, InstanceIsSet, objects
<1>7. ~ refused' /\ ~ crashed'
  BY <1>3
<1> QED
  BY <1>1, <1>2, <1>3, <1>4, <1>5, <1>6, <1>7 DEF IInv

LEMMA DeleteInv ==
  ASSUME IInv, NEW e \in Envs, NEW o \in Objects, Delete(e, o)
  PROVE  IInv'
<1>1. home[o] = e /\ call[e] = None /\ wrapper' = [wrapper EXCEPT ![o] = "deleted"]
  BY DEF Delete, RunsScript, InstanceIsSet, Cleared
<1>2. \/ UNCHANGED <<held, frees>>
      \/ held' = [held EXCEPT ![o] = {}] /\ frees' = [frees EXCEPT ![o] = 1]
  BY <1>1, ResetFacts, NativeAddonAssumption DEF Delete
<1>3. TypeOK'
  BY <1>1, <1>2 DEF IInv, TypeOK, Delete, threads
<1>4. \A x \in Objects : OwnerInv(x)'
  BY <1>1, <1>2, NativeAddonAssumption DEF IInv, TypeOK, OwnerInv, Alive, Delete, threads
<1>5. \A f \in Envs : CallInv(f)'
  BY <1>1, <1>2, CallFacts, SMTT(60) DEF IInv, TypeOK, CallInv, Alive, Delete, threads
<1>6. ~ refused' /\ ~ crashed'
  BY DEF IInv, Delete
<1> QED
  BY <1>1, <1>2, <1>3, <1>4, <1>5, <1>6 DEF IInv

LEMMA DropInv ==
  ASSUME IInv, NEW e \in Envs, NEW o \in Objects, Drop(e, o)
  PROVE  IInv'
<1>1. TypeOK'
  BY DEF IInv, TypeOK, Drop, threads
<1>2. \A x \in Objects : OwnerInv(x)'
  BY NativeAddonAssumption DEF IInv, TypeOK, OwnerInv, Alive, Drop, threads
<1>3. \A f \in Envs : CallInv(f)'
  BY DEF IInv, CallInv, Alive, Drop, threads
<1>4. ~ refused' /\ ~ crashed'
  BY DEF IInv, Drop
<1> QED
  BY <1>1, <1>2, <1>3, <1>4 DEF IInv

LEMMA FinalizeInv ==
  ASSUME IInv, NEW e \in Envs, NEW o \in Objects, NEW shell \in {"external", "wrap"}, Finalize(e, o, shell)
  PROVE  IInv'
<1>1. home[o] = e /\ call[e] = None /\ UNCHANGED armed
  BY DEF IInv, TypeOK, Finalize, AfterDestructor
<1>2. \/ UNCHANGED <<held, frees>>
      \/ /\ held[o] = {shell}
         /\ held' = [held EXCEPT ![o] = {}] /\ frees' = [frees EXCEPT ![o] = 1]
  BY <1>1, ResetFacts, NativeAddonAssumption DEF Finalize
<1>3. TypeOK'
  BY <1>1, <1>2 DEF IInv, TypeOK, Finalize
<1>4. \A x \in Objects : OwnerInv(x)'
  <2>1. CASE UNCHANGED <<held, frees>>
    BY <1>1, <2>1 DEF IInv, OwnerInv, Alive, Finalize
  <2>2. CASE held[o] = {shell} /\ held' = [held EXCEPT ![o] = {}] /\ frees' = [frees EXCEPT ![o] = 1]
    <3>1. ~ (wrapper[o] = "live" /\ Alive(e))
      BY <1>1, <2>2, NativeAddonAssumption DEF IInv, OwnerInv, Alive, Finalize, Rooted
    <3> QED
      BY <1>1, <2>2, <3>1, NativeAddonAssumption DEF IInv, TypeOK, OwnerInv, Alive, Finalize
  <2> QED
    BY <1>2, <2>1, <2>2
<1>5. \A f \in Envs : CallInv(f)'
  <2>1. \A x \in Objects \ {o} : held'[x] = held[x]
    BY <1>2 DEF IInv, TypeOK
  <2>2. \A f \in Envs : call[f] # Operating(o) /\ call[f] # Wrapping(o)
    BY <1>1, CallFacts DEF IInv, CallInv
  <2> QED
    BY <1>1, <2>1, <2>2 DEF IInv, CallInv, Alive, Finalize
<1>6. ~ refused' /\ ~ crashed'
  BY DEF IInv, Finalize
<1> QED
  BY <1>1, <1>2, <1>3, <1>4, <1>5, <1>6 DEF IInv

LEMMA StutterInv == IInv /\ UNCHANGED vars => IInv'
  BY DEF IInv, TypeOK, OwnerInv, CallInv, Alive, vars, threads, objects

LEMMA Invariance == Spec => []IInv
<1>1. IInv /\ [Next]_vars => IInv'
  BY Steps, StutterInv, LoadInv, TerminateInv, DrainInv, UnloadInv, ThreadExitsInv, ShardExitsInv,
     ReturnInv, MakeInv, AdoptInv, ConstructInv, ConstructThrowsInv, OperateInv, DeleteInv,
     DropInv, FinalizeInv
<1> QED
  BY <1>1, InitInv, PTL DEF Spec

\* Every variable keeps its type, for any number of environments and objects; in
\* particular no object is freed twice.
THEOREM TypeCorrect == Spec => []TypeOK
  BY Invariance, PTL DEF IInv

\* However many environments use the addon, no wrapper calls it on an instance
\* that delete has emptied.
THEOREM DeletionTracked == Spec => []WrappersTrackDeletion
  BY Invariance, PTL DEF IInv, WrappersTrackDeletion

\* Whichever environments load and unload the addon and however many threads
\* their operations start, no thread-exit destructor runs in unmapped code.
THEOREM UnloadSafe == Spec => []NoDestructorInUnmappedCode
  BY Invariance, PTL DEF IInv, NoDestructorInUnmappedCode

-----------------------------------------------------------------------------
(***************************************************************************)
(* The refinement: what a step does to the stage of an object and to what  *)
(* a thread uses.                                                          *)
(***************************************************************************)
LEMMA SameStage ==
  ASSUME NEW o \in Objects, frees'[o] = frees[o], home'[o] = None <=> home[o] = None
  PROVE  Stage(o)' = Stage(o)
BY DEF Stage

LEMMA Unmade ==
  ASSUME NEW o \in Objects, frees[o] = 0, home[o] = None
  PROVE  Stage(o) = "unmade"
BY DEF Stage

LEMMA Live ==
  ASSUME NEW o \in Objects, frees[o] = 0, home[o] # None
  PROVE  Stage(o) = "live"
BY DEF Stage

LEMMA LiveNext ==
  ASSUME NEW o \in Objects, frees'[o] = 0, home'[o] # None
  PROVE  Stage(o)' = "live"
BY DEF Stage

LEMMA FreedNext ==
  ASSUME NEW o \in Objects, frees'[o] = 1
  PROVE  Stage(o)' = "freed"
BY DEF Stage

LEMMA SameUse ==
  ASSUME NEW e \in Envs, call'[e] = call[e]
  PROVE  UsedBy(e)' = UsedBy(e)
BY DEF UsedBy, Uses

LEMMA NoUse ==
  ASSUME NEW e \in Envs, \A o \in Objects : call[e] # Operating(o)
  PROVE  UsedBy(e) = {}
BY DEF UsedBy, Uses

LEMMA NoUseNext ==
  ASSUME NEW e \in Envs, \A o \in Objects : call'[e] # Operating(o)
  PROVE  UsedBy(e)' = {}
BY DEF UsedBy, Uses

LEMMA UseNext ==
  ASSUME NEW e \in Envs, NEW o \in Objects, call'[e] = Operating(o)
  PROVE  UsedBy(e)' = {o}
BY CallFacts DEF UsedBy, Uses

\* A step that frees one object, which no call uses.
LEMMA Frees ==
  ASSUME IInv, NEW o \in Objects, home[o] # None, frees[o] = 0,
         frees' = [frees EXCEPT ![o] = 1], UNCHANGED home,
         \A e \in Envs : call[e] # Operating(o),
         \A e \in Envs : UsedBy(e)' = UsedBy(e)
  PROVE  Objectlife!Free(o)
<1>1. Stage(o) = "live" /\ Stage(o)' = "freed"
  BY Live, FreedNext DEF IInv, TypeOK
<1>2. \A x \in Objects \ {o} : Stage(x)' = Stage(x)
  BY SameStage DEF IInv, TypeOK
<1>3. \A e \in Envs : o \notin UsedBy(e)
  BY CallFacts DEF UsedBy, Uses
<1> QED
  BY <1>1, <1>2, <1>3 DEF Objectlife!Free

\* A step that changes neither is a stutter.
LEMMA Stutters ==
  ASSUME \A o \in Objects : Stage(o)' = Stage(o), \A e \in Envs : UsedBy(e)' = UsedBy(e)
  PROVE  UNCHANGED Objectlife!vars
BY DEF Objectlife!vars

LEMMA Refinement ==
  ASSUME IInv, Next
  PROVE  Objectlife!Next \/ UNCHANGED Objectlife!vars
<1>1. PICK e \in Envs :
        \/ Load(e) \/ Terminate(e) \/ Drain(e) \/ Unload(e) \/ ThreadExits(e)
        \/ ShardExits(e) \/ Return(e, Objects)
        \/ \E o \in Objects :
             \/ \E c \in Objects : RunsScript(e) /\ Make(e, o, c)
             \/ AdoptExternal(e, o) \/ Construct(e, o) \/ ConstructThrows(e, o)
             \/ Operate(e, o) \/ Delete(e, o) \/ Drop(e, o)
             \/ \E shell \in {"external", "wrap"} : Finalize(e, o, shell)
  BY Steps
<1>2. CASE Load(e) \/ Terminate(e) \/ Drain(e) \/ Unload(e) \/ ThreadExits(e) \/ ShardExits(e)
  <2>1. UNCHANGED <<frees, home, call>>
    BY <1>2 DEF Load, Terminate, Drain, Unload, ThreadExits, ShardExits, objects
  <2> QED
    BY <2>1, SameStage, SameUse, Stutters
<1>3. CASE Return(e, Objects)
  <2>1. call' = [call EXCEPT ![e] = None] /\ UNCHANGED <<frees, home>>
    BY <1>3 DEF Return, EndCall, objects
  <2>2. UsedBy(e)' = {} /\ \A f \in Envs \ {e} : UsedBy(f)' = UsedBy(f)
    BY <2>1, NoUseNext, SameUse, CallFacts DEF IInv, TypeOK
  <2>3. Objectlife!Leave(e)
    BY <2>1, <2>2, SameStage DEF Objectlife!Leave
  <2> QED
    BY <2>3 DEF Objectlife!Next
<1>4. CASE \E o, c \in Objects : RunsScript(e) /\ Make(e, o, c)
  <2>1. PICK o \in Objects, c \in Objects : RunsScript(e) /\ Make(e, o, c)
    BY <1>4
  <2>2. \A f \in Envs : UsedBy(f)' = UsedBy(f)
    <3>1. UsedBy(e) = {} /\ UsedBy(e)' = {}
      BY <2>1, NoUse, NoUseNext, CallFacts DEF IInv, TypeOK, RunsScript, Make
    <3>2. \A f \in Envs \ {e} : call'[f] = call[f]
      BY <2>1 DEF IInv, TypeOK, Make
    <3> QED
      BY <3>1, <3>2, SameUse
  <2>3. CASE UNCHANGED home
    BY <2>1, <2>2, <2>3, SameStage, Stutters DEF Make
  <2>4. CASE home' = [home EXCEPT ![o] = e]
    <3>1. Stage(o) = "unmade" /\ Stage(o)' = "live"
      BY <2>1, <2>4, Unmade, LiveNext, NativeAddonAssumption DEF IInv, TypeOK, OwnerInv, Make
    <3>2. \A x \in Objects \ {o} : Stage(x)' = Stage(x)
      BY <2>1, <2>4, SameStage DEF IInv, TypeOK, Make
    <3>3. Objectlife!Make(o)
      BY <2>2, <3>1, <3>2 DEF Objectlife!Make
    <3> QED
      BY <3>3 DEF Objectlife!Next
  <2> QED
    BY <2>1, <2>3, <2>4 DEF Make
<1>5. CASE \E o \in Objects : AdoptExternal(e, o)
  <2>1. PICK o \in Objects : AdoptExternal(e, o)
    BY <1>5
  <2>2. home[o] = e /\ home[o] # None /\ held[o] = {"local"} /\ frees[o] = 0
    BY <2>1, NativeAddonAssumption DEF IInv, CallInv, OwnerInv, AdoptExternal
  <2>3. UsedBy(e) = {} /\ \A f \in Envs : call[f] # Operating(o)
    BY <2>1, NoUse, CallFacts DEF IInv, CallInv, AdoptExternal
  <2>4. CASE UNCHANGED <<frees, call>>
    BY <2>1, <2>4, SameStage, SameUse, Stutters DEF AdoptExternal
  <2>5. CASE LocalFreed(o) /\ EndCall(e)
    <3>1. frees' = [frees EXCEPT ![o] = 1] /\ UNCHANGED home
      BY <2>1, <2>2, <2>5, ResetFacts DEF AdoptExternal, LocalFreed
    <3>2. UsedBy(e)' = {} /\ \A f \in Envs \ {e} : UsedBy(f)' = UsedBy(f)
      BY <2>5, NoUseNext, SameUse, CallFacts DEF IInv, TypeOK, EndCall
    <3>3. Objectlife!Free(o)
      BY <2>2, <2>3, <3>1, <3>2, Frees
    <3> QED
      BY <3>3 DEF Objectlife!Next
  <2> QED
    BY <2>1, <2>4, <2>5 DEF AdoptExternal
<1>6. CASE \E o \in Objects : Construct(e, o) \/ ConstructThrows(e, o)
  <2>1. PICK o \in Objects : Construct(e, o) \/ ConstructThrows(e, o)
    BY <1>6
  <2>2. call[e] = Wrapping(o) /\ call' = [call EXCEPT ![e] = None] /\ UNCHANGED <<frees, home>>
    BY <2>1 DEF Construct, ConstructThrows, EndCall, objects
  <2>3. UsedBy(e) = {} /\ UsedBy(e)' = {} /\ \A f \in Envs \ {e} : UsedBy(f)' = UsedBy(f)
    BY <2>2, NoUse, NoUseNext, SameUse, CallFacts DEF IInv, TypeOK
  <2> QED
    BY <2>2, <2>3, SameStage, Stutters
<1>7. CASE \E o \in Objects : Operate(e, o)
  <2>1. PICK o \in Objects : Operate(e, o)
    BY <1>7
  <2>2. ~ Deleted(o) /\ home[o] # None /\ frees[o] = 0
    BY <2>1, NativeAddonAssumption
    DEF IInv, OwnerInv, Alive, Operate, RunsScript, InstanceIsSet, Deleted
  <2>3. call' = [call EXCEPT ![e] = Operating(o)] /\ UNCHANGED <<frees, home>> /\ call[e] = None
    BY <2>1, <2>2 DEF Operate, Starts, RunsScript, objects
  <2>4. UsedBy(e) = {} /\ UsedBy(e)' = {o} /\ \A f \in Envs \ {e} : UsedBy(f)' = UsedBy(f)
    BY <2>3, NoUse, UseNext, SameUse, CallFacts DEF IInv, TypeOK
  <2>5. Objectlife!Enter(e, {o})
    BY <2>2, <2>3, <2>4, Live, SameStage DEF Objectlife!Enter
  <2> QED
    BY <2>5 DEF Objectlife!Next
<1>8. CASE \E o \in Objects : Delete(e, o) \/ Drop(e, o) \/ \E shell \in {"external", "wrap"} : Finalize(e, o, shell)
  <2>1. PICK o \in Objects : Delete(e, o) \/ Drop(e, o)
                             \/ \E shell \in {"external", "wrap"} : Finalize(e, o, shell)
    BY <1>8
  <2>2. home[o] = e /\ home[o] # None /\ call[e] = None /\ UNCHANGED <<home, call>>
    BY <2>1, NativeAddonAssumption
    DEF Delete, Drop, Finalize, RunsScript, InstanceIsSet, threads
  <2>3. \A f \in Envs : UsedBy(f)' = UsedBy(f) /\ call[f] # Operating(o)
    BY <2>2, SameUse, CallFacts DEF IInv, CallInv
  <2>4. \/ UNCHANGED frees
        \/ frees[o] = 0 /\ frees' = [frees EXCEPT ![o] = 1]
    BY <2>1, <2>2, ResetFacts DEF Delete, Drop, Finalize
  <2>5. CASE UNCHANGED frees
    BY <2>2, <2>3, <2>5, SameStage, Stutters
  <2>6. CASE frees[o] = 0 /\ frees' = [frees EXCEPT ![o] = 1]
    BY <2>2, <2>3, <2>6, Frees DEF Objectlife!Next
  <2> QED
    BY <2>4, <2>5, <2>6
<1> QED
  BY <1>1, <1>2, <1>3, <1>4, <1>5, <1>6, <1>7, <1>8

\* For any number of environments and objects, whatever is deleted, dropped,
\* collected or torn down and in whatever order, the addon keeps the promise of
\* Lifetime: an object is freed once, and never under a call that uses it.
THEOREM LifetimeRefined == Spec => ImplementsLifetime
<1>1. Init => Objectlife!Init
  <2> SUFFICES ASSUME Init PROVE Objectlife!Init
    OBVIOUS
  <2>1. \A o \in Objects : Stage(o) = "unmade"
    BY Unmade DEF Init
  <2>2. \A e \in Envs : UsedBy(e) = {}
    BY NoUse, CallFacts DEF Init
  <2> QED
    BY <2>1, <2>2 DEF Objectlife!Init
<1>2. IInv /\ [Next]_vars => [Objectlife!Next]_(Objectlife!vars)
  <2>1. ASSUME UNCHANGED vars PROVE UNCHANGED Objectlife!vars
    BY <2>1, SameStage, SameUse, Stutters DEF vars, threads, objects
  <2> QED
    BY <2>1, Refinement
<1> QED
  BY <1>1, <1>2, Invariance, PTL DEF Spec, ImplementsLifetime, Objectlife!Spec
=============================================================================
