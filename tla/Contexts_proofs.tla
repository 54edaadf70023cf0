--------------------------- MODULE Contexts_proofs ---------------------------
(***************************************************************************)
(* Proofs about Contexts for any number of threads and objects.            *)
(***************************************************************************)
EXTENDS Contexts, TLAPS

(***************************************************************************)
(* The inductive invariant.  A wrapper's pointer is set from the object's  *)
(* making to its freeing, and in Go for one more step of Destroy.          *)
(***************************************************************************)
FreedBy(t, o) == InCall(t, o) /\ call[t].at = "freed"

ContextInv(o) ==
  /\ frees[o] \in {0, 1}
  /\ owner[o] = None => ~ context[o] /\ ~ referenced[o] /\ frees[o] = 0
  /\ owner[o] # None =>
       (frees[o] = 1 <=> ~ context[o] \/ \E t \in Threads : FreedBy(t, o))

\* What a call on the object may have allocated by the time it ends.
Allocated(o) ==
  IF o \in Go THEN GoFrees \cup {"key", "unserialized"}
  ELSE IF o \in Rust THEN RustFrees \cup {"unserialized"}
  ELSE {}

\* The pointer a call took to C stays good while the call is there.
CallInv(t) ==
  call[t] # None =>
    /\ call[t].at # "after" => owner[call[t].of] # None /\ context[call[t].of]
    /\ call[t].of \in Go => call[t].receiver # {}
    /\ call[t].at \in {"destroying", "freed"} =>
         /\ call[t].of \in Go
         /\ \A u \in Threads : InCall(u, call[t].of) => u = t
    /\ buffers[t] \subseteq Allocated(call[t].of)
    /\ \A r \in call[t].results : r \subseteq Allocated(call[t].of)

IInv ==
  /\ TypeOK
  /\ \A o \in Objects : ContextInv(o)
  /\ \A t \in Threads : CallInv(t)
  /\ OnlyKeysAreLeft

-----------------------------------------------------------------------------
LEMMA InitInv == Init => IInv
<1> SUFFICES ASSUME Init PROVE IInv
  OBVIOUS
<1>1. context \in [Objects -> BOOLEAN] /\ referenced \in [Objects -> BOOLEAN]
  BY Zenon DEF Init
<1>2. TypeOK
  BY <1>1 DEF Init, TypeOK
<1>3. \A o \in Objects : ContextInv(o)
  BY DEF Init, ContextInv, FreedBy, InCall
<1>4. \A t \in Threads : CallInv(t)
  BY DEF Init, CallInv
<1> QED
  BY <1>2, <1>3, <1>4 DEF Init, IInv, OnlyKeysAreLeft

LEMMA CreateUnfreed ==
  ASSUME IInv, NEW t \in Threads, NEW o \in Objects, NEW user, Create(t, o, user)
  PROVE  frees'[o] \in {0, 1} /\ frees'[o] # 1
BY DEF IInv, ContextInv, Create

LEMMA CreateInv ==
  ASSUME IInv, NEW t \in Threads, NEW o \in Objects, NEW user \in Threads \cup {Any},
         Create(t, o, user), left' \in {left, left \cup {<<"Go", "key copy">>}}
  PROVE  IInv'
<1>1. context' \in [Objects -> BOOLEAN] /\ referenced' \in [Objects -> BOOLEAN]
  BY Zenon DEF IInv, TypeOK, Create
<1>2. TypeOK'
  <2>1. owner' \in [Objects -> Threads \cup {None, Any}]
    BY DEF IInv, TypeOK, Create
  <2>2. <<"Go", "key copy">> \in {"Go", "Rust", "Python"} \X (Buffers \cup {"key copy"})
    OBVIOUS
  <2>3. left' \subseteq {"Go", "Rust", "Python"} \X (Buffers \cup {"key copy"})
    BY <2>2, Zenon DEF IInv, TypeOK
  <2> QED
    BY <1>1, <2>1, <2>3 DEF IInv, TypeOK, Create
<1>3. \A x \in Objects : ContextInv(x)'
  <2>1. CASE UNCHANGED <<owner, context, referenced>>
    BY <2>1 DEF IInv, ContextInv, FreedBy, InCall, Create
  <2>2. CASE owner' = [owner EXCEPT ![o] = user] /\ context' = [context EXCEPT ![o] = TRUE]
    <3>1. owner'[o] # None /\ context'[o]
      BY <2>2, ContextsAssumption DEF IInv, TypeOK
    <3>7. frees'[o] \in {0, 1} /\ frees'[o] # 1
      BY CreateUnfreed
    <3>4. \A u \in Threads : ~ FreedBy(u, o)'
      BY DEF IInv, CallInv, FreedBy, InCall, Create
    <3>5. \A x \in Objects, u \in Threads : FreedBy(u, x)' = FreedBy(u, x)
      BY DEF FreedBy, InCall, Create
    <3>2. \A x \in Objects \ {o} :
            /\ owner'[x] = owner[x] /\ context'[x] = context[x]
            /\ frees'[x] = frees[x] /\ referenced'[x] = referenced[x]
      BY <2>2 DEF IInv, TypeOK, Create
    <3>3. ContextInv(o)'
      BY <3>1, <3>4, <3>7, Zenon DEF ContextInv
    <3>6. \A x \in Objects \ {o} : ContextInv(x)'
      BY <3>2, <3>5 DEF IInv, ContextInv
    <3> QED
      BY <3>3, <3>6
  <2> QED
    BY <2>1, <2>2 DEF Create
<1>4. \A u \in Threads : CallInv(u)'
  <2>1. \A x \in Objects : (context[x] => context'[x]) /\ (owner[x] # None => owner'[x] # None)
    BY ContextsAssumption DEF IInv, TypeOK, Create
  <2>2. \A u \in Threads : call[u] # None => call[u].of \in Objects
    BY DEF IInv, TypeOK, Calls
  <2> QED
    BY <2>1, <2>2 DEF IInv, CallInv, Create, Allocated, InCall
<1>5. OnlyKeysAreLeft'
  BY DEF IInv, OnlyKeysAreLeft
<1> QED
  BY <1>2, <1>3, <1>4, <1>5 DEF IInv

\* What each method copies and may get from C.
LEMMA MethodFacts ==
  ASSUME NEW o \in Objects, NEW method,
         \/ o \in Go /\ method \in GoMethods(o)
         \/ o \in Rust /\ method \in RustMethods(o)
         \/ o \in Python /\ method \in {PythonClient, PythonServer}
  PROVE  /\ method.copies \in SUBSET Buffers /\ method.copies \subseteq Allocated(o)
         /\ method.results \in SUBSET SUBSET Buffers
         /\ \A r \in method.results : r \subseteq Allocated(o)
         /\ method.receiver \subseteq {"success", "error"}
         /\ o \in Go => method.receiver # {}
<1> USE DEF Method, Buffers, Allocated, GoFrees, RustFrees, Message, CCreateRequest,
      CGetIntersectionSize, CGetIntersection, CClientKey, CCreateSetupMessage,
      CProcessRequest, CServerKey
<1>1. CASE o \in Go /\ method \in GoMethods(o)
  BY <1>1 DEF GoMethods, GoCreateRequest, GoGetIntersection, GoGetIntersectionSize,
     GoClientKey, GoCreateSetupMessage, GoProcessRequest, GoServerKey
<1>2. CASE o \in Rust /\ method \in RustMethods(o)
  BY <1>2, ContextsAssumption DEF RustMethods, RustCreateRequest, RustGetIntersectionSize,
     RustGetIntersection, RustClientKey, RustCreateSetupMessage, RustProcessRequest, RustServerKey
<1>3. CASE o \in Python /\ method \in {PythonClient, PythonServer}
  BY <1>3, ContextsAssumption DEF PythonClient, PythonServer
<1> QED
  BY <1>1, <1>2, <1>3

\* Nothing destroys an object of Rust or Python but its drop.
LEMMA NoDestroyElsewhere ==
  ASSUME IInv, NEW o \in Objects, o \notin Go
  PROVE  NoDestroyOn(o)
BY ContextsAssumption DEF IInv, CallInv, NoDestroyOn, Destroying, InCall

LEMMA EnterInv ==
  ASSUME IInv, NEW t \in Threads, NEW o \in Objects, NEW method, Enter(t, o, method),
         NoDestroyOn(o),
         method.copies \in SUBSET Buffers, method.copies \subseteq Allocated(o),
         method.results \in SUBSET SUBSET Buffers,
         \A r \in method.results : r \subseteq Allocated(o),
         method.receiver \subseteq {"success", "error"}, o \in Go => method.receiver # {}
  PROVE  IInv'
<1> DEFINE c == At(o, "inside", method)
<1>1. /\ c \in Calls /\ c.of = o /\ c.at = "inside"
      /\ c.results = method.results /\ c.receiver = method.receiver
  BY DEF Calls, At
<1> HIDE DEF c
<1>2. call' = [call EXCEPT ![t] = c] /\ buffers' = [buffers EXCEPT ![t] = method.copies]
  BY DEF Enter, c
<1>3. TypeOK'
  <2>1. call' \in [Threads -> Calls \cup {None}] /\ buffers' \in [Threads -> SUBSET Buffers]
    BY <1>1, <1>2 DEF IInv, TypeOK
  <2> QED
    BY <2>1 DEF IInv, TypeOK, Enter
<1>7. /\ call[t] = None /\ call'[t] = c
      /\ \A u \in Threads \ {t} : call'[u] = call[u] /\ buffers'[u] = buffers[u]
  BY <1>2 DEF IInv, TypeOK, Enter, Idle
<1>8. \A x \in Objects, u \in Threads : FreedBy(u, x)' = FreedBy(u, x)
  BY <1>1, <1>7 DEF FreedBy, InCall
<1>4. \A x \in Objects : ContextInv(x)'
  BY <1>8 DEF IInv, ContextInv, Enter
<1>9. context[o] /\ owner[o] # None
  BY DEF IInv, ContextInv, Enter
<1>5. CallInv(t)'
  BY <1>1, <1>2, <1>9 DEF IInv, TypeOK, CallInv, Enter, Allocated
<1>6. \A u \in Threads \ {t} : CallInv(u)'
  <2> SUFFICES ASSUME NEW u \in Threads \ {t}, call[u] # None PROVE CallInv(u)'
    BY <1>7 DEF CallInv
  <2>1. CallInv(u) /\ call'[u] = call[u] /\ buffers'[u] = buffers[u]
    BY <1>7 DEF IInv
  <2>2. ASSUME call[u].at \in {"destroying", "freed"}, NEW v \in Threads, InCall(v, call[u].of)'
        PROVE  v = u
    <3>1. call[u].of # o
      BY <2>2 DEF NoDestroyOn, Destroying, InCall
    <3>2. v # t
      BY <1>1, <1>7, <2>1, <2>2, <3>1 DEF InCall
    <3> QED
      BY <1>7, <2>1, <2>2, <3>2 DEF InCall, CallInv
  <2> QED
    BY <2>1, <2>2 DEF CallInv, Allocated, Enter
<1> QED
  BY <1>3, <1>4, <1>5, <1>6 DEF IInv, OnlyKeysAreLeft, Enter

LEMMA ReturnInv ==
  ASSUME IInv, NEW t \in Threads, NEW o \in Objects, ReturnFromC(t, o)
  PROVE  IInv'
<1>1. call[t] \in Calls /\ call[t] # None /\ CallInv(t)
  BY ContextsAssumption DEF IInv, TypeOK, ReturnFromC, InCall
<1>2. PICK r \in call[t].results : buffers' = [buffers EXCEPT ![t] = @ \cup r]
  BY DEF ReturnFromC
<1> DEFINE c == [call[t] EXCEPT !.at = "after"]
<1>4. /\ c \in Calls /\ c.of = call[t].of /\ c.at = "after"
      /\ c.results = call[t].results /\ c.receiver = call[t].receiver
  BY <1>1 DEF Calls
<1> HIDE DEF c
<1>5. call' = [call EXCEPT ![t] = c]
  BY DEF ReturnFromC, c
<1>11. /\ call[t].at = "inside" /\ call'[t] = c
       /\ \A u \in Threads \ {t} : call'[u] = call[u] /\ buffers'[u] = buffers[u]
  BY <1>2, <1>5 DEF IInv, TypeOK, ReturnFromC
<1>6. r \subseteq Buffers
  BY <1>1, <1>2 DEF Calls
<1>7. TypeOK'
  <2>1. call' \in [Threads -> Calls \cup {None}]
    BY <1>4, <1>5 DEF IInv, TypeOK
  <2>2. buffers' \in [Threads -> SUBSET Buffers]
    BY <1>2, <1>6 DEF IInv, TypeOK
  <2> QED
    BY <2>1, <2>2 DEF IInv, TypeOK, ReturnFromC
<1>8. \A x \in Objects : ContextInv(x)'
  <2>1. \A x \in Objects, u \in Threads : FreedBy(u, x)' = FreedBy(u, x)
    BY <1>4, <1>11 DEF FreedBy, InCall
  <2> QED
    BY <2>1 DEF IInv, ContextInv, ReturnFromC
<1>9. CallInv(t)'
  BY <1>1, <1>2, <1>4, <1>5 DEF IInv, TypeOK, CallInv, Allocated, ReturnFromC
<1>10. \A u \in Threads \ {t} : CallInv(u)'
  <2>1. \A v \in Threads, x \in Objects : InCall(v, x)' => InCall(v, x)
    BY <1>1, <1>4, <1>11, ContextsAssumption DEF InCall
  <2>2. \A u \in Threads \ {t} : call[u] # None => call[u].of \in Objects
    BY DEF IInv, TypeOK, Calls
  <2> QED
    BY <1>11, <2>1, <2>2 DEF IInv, CallInv, Allocated, ReturnFromC
<1> QED
  BY <1>7, <1>8, <1>9, <1>10 DEF IInv, OnlyKeysAreLeft, ReturnFromC

LEMMA FinishInv ==
  ASSUME IInv, NEW t \in Threads, NEW o \in Objects, NEW language \in {"Go", "Rust", "Python"},
         NEW freed, Finish(t, o, language, freed),
         \/ o \in Go /\ language = "Go" /\ freed = GoFrees
         \/ o \in Rust /\ language = "Rust" /\ freed = RustFrees
         \/ o \in Python /\ language = "Python" /\ freed = {}
  PROVE  IInv'
<1>1. call' = [call EXCEPT ![t] = None] /\ buffers' = [buffers EXCEPT ![t] = {}]
  BY DEF Finish
<1>2. left' = left \cup {<<language, b>> : b \in buffers[t] \ freed}
  BY DEF Finish
<1>3. TypeOK'
  <2>1. buffers[t] \subseteq Buffers
    BY DEF IInv, TypeOK
  <2>2. \A b \in buffers[t] : <<language, b>> \in {"Go", "Rust", "Python"} \X (Buffers \cup {"key copy"})
    BY <2>1
  <2>3. left' \subseteq {"Go", "Rust", "Python"} \X (Buffers \cup {"key copy"})
    <3> SUFFICES ASSUME NEW l \in left' PROVE l \in {"Go", "Rust", "Python"} \X (Buffers \cup {"key copy"})
      OBVIOUS
    <3>1. l \in left \/ \E b \in buffers[t] : l = <<language, b>>
      BY <1>2
    <3> QED
      BY <2>2, <3>1, Zenon DEF IInv, TypeOK
  <2> QED
    BY <1>1, <2>3 DEF IInv, TypeOK, Finish
<1>4. \A x \in Objects : ContextInv(x)'
  <2>1. \A x \in Objects, u \in Threads : FreedBy(u, x)' = FreedBy(u, x)
    BY <1>1 DEF IInv, TypeOK, FreedBy, InCall, Finish
  <2> QED
    BY <2>1 DEF IInv, ContextInv, Finish
<1>5. \A u \in Threads : CallInv(u)'
  <2>1. /\ call'[t] = None
        /\ \A u \in Threads \ {t} : call'[u] = call[u] /\ buffers'[u] = buffers[u]
    BY <1>1 DEF IInv, TypeOK
  <2>2. \A v \in Threads : \A x : InCall(v, x)' => InCall(v, x)
    BY <2>1 DEF InCall
  <2> QED
    BY <2>1, <2>2 DEF IInv, CallInv, Allocated, Finish
<1>6. OnlyKeysAreLeft'
  <2>1. buffers[t] \subseteq Allocated(o)
    BY DEF IInv, CallInv, Finish, InCall
  <2>2. o \in Go => buffers[t] \ freed \subseteq {"key", "unserialized"}
    BY <2>1, ContextsAssumption DEF Allocated
  <2>3. o \in Rust => buffers[t] \ freed \subseteq {"unserialized"}
    BY <2>1, ContextsAssumption DEF Allocated
  <2>4. o \in Python => buffers[t] = {}
    BY <2>1, ContextsAssumption DEF Allocated
  <2> QED
    BY <1>2, <2>2, <2>3, <2>4 DEF IInv, OnlyKeysAreLeft
<1> QED
  BY <1>3, <1>4, <1>5, <1>6 DEF IInv

\* Freeing an object that no call is inside C with, in one step.
LEMMA DeleteInv ==
  ASSUME IInv, NEW o \in Objects, owner[o] # None, Delete(o),
         \A t \in Threads : InCall(t, o) => call[t].at = "after",
         referenced' \in [Objects -> BOOLEAN],
         \A x \in Objects : referenced'[x] => referenced[x],
         UNCHANGED <<class, owner, call, buffers, left>>
  PROVE  IInv'
<1>1. \/ UNCHANGED <<context, frees>>
      \/ /\ context[o] /\ frees[o] = 0
         /\ context' = [context EXCEPT ![o] = FALSE] /\ frees' = [frees EXCEPT ![o] = 1]
  BY DEF IInv, ContextInv, FreedBy, Delete
<1>2. context' \in [Objects -> BOOLEAN]
  BY <1>1, Zenon DEF IInv, TypeOK
<1>3. TypeOK'
  <2>1. CASE UNCHANGED frees
    BY <1>2, <2>1 DEF IInv, TypeOK
  <2>2. CASE frees' = [frees EXCEPT ![o] = 1]
    BY <1>2, <2>2 DEF IInv, TypeOK
  <2> QED
    BY <1>1, <2>1, <2>2 DEF IInv, TypeOK
<1>6. /\ \A x \in Objects, u \in Threads : FreedBy(u, x)' = FreedBy(u, x)
      /\ \A x \in Objects, u \in Threads : InCall(u, x)' = InCall(u, x)
  BY DEF FreedBy, InCall
<1>4. \A x \in Objects : ContextInv(x)'
  <2>1. CASE UNCHANGED <<context, frees>>
    BY <1>6, <2>1 DEF IInv, ContextInv
  <2>2. CASE /\ context' = [context EXCEPT ![o] = FALSE]
             /\ frees' = [frees EXCEPT ![o] = 1]
    <3>1. owner'[o] # None /\ ~ context'[o] /\ frees'[o] = 1
      BY <2>2 DEF IInv, TypeOK
    <3>2. \A x \in Objects \ {o} :
            owner'[x] = owner[x] /\ context'[x] = context[x] /\ frees'[x] = frees[x]
      BY <2>2 DEF IInv, TypeOK
    <3>3. ContextInv(o)'
      BY <3>1 DEF ContextInv
    <3>4. \A x \in Objects \ {o} : ContextInv(x)'
      BY <1>6, <3>2 DEF IInv, ContextInv
    <3> QED
      BY <3>3, <3>4
  <2> QED
    BY <1>1, <2>1, <2>2
<1>5. \A t \in Threads : CallInv(t)'
  <2>1. \A t \in Threads : call[t] # None => call[t].of \in Objects
    BY DEF IInv, TypeOK, Calls
  <2>2. \A x \in Objects : x # o => context'[x] = context[x]
    BY <1>1 DEF IInv, TypeOK
  <2> SUFFICES ASSUME NEW t \in Threads, call[t] # None PROVE CallInv(t)'
    BY DEF CallInv
  <2>3. call[t].at # "after" => call[t].of # o
    BY DEF InCall
  <2>4. CallInv(t)
    BY DEF IInv
  <2> QED
    BY <2>1, <2>2, <2>3, <2>4 DEF CallInv, InCall, Allocated
<1> QED
  BY <1>3, <1>4, <1>5 DEF IInv, OnlyKeysAreLeft

(***************************************************************************)
(* Destroy, step by step: the thread is the only one in a call on the      *)
(* object, so the pointer it frees by is good, and is still there to clear. *)
(***************************************************************************)
\* A step of Destroy leaves the calls of the other threads as they are.
LEMMA OtherCalls ==
  ASSUME IInv, NEW t \in Threads, NEW o \in Objects, NEW c,
         call' = [call EXCEPT ![t] = c],
         \A u \in Threads : InCall(u, o) => u = t,
         \A u \in Threads \ {t} : buffers'[u] = buffers[u], UNCHANGED <<class, owner, left>>,
         \A x \in Objects \ {o} : context[x] => context'[x],
         \A x \in Objects : ~ (InCall(t, x) /\ x # o),
         c = None \/ c.of = o
  PROVE  /\ call'[t] = c
         /\ \A u \in Threads : InCall(u, o)' => u = t
         /\ \A u \in Threads, x \in Objects \ {o} : FreedBy(u, x)' = FreedBy(u, x)
         /\ \A u \in Threads \ {t} : ~ FreedBy(u, o)'
         /\ \A u \in Threads \ {t} : CallInv(u)'
<1>1. /\ call'[t] = c /\ \A u \in Threads \ {t} : call'[u] = call[u]
  BY DEF IInv, TypeOK
<1>2. \A u \in Threads : InCall(u, o)' => u = t
  BY <1>1 DEF InCall
<1>3. \A u \in Threads, x \in Objects \ {o} : InCall(u, x)' = InCall(u, x)
  BY <1>1 DEF InCall
<1>4. \A u \in Threads, x \in Objects \ {o} : FreedBy(u, x)' = FreedBy(u, x)
  BY <1>1, <1>3 DEF FreedBy, InCall
<1>5. \A u \in Threads \ {t} : ~ FreedBy(u, o)'
  BY <1>2 DEF FreedBy
<1>6. ASSUME NEW u \in Threads \ {t} PROVE CallInv(u)'
  <2> SUFFICES ASSUME call[u] # None PROVE CallInv(u)'
    BY <1>1 DEF CallInv
  <2>1. call'[u] = call[u] /\ CallInv(u) /\ call[u].of \in Objects
    BY <1>1 DEF IInv, TypeOK, Calls
  <2>2. call[u].of # o
    BY DEF InCall
  <2> QED
    BY <1>3, <2>1, <2>2 DEF CallInv, Allocated
<1> QED
  BY <1>1, <1>2, <1>4, <1>5, <1>6

LEMMA GoDestroyInv ==
  ASSUME IInv, NEW t \in Threads, NEW o \in Objects, GoDestroy(t, o)
  PROVE  IInv'
<1> DEFINE c == At(o, "destroying", GoDestroyMethod)
<1>1. /\ c \in Calls /\ c.of = o /\ c.at = "destroying" /\ c.receiver # {}
      /\ c.results = {{}}
  BY DEF At, Calls, GoDestroyMethod, Method
<1> HIDE DEF c
<1>2. call' = [call EXCEPT ![t] = c] /\ call[t] = None
  BY DEF GoDestroy, Idle, c
<1>3. TypeOK'
  <2>1. call' \in [Threads -> Calls \cup {None}]
    BY <1>1, <1>2 DEF IInv, TypeOK
  <2>2. buffers' \in [Threads -> SUBSET Buffers]
    BY DEF IInv, TypeOK, GoDestroy, GoDestroyMethod, Method
  <2> QED
    BY <2>1, <2>2 DEF IInv, TypeOK, GoDestroy
<1>4. /\ call'[t] = c
      /\ \A u \in Threads : InCall(u, o)' => u = t
      /\ \A u \in Threads, x \in Objects \ {o} : FreedBy(u, x)' = FreedBy(u, x)
      /\ \A u \in Threads \ {t} : ~ FreedBy(u, o)'
      /\ \A u \in Threads \ {t} : CallInv(u)'
  <2>1. /\ \A u \in Threads : InCall(u, o) => u = t
        /\ \A x \in Objects : ~ (InCall(t, x) /\ x # o)
        /\ \A x \in Objects \ {o} : context[x] => context'[x]
        /\ \A u \in Threads \ {t} : buffers'[u] = buffers[u]
        /\ UNCHANGED <<class, owner, left>>
    BY <1>2 DEF IInv, TypeOK, GoDestroy, NoCallOn, InCall
  <2>3. call' = [call EXCEPT ![t] = c] /\ (c = None \/ c.of = o)
    BY <1>1, <1>2
  <2> QED
    BY <1>3, <2>1, <2>3, OtherCalls, Zenon
<1>5. \A u \in Threads : ~ FreedBy(u, o) /\ ~ FreedBy(u, o)'
  BY <1>1, <1>4 DEF FreedBy, GoDestroy, NoCallOn
<1>6. \A x \in Objects : ContextInv(x)'
  BY <1>4, <1>5 DEF IInv, ContextInv, GoDestroy
<1>7. owner[o] # None /\ context[o] /\ o \in Go /\ UNCHANGED <<owner, context>>
  BY DEF IInv, ContextInv, GoDestroy
<1>8. CallInv(t)'
  <2>1. buffers'[t] = {}
    BY DEF IInv, TypeOK, GoDestroy, GoDestroyMethod, Method
  <2> QED
    BY <1>1, <1>4, <1>7, <2>1 DEF CallInv
<1> QED
  BY <1>3, <1>4, <1>6, <1>8 DEF IInv, OnlyKeysAreLeft, GoDestroy

\* What the invariant says of a thread inside Destroy.
LEMMA DestroyFacts ==
  ASSUME IInv, NEW t \in Threads, NEW o \in Objects, Destroying(t, o)
  PROVE  /\ call[t] \in Calls /\ call[t].of = o /\ o \in Go
         /\ owner[o] # None /\ context[o]
         /\ \A u \in Threads : InCall(u, o) => u = t
         /\ \A x \in Objects : ~ (InCall(t, x) /\ x # o)
         /\ frees[o] = IF call[t].at = "freed" THEN 1 ELSE 0
<1>1. call[t] \in Calls /\ call[t] # None /\ call[t].of = o /\ CallInv(t) /\ ContextInv(o)
  BY ContextsAssumption DEF IInv, TypeOK, Destroying, InCall
<1>2. /\ o \in Go /\ owner[o] # None /\ context[o]
      /\ \A u \in Threads : InCall(u, o) => u = t
  BY <1>1 DEF CallInv, Destroying
<1>3. (\E u \in Threads : FreedBy(u, o)) <=> call[t].at = "freed"
  BY <1>1, <1>2 DEF FreedBy, InCall
<1>4. frees[o] = IF call[t].at = "freed" THEN 1 ELSE 0
  BY <1>1, <1>2, <1>3 DEF ContextInv
<1> QED
  BY <1>1, <1>2, <1>4 DEF InCall

LEMMA GoDeleteInv ==
  ASSUME IInv, NEW t \in Threads, NEW o \in Objects, GoDelete(t, o)
  PROVE  IInv'
<1>1. Destroying(t, o) /\ call[t].at = "destroying"
  BY DEF GoDelete, Destroying
<1> DEFINE c == [call[t] EXCEPT !.at = "freed"]
<1>2. /\ c \in Calls /\ c.of = o /\ c.at = "freed" /\ c.receiver = call[t].receiver
      /\ c.results = call[t].results
  BY <1>1, DestroyFacts DEF Calls
<1> HIDE DEF c
<1>3. call' = [call EXCEPT ![t] = c]
  BY DEF GoDelete, c
<1>9. frees[o] = 0 /\ context[o]
  BY <1>1, DestroyFacts
<1>4. frees' = [frees EXCEPT ![o] = 1] /\ UNCHANGED <<owner, context>>
  BY <1>9 DEF GoDelete
<1>5. TypeOK'
  <2>1. call' \in [Threads -> Calls \cup {None}]
    BY <1>2, <1>3 DEF IInv, TypeOK
  <2>2. frees' \in [Objects -> Nat]
    BY <1>4 DEF IInv, TypeOK
  <2> QED
    BY <2>1, <2>2 DEF IInv, TypeOK, GoDelete
<1>6. /\ call'[t] = c
      /\ \A u \in Threads : InCall(u, o)' => u = t
      /\ \A u \in Threads, x \in Objects \ {o} : FreedBy(u, x)' = FreedBy(u, x)
      /\ \A u \in Threads \ {t} : CallInv(u)'
  <2>1. /\ \A u \in Threads : InCall(u, o) => u = t
        /\ \A x \in Objects : ~ (InCall(t, x) /\ x # o)
    BY <1>1, DestroyFacts
  <2>2. /\ \A x \in Objects \ {o} : context[x] => context'[x]
        /\ \A u \in Threads \ {t} : buffers'[u] = buffers[u]
        /\ UNCHANGED <<class, owner, left>>
    BY DEF GoDelete
  <2> QED
    BY <1>2, <1>3, <2>1, <2>2, OtherCalls, Zenon
<1>7. \A x \in Objects : ContextInv(x)'
  <2>1. FreedBy(t, o)' /\ frees'[o] = 1
    BY <1>2, <1>4, <1>6, ContextsAssumption DEF FreedBy, InCall, IInv, TypeOK
  <2>2. ContextInv(o)'
    BY <1>1, <1>4, <2>1, DestroyFacts DEF ContextInv
  <2>3. \A x \in Objects \ {o} :
          owner'[x] = owner[x] /\ context'[x] = context[x] /\ frees'[x] = frees[x]
          /\ referenced'[x] = referenced[x]
    BY <1>4 DEF IInv, TypeOK, GoDelete
  <2>4. \A x \in Objects \ {o} : ContextInv(x)'
    BY <1>6, <2>3 DEF IInv, ContextInv
  <2> QED
    BY <2>2, <2>4
<1>8. CallInv(t)'
  <2>1. CallInv(t) /\ call[t] # None /\ call[t].of = o /\ buffers' = buffers
    BY <1>1 DEF IInv, Destroying, InCall, GoDelete
  <2> QED
    BY <1>1, <1>2, <1>4, <1>6, <2>1, DestroyFacts DEF CallInv, Allocated
<1> QED
  BY <1>5, <1>6, <1>7, <1>8 DEF IInv, OnlyKeysAreLeft, GoDelete

LEMMA GoClearInv ==
  ASSUME IInv, NEW t \in Threads, NEW o \in Objects, GoClear(t, o)
  PROVE  IInv'
<1>1. Destroying(t, o) /\ call[t].at = "freed"
  BY DEF GoClear, Destroying
<1>2. call' = [call EXCEPT ![t] = None] /\ context' = [context EXCEPT ![o] = FALSE]
  BY DEF GoClear
<1>3. TypeOK'
  <2>1. context' \in [Objects -> BOOLEAN]
    BY <1>2, Zenon DEF IInv, TypeOK
  <2> QED
    BY <1>2, <2>1 DEF IInv, TypeOK, GoClear
<1>4. ~ context'[o] /\ \A x \in Objects \ {o} : context'[x] = context[x]
  BY <1>2 DEF IInv, TypeOK
<1>5. /\ call'[t] = None
      /\ \A u \in Threads, x \in Objects \ {o} : FreedBy(u, x)' = FreedBy(u, x)
      /\ \A u \in Threads \ {t} : CallInv(u)'
  <2>1. /\ \A u \in Threads : InCall(u, o) => u = t
        /\ \A x \in Objects : ~ (InCall(t, x) /\ x # o)
    BY <1>1, DestroyFacts
  <2>2. /\ \A x \in Objects \ {o} : context[x] => context'[x]
        /\ \A u \in Threads \ {t} : buffers'[u] = buffers[u]
        /\ UNCHANGED <<class, owner, left>>
    BY <1>4 DEF GoClear
  <2> QED
    BY <1>2, <2>1, <2>2, OtherCalls, Zenon
<1>6. \A x \in Objects : ContextInv(x)'
  <2>1. ContextInv(o)'
    BY <1>1, <1>4, DestroyFacts DEF ContextInv, GoClear
  <2>2. \A x \in Objects \ {o} : ContextInv(x)'
    BY <1>4, <1>5 DEF IInv, ContextInv, GoClear
  <2> QED
    BY <2>1, <2>2
<1>7. CallInv(t)'
  BY <1>1, <1>5 DEF CallInv, GoClear
<1> QED
  BY <1>3, <1>5, <1>6, <1>7 DEF IInv, OnlyKeysAreLeft, GoClear

LEMMA ForgetFacts ==
  ASSUME IInv, NEW o \in Objects, Forget(o)
  PROVE  /\ referenced' \in [Objects -> BOOLEAN]
         /\ \A x \in Objects : referenced'[x] => referenced[x]
<1>1. referenced' \in [Objects -> BOOLEAN]
  BY Zenon DEF IInv, TypeOK, Forget
<1>2. \A x \in Objects : referenced'[x] => referenced[x]
  BY DEF IInv, TypeOK, Forget
<1> QED
  BY <1>1, <1>2

LEMMA GoForgetInv ==
  ASSUME IInv, NEW o \in Objects, GoForget(o)
  PROVE  IInv'
<1>1. TypeOK'
  BY ForgetFacts DEF IInv, TypeOK, GoForget
<1>2. \A x \in Objects : ContextInv(x)'
  BY ForgetFacts DEF IInv, ContextInv, FreedBy, InCall, GoForget
<1> QED
  BY <1>1, <1>2 DEF IInv, CallInv, InCall, Allocated, OnlyKeysAreLeft, GoForget

\* Where an object is freed in one step: it was made, and no call has its pointer.
LEMMA FreedWhere ==
  ASSUME IInv, NEW o \in Objects, GoFinalize(o) \/ RustDrop(o) \/ PythonDrop(o)
  PROVE  /\ owner[o] # None /\ Delete(o)
         /\ \A t \in Threads : InCall(t, o) => call[t].at = "after"
         /\ referenced' \in [Objects -> BOOLEAN]
         /\ \A x \in Objects : referenced'[x] => referenced[x]
         /\ UNCHANGED <<class, owner, call, buffers, left>>
<1>1. CASE GoFinalize(o)
  BY <1>1 DEF IInv, TypeOK, CallInv, InCall, GoFinalize, KeepsReceiver
<1>3. CASE RustDrop(o)
  BY <1>3, ForgetFacts DEF IInv, ContextInv, RustDrop, NoCallOn
<1>4. CASE PythonDrop(o)
  BY <1>4, ForgetFacts DEF IInv, ContextInv, PythonDrop, NoCallOn
<1> QED
  BY <1>1, <1>3, <1>4

LEMMA NextInv ==
  ASSUME IInv, Next
  PROVE  IInv'
<1>1. PICK o \in Objects :
        \/ GoForget(o) \/ GoFinalize(o) \/ RustDrop(o) \/ PythonDrop(o)
        \/ \E t \in Threads :
             \/ GoCreate(t, o) \/ RustCreate(t, o) \/ PythonCreate(t, o)
             \/ GoEnter(t, o) \/ RustEnter(t, o) \/ PythonEnter(t, o)
             \/ ReturnFromC(t, o)
             \/ GoDestroy(t, o) \/ GoDelete(t, o) \/ GoClear(t, o)
             \/ GoFinish(t, o) \/ RustFinish(t, o) \/ PythonFinish(t, o)
  BY DEF Next
<1>2. CASE GoFinalize(o) \/ RustDrop(o) \/ PythonDrop(o)
  BY <1>2, FreedWhere, DeleteInv
<1>3. CASE GoForget(o)
  BY <1>3, GoForgetInv
<1>4. ASSUME NEW t \in Threads, GoCreate(t, o) \/ RustCreate(t, o) \/ PythonCreate(t, o)
      PROVE  IInv'
  BY <1>4, CreateInv DEF GoCreate, RustCreate, PythonCreate
<1>5. ASSUME NEW t \in Threads, GoEnter(t, o) \/ RustEnter(t, o) \/ PythonEnter(t, o)
      PROVE  IInv'
  <2>1. CASE GoEnter(t, o)
    BY <2>1, MethodFacts, EnterInv DEF GoEnter
  <2>2. CASE RustEnter(t, o)
    BY <2>2, MethodFacts, EnterInv, NoDestroyElsewhere, ContextsAssumption DEF RustEnter
  <2>3. CASE PythonEnter(t, o)
    BY <2>3, MethodFacts, EnterInv, NoDestroyElsewhere, ContextsAssumption DEF PythonEnter
  <2> QED
    BY <1>5, <2>1, <2>2, <2>3
<1>6. ASSUME NEW t \in Threads, GoFinish(t, o) \/ RustFinish(t, o) \/ PythonFinish(t, o)
      PROVE  IInv'
  BY <1>6, FinishInv DEF GoFinish, RustFinish, PythonFinish
<1>7. ASSUME NEW t \in Threads, GoDestroy(t, o) \/ GoDelete(t, o) \/ GoClear(t, o)
      PROVE  IInv'
  BY <1>7, GoDestroyInv, GoDeleteInv, GoClearInv
<1> QED
  BY <1>1, <1>2, <1>3, <1>4, <1>5, <1>6, <1>7, ReturnInv

LEMMA Invariance == Spec => []IInv
<1>1. IInv /\ UNCHANGED vars => IInv'
  <2> SUFFICES ASSUME IInv, UNCHANGED vars PROVE IInv'
    OBVIOUS
  <2>1. TypeOK' /\ OnlyKeysAreLeft'
    BY DEF IInv, TypeOK, OnlyKeysAreLeft, vars
  <2>2. \A o \in Objects : ContextInv(o)'
    BY DEF IInv, ContextInv, FreedBy, InCall, vars
  <2>3. \A t \in Threads : CallInv(t)'
    BY DEF IInv, CallInv, InCall, Allocated, vars
  <2> QED
    BY <2>1, <2>2, <2>3 DEF IInv
<1> QED
  BY <1>1, InitInv, NextInv, PTL DEF Spec

\* Whatever calls any number of threads make on any number of objects, and
\* however they end, only the buffers that OnlyKeysAreLeft names are never freed.
THEOREM BuffersAreFreed == Spec => []OnlyKeysAreLeft
  BY Invariance, PTL DEF IInv

-----------------------------------------------------------------------------
(***************************************************************************)
(* The refinement: what a step does to the stage of an object and to what  *)
(* a thread uses.                                                          *)
(***************************************************************************)
LEMMA SameStage ==
  ASSUME NEW o \in Objects, frees'[o] = frees[o], owner'[o] = owner[o]
  PROVE  Stage(o)' = Stage(o)
BY DEF Stage

LEMMA Unmade ==
  ASSUME NEW o \in Objects, frees[o] = 0, owner[o] = None
  PROVE  Stage(o) = "unmade"
BY DEF Stage

LEMMA Live ==
  ASSUME NEW o \in Objects, frees[o] = 0, owner[o] # None
  PROVE  Stage(o) = "live"
BY DEF Stage

LEMMA LiveNext ==
  ASSUME NEW o \in Objects, frees'[o] = 0, owner'[o] # None
  PROVE  Stage(o)' = "live"
BY DEF Stage

LEMMA FreedNext ==
  ASSUME NEW o \in Objects, frees'[o] = 1
  PROVE  Stage(o)' = "freed"
BY DEF Stage

LEMMA SameUse ==
  ASSUME NEW t \in Threads, call'[t] = call[t]
  PROVE  UsedBy(t)' = UsedBy(t)
BY DEF UsedBy, InCall

LEMMA NoUse ==
  ASSUME NEW t \in Threads, call[t] = None \/ call[t].at # "inside"
  PROVE  UsedBy(t) = {}
BY DEF UsedBy, InCall

LEMMA NoUseNext ==
  ASSUME NEW t \in Threads, call'[t] = None \/ call'[t].at # "inside"
  PROVE  UsedBy(t)' = {}
BY DEF UsedBy, InCall

\* A step that changes neither is a stutter.
LEMMA Stutters ==
  ASSUME \A o \in Objects : Stage(o)' = Stage(o), \A t \in Threads : UsedBy(t)' = UsedBy(t)
  PROVE  UNCHANGED Objectlife!vars
BY DEF Objectlife!vars

LEMMA CreateMakes ==
  ASSUME IInv, NEW t \in Threads, NEW o \in Objects, NEW user \in Threads \cup {Any},
         Create(t, o, user)
  PROVE  Objectlife!Make(o) \/ UNCHANGED Objectlife!vars
<1>1. \A u \in Threads : UsedBy(u)' = UsedBy(u)
  BY SameUse DEF Create
<1>2. CASE UNCHANGED <<owner, context, referenced>>
  BY <1>1, <1>2, SameStage, Stutters DEF Create
<1>3. CASE owner' = [owner EXCEPT ![o] = user]
  <2>1. Stage(o) = "unmade" /\ Stage(o)' = "live"
    BY <1>3, Unmade, LiveNext, ContextsAssumption DEF IInv, TypeOK, ContextInv, Create
  <2>2. \A x \in Objects \ {o} : Stage(x)' = Stage(x)
    BY <1>3, SameStage DEF IInv, TypeOK, Create
  <2> QED
    BY <1>1, <2>1, <2>2 DEF Objectlife!Make
<1> QED
  BY <1>2, <1>3 DEF Create

LEMMA EnterEnters ==
  ASSUME IInv, NEW t \in Threads, NEW o \in Objects, NEW method, Enter(t, o, method),
         method.results \in SUBSET SUBSET Buffers,
         method.receiver \subseteq {"success", "error"}, NoDestroyOn(o)
  PROVE  Objectlife!Enter(t, {o})
<1>1. Stage(o) = "live"
  BY Live DEF IInv, ContextInv, FreedBy, NoDestroyOn, Destroying, Enter
<1>2. \A x \in Objects : Stage(x)' = Stage(x)
  BY SameStage DEF Enter
<1>3. UsedBy(t) = {}
  BY NoUse DEF Enter, Idle
<1> DEFINE c == At(o, "inside", method)
<1>4. c.of = o /\ c.at = "inside" /\ c # None
  BY ContextsAssumption DEF At, Calls
<1> HIDE DEF c
<1>5. call' = [call EXCEPT ![t] = c]
  BY DEF Enter, c
<1>6. UsedBy(t)' = {o}
  BY <1>4, <1>5 DEF IInv, TypeOK, UsedBy, InCall
<1>7. \A u \in Threads \ {t} : UsedBy(u)' = UsedBy(u)
  BY <1>5, SameUse DEF IInv, TypeOK
<1> QED
  BY <1>1, <1>2, <1>3, <1>6, <1>7 DEF Objectlife!Enter

LEMMA ReturnLeaves ==
  ASSUME IInv, NEW t \in Threads, NEW o \in Objects, ReturnFromC(t, o)
  PROVE  Objectlife!Leave(t)
<1>1. \A x \in Objects : Stage(x)' = Stage(x)
  BY SameStage DEF ReturnFromC
<1>2. call' = [call EXCEPT ![t] = [call[t] EXCEPT !.at = "after"]]
  BY DEF ReturnFromC
<1>5. call[t] \in Calls
  BY ContextsAssumption DEF IInv, TypeOK, ReturnFromC, InCall
<1>3. UsedBy(t)' = {}
  BY <1>2, <1>5, NoUseNext DEF IInv, TypeOK, Calls
<1>4. \A u \in Threads \ {t} : UsedBy(u)' = UsedBy(u)
  BY <1>2, SameUse DEF IInv, TypeOK
<1> QED
  BY <1>1, <1>3, <1>4 DEF Objectlife!Leave

LEMMA FinishStutters ==
  ASSUME IInv, NEW t \in Threads, NEW o \in Objects, NEW language, NEW freed,
         Finish(t, o, language, freed)
  PROVE  UNCHANGED Objectlife!vars
<1>1. \A x \in Objects : Stage(x)' = Stage(x)
  BY SameStage DEF Finish
<1>2. UsedBy(t) = {}
  BY NoUse DEF Finish
<1>3. UsedBy(t)' = {}
  BY NoUseNext DEF IInv, TypeOK, Finish
<1>4. \A u \in Threads \ {t} : UsedBy(u)' = UsedBy(u)
  BY SameUse DEF IInv, TypeOK, Finish
<1> QED
  BY <1>1, <1>2, <1>3, <1>4, Stutters

LEMMA DeleteFrees ==
  ASSUME IInv, NEW o \in Objects, owner[o] # None, Delete(o),
         \A t \in Threads : InCall(t, o) => call[t].at = "after",
         UNCHANGED <<owner, call>>
  PROVE  Objectlife!Free(o) \/ UNCHANGED Objectlife!vars
<1>1. \A t \in Threads : UsedBy(t)' = UsedBy(t) /\ o \notin UsedBy(t)
  BY SameUse DEF UsedBy
<1>2. CASE ~ context[o]
  BY <1>1, <1>2, SameStage, Stutters DEF Delete
<1>3. CASE context[o]
  <2>1. frees[o] = 0 /\ frees' = [frees EXCEPT ![o] = 1]
    BY <1>3 DEF IInv, ContextInv, FreedBy, Delete
  <2>2. Stage(o) = "live" /\ Stage(o)' = "freed"
    BY <2>1, Live, FreedNext DEF IInv, TypeOK
  <2>3. \A x \in Objects \ {o} : Stage(x)' = Stage(x)
    BY <2>1, SameStage DEF IInv, TypeOK
  <2> QED
    BY <1>1, <2>2, <2>3 DEF Objectlife!Free
<1> QED
  BY <1>2, <1>3

\* The step of Destroy that deletes the object is the one that frees it.
LEMMA DestroyFrees ==
  ASSUME IInv, NEW t \in Threads, NEW o \in Objects,
         GoDestroy(t, o) \/ GoDelete(t, o) \/ GoClear(t, o)
  PROVE  Objectlife!Free(o) \/ UNCHANGED Objectlife!vars
<1>1. /\ call[t] = None \/ call[t].at # "inside"
      /\ call'[t] = None \/ call'[t].at # "inside"
      /\ \A u \in Threads \ {t} : call'[u] = call[u]
  <2>1. CASE GoDestroy(t, o)
    BY <2>1 DEF IInv, TypeOK, GoDestroy, Idle, At
  <2>2. CASE GoDelete(t, o)
    <3>1. call[t] \in Calls
      BY <2>2, ContextsAssumption DEF IInv, TypeOK, GoDelete, InCall
    <3> QED
      BY <2>2, <3>1 DEF IInv, TypeOK, GoDelete, Calls
  <2>3. CASE GoClear(t, o)
    BY <2>3 DEF IInv, TypeOK, GoClear
  <2> QED
    BY <2>1, <2>2, <2>3
<1>2. \A u \in Threads : UsedBy(u)' = UsedBy(u)
  BY <1>1, NoUse, NoUseNext, SameUse
<1>3. CASE GoDestroy(t, o) \/ GoClear(t, o)
  BY <1>2, <1>3, SameStage, Stutters DEF GoDestroy, GoClear
<1>4. CASE GoDelete(t, o)
  <2>1. Destroying(t, o) /\ call[t].at = "destroying"
    BY <1>4 DEF GoDelete, Destroying
  <2>2. owner[o] # None /\ context[o] /\ frees[o] = 0 /\ \A u \in Threads : InCall(u, o) => u = t
    BY <2>1, DestroyFacts
  <2>3. frees' = [frees EXCEPT ![o] = 1] /\ owner' = owner
    BY <1>4, <2>2 DEF GoDelete
  <2>4. Stage(o) = "live" /\ Stage(o)' = "freed"
    BY <2>2, <2>3, Live, FreedNext DEF IInv, TypeOK
  <2>5. \A x \in Objects \ {o} : Stage(x)' = Stage(x)
    BY <2>3, SameStage DEF IInv, TypeOK
  <2>6. \A u \in Threads : o \notin UsedBy(u)
    BY <2>1, <2>2 DEF UsedBy, InCall
  <2> QED
    BY <1>2, <2>4, <2>5, <2>6 DEF Objectlife!Free
<1> QED
  BY <1>3, <1>4

LEMMA Refinement ==
  ASSUME IInv, Next
  PROVE  Objectlife!Next \/ UNCHANGED Objectlife!vars
<1>1. PICK o \in Objects :
        \/ GoForget(o) \/ GoFinalize(o) \/ RustDrop(o) \/ PythonDrop(o)
        \/ \E t \in Threads :
             \/ GoCreate(t, o) \/ RustCreate(t, o) \/ PythonCreate(t, o)
             \/ GoEnter(t, o) \/ RustEnter(t, o) \/ PythonEnter(t, o)
             \/ ReturnFromC(t, o)
             \/ GoDestroy(t, o) \/ GoDelete(t, o) \/ GoClear(t, o)
             \/ GoFinish(t, o) \/ RustFinish(t, o) \/ PythonFinish(t, o)
  BY DEF Next
<1>2. CASE GoFinalize(o) \/ RustDrop(o) \/ PythonDrop(o)
  BY <1>2, FreedWhere, DeleteFrees DEF Objectlife!Next
<1>3. CASE GoForget(o)
  BY <1>3, SameStage, SameUse, Stutters DEF GoForget
<1>4. ASSUME NEW t \in Threads, GoCreate(t, o) \/ RustCreate(t, o) \/ PythonCreate(t, o)
      PROVE  Objectlife!Next \/ UNCHANGED Objectlife!vars
  BY <1>4, CreateMakes DEF GoCreate, RustCreate, PythonCreate, Objectlife!Next
<1>5. ASSUME NEW t \in Threads, GoEnter(t, o) \/ RustEnter(t, o) \/ PythonEnter(t, o)
      PROVE  Objectlife!Next
  <2>1. Objectlife!Enter(t, {o})
    <3>1. CASE GoEnter(t, o)
      BY <3>1, MethodFacts, EnterEnters DEF GoEnter
    <3>2. CASE RustEnter(t, o)
      BY <3>2, MethodFacts, EnterEnters, NoDestroyElsewhere, ContextsAssumption DEF RustEnter
    <3>3. CASE PythonEnter(t, o)
      BY <3>3, MethodFacts, EnterEnters, NoDestroyElsewhere, ContextsAssumption DEF PythonEnter
    <3> QED
      BY <1>5, <3>1, <3>2, <3>3
  <2> QED
    BY <2>1 DEF Objectlife!Next
<1>6. ASSUME NEW t \in Threads, GoFinish(t, o) \/ RustFinish(t, o) \/ PythonFinish(t, o)
      PROVE  UNCHANGED Objectlife!vars
  BY <1>6, FinishStutters DEF GoFinish, RustFinish, PythonFinish
<1>7. ASSUME NEW t \in Threads, ReturnFromC(t, o)
      PROVE  Objectlife!Next
  BY <1>7, ReturnLeaves DEF Objectlife!Next
<1>8. ASSUME NEW t \in Threads, GoDestroy(t, o) \/ GoDelete(t, o) \/ GoClear(t, o)
      PROVE  Objectlife!Next \/ UNCHANGED Objectlife!vars
  BY <1>8, DestroyFrees DEF Objectlife!Next
<1> QED
  BY <1>1, <1>2, <1>3, <1>4, <1>5, <1>6, <1>7, <1>8

\* For any number of threads and of objects in each language the promise of Lifetime
\* is kept: an object is freed once, and never under a call that uses it, by a drop,
\* by a finalizer that runs as early as the compiler lets it, or by a Destroy that
\* the program calls from any thread under no other call of its own on the wrapper.
THEOREM LifetimeRefined == Spec => ImplementsLifetime
<1>1. Init => Objectlife!Init
  <2> SUFFICES ASSUME Init PROVE Objectlife!Init
    OBVIOUS
  <2>1. \A o \in Objects : Stage(o) = "unmade"
    BY DEF Init, Stage
  <2>2. \A t \in Threads : UsedBy(t) = {}
    BY NoUse DEF Init
  <2> QED
    BY <2>1, <2>2 DEF Objectlife!Init
<1>2. IInv /\ [Next]_vars => [Objectlife!Next]_(Objectlife!vars)
  <2>1. ASSUME UNCHANGED vars PROVE UNCHANGED Objectlife!vars
    BY <2>1, SameStage, SameUse, Stutters DEF vars
  <2> QED
    BY <2>1, Refinement
<1> QED
  BY <1>1, <1>2, Invariance, PTL DEF Spec, ImplementsLifetime, Objectlife!Spec
=============================================================================
