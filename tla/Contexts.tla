------------------------------ MODULE Contexts ------------------------------
(***************************************************************************)
(* The C interface (c/psi_client.cpp, c/psi_server.cpp), the Go and Rust   *)
(* bindings over it, and the Python binding over the C++ classes: how a    *)
(* native object is kept and freed under the calls of several threads, and *)
(* what becomes of the buffers that C code allocates.                      *)
(*                                                                         *)
(* Go frees an object when the program calls Destroy or from a finalizer,  *)
(* Rust when the wrapper's owner drops it, Python with the last reference. *)
(***************************************************************************)
EXTENDS Integers

CONSTANTS
  Threads,
  Go, Rust, Python,   \* the objects there may be in each language
  None, Any

Objects == Go \cup Rust \cup Python

\* What a wrapper or C allocates for a call.
Buffers == {"inputs", "setup", "response", "request",
            "message", "array", "key", "error", "unserialized"}

\* A call: of an object, where it is, what C may have allocated when it returns,
\* and after which outcomes the method still uses its receiver.
At(o, place, method) ==
  [of |-> o, at |-> place, results |-> method.results, receiver |-> method.receiver]
Calls == [of : Objects, at : {"inside", "after", "destroying", "freed"},
          results : SUBSET SUBSET Buffers, receiver : SUBSET {"success", "error"}]

ASSUME ContextsAssumption ==
  /\ Go \cap Rust = {} /\ Go \cap Python = {} /\ Rust \cap Python = {}
  /\ None # Any /\ None \notin Threads /\ Any \notin Threads
  /\ None \notin Calls

VARIABLES
  class,      \* whether an object is a client or a server
  owner,      \* the thread that may use the object, or Any; None before it is made
  context,    \* whether the wrapper's pointer to the object is not null
  frees,      \* how often the object was freed
  referenced, \* whether the program still refers to the wrapper
  call,       \* the call of each thread, or None
  buffers,    \* what the call has allocated with malloc and not freed
  left        \* what was never freed, and by which language

vars == <<class, owner, context, frees, referenced, call, buffers, left>>

Init ==
  /\ class \in [Objects -> {"client", "server"}]
  /\ owner = [o \in Objects |-> None]
  /\ context = [o \in Objects |-> FALSE]
  /\ frees = [o \in Objects |-> 0]
  /\ referenced = [o \in Objects |-> FALSE]
  /\ call = [t \in Threads |-> None]
  /\ buffers = [t \in Threads |-> {}]
  /\ left = {}

-----------------------------------------------------------------------------
(* What each C function may have allocated when it returns.  A message that *)
(* cannot be serialized stays allocated when its error is returned.         *)
Message == {{"message"}, {"error"}, {"unserialized", "error"}}

CCreateRequest       == Message
CGetIntersectionSize == {{}, {"error"}}
CGetIntersection     == {{"array"}, {"error"}}
CClientKey           == {{"key"}}
CCreateSetupMessage  == Message
CProcessRequest      == Message
CServerKey           == {{"key"}}

\* A wrapper's method: the arguments it copies with malloc, the function it calls,
\* and the outcomes after which it uses its receiver (Go's loadBytes, loadString).
Method(copies, results, receiver) ==
  [copies |-> copies, results |-> results, receiver |-> receiver]

\* Mutant: the error's text is loaded without the receiver.
GoClientKeyAlone == Method({}, CClientKey, {})

GoCreateRequest       == Method({"inputs"}, CCreateRequest, {"success", "error"})
GoGetIntersection     == Method({"setup", "response"}, CGetIntersection, {"error"})
GoGetIntersectionSize == Method({"setup", "response"}, CGetIntersectionSize, {"error"})
GoClientKey           == Method({}, CClientKey, {"error"})
GoCreateSetupMessage  == Method({"inputs"}, CCreateSetupMessage, {"success", "error"})
GoProcessRequest      == Method({"request"}, CProcessRequest, {"success", "error"})
GoServerKey           == Method({}, CServerKey, {"error"})

\* Destroy sets the receiver's pointer once the object is deleted.
GoDestroyMethod == Method({}, {{}}, {"success"})

\* A borrow or a reference keeps the receiver, not what the method does with it.
RustCreateRequest       == Method({}, CCreateRequest, {})
RustGetIntersectionSize == Method({}, CGetIntersectionSize, {})
RustGetIntersection     == Method({}, CGetIntersection, {})
RustClientKey           == Method({}, CClientKey, {})
RustCreateSetupMessage  == Method({}, CCreateSetupMessage, {})
RustProcessRequest      == Method({}, CProcessRequest, {})
RustServerKey           == Method({}, CServerKey, {})

\* pybind11 converts values: there is nothing for the program to free.
PythonClient == Method({}, {{}}, {})
PythonServer == Method({}, {{}}, {})

GoMethods(o) ==
  IF class[o] = "client"
  THEN {GoCreateRequest, GoGetIntersection, GoGetIntersectionSize, GoClientKey}
  ELSE {GoCreateSetupMessage, GoProcessRequest, GoServerKey}

RustMethods(o) ==
  IF class[o] = "client"
  THEN {RustCreateRequest, RustGetIntersectionSize, RustGetIntersection, RustClientKey}
  ELSE {RustCreateSetupMessage, RustProcessRequest, RustServerKey}

-----------------------------------------------------------------------------
Idle(t) == call[t] = None

\* The factory stores the object in the wrapper, or fails: the wrapper is dropped,
\* and the error's text freed once it has been copied.
Create(t, o, user) ==
  /\ Idle(t) /\ owner[o] = None
  /\ \/ /\ owner' = [owner EXCEPT ![o] = user]
        /\ context' = [context EXCEPT ![o] = TRUE]
        /\ referenced' = [referenced EXCEPT ![o] = TRUE]
     \/ UNCHANGED <<owner, context, referenced>>
  /\ UNCHANGED <<class, frees, call, buffers>>

\* CreateFromKey copies the key for C and does not free the copy.
GoCreate(t, o) ==
  /\ o \in Go /\ Create(t, o, Any)
  /\ left' \in {left, left \cup {<<"Go", "key copy">>}}

RustCreate(t, o)   == o \in Rust /\ Create(t, o, t) /\ UNCHANGED left
PythonCreate(t, o) == o \in Python /\ Create(t, o, Any) /\ UNCHANGED left

\* psi_client_delete and psi_server_delete, which leave a null pointer.
Delete(o) ==
  /\ IF context[o]
     THEN /\ frees' = [frees EXCEPT ![o] = @ + 1]
          /\ context' = [context EXCEPT ![o] = FALSE]
     ELSE UNCHANGED <<frees, context>>

InCall(t, o) == call[t] # None /\ call[t].of = o
NoCallOn(o) == \A t \in Threads : ~ InCall(t, o)

Destroying(t, o) == InCall(t, o) /\ call[t].at \in {"destroying", "freed"}
NoDestroyOn(o) == \A t \in Threads : ~ Destroying(t, o)

-----------------------------------------------------------------------------
\* The wrapper tests its pointer, copies the arguments and passes the pointer to C.
Enter(t, o, method) ==
  /\ Idle(t) /\ referenced[o] /\ context[o]
  /\ call' = [call EXCEPT ![t] = At(o, "inside", method)]
  /\ buffers' = [buffers EXCEPT ![t] = method.copies]
  /\ UNCHANGED <<class, owner, context, frees, referenced, left>>

\* Any goroutine may call, but not while the program's own Destroy runs.
GoEnter(t, o) ==
  o \in Go /\ NoDestroyOn(o) /\ \E method \in GoMethods(o) : Enter(t, o, method)

\* A wrapper holds a raw pointer, so it stays on the thread that made it.
RustEnter(t, o) ==
  o \in Rust /\ owner[o] = t /\ \E method \in RustMethods(o) : Enter(t, o, method)

\* The call guard releases the interpreter lock: any thread may enter meanwhile.
PythonEnter(t, o) ==
  o \in Python /\ Enter(t, o, IF class[o] = "client" THEN PythonClient ELSE PythonServer)

ReturnFromC(t, o) ==
  /\ InCall(t, o) /\ call[t].at = "inside"
  /\ call' = [call EXCEPT ![t] = [@ EXCEPT !.at = "after"]]
  /\ \E r \in call[t].results : buffers' = [buffers EXCEPT ![t] = @ \cup r]
  /\ UNCHANGED <<class, owner, context, frees, referenced, left>>

\* Mutant: the copied inputs are not freed.
GoFreesFewer == {"setup", "response", "request", "message", "array", "error"}

\* The wrapper's deferred frees, loadBytes, loadString and the loop over inputs.
GoFrees == {"inputs", "setup", "response", "request", "message", "array", "error"}

RustFrees == {"message", "array", "key", "error"}

Finish(t, o, language, freed) ==
  /\ InCall(t, o) /\ call[t].at = "after"
  /\ left' = left \cup {<<language, b>> : b \in buffers[t] \ freed}
  /\ buffers' = [buffers EXCEPT ![t] = {}]
  /\ call' = [call EXCEPT ![t] = None]
  /\ UNCHANGED <<class, owner, context, frees, referenced>>

GoFinish(t, o)     == o \in Go /\ Finish(t, o, "Go", GoFrees)
RustFinish(t, o)   == o \in Rust /\ Finish(t, o, "Rust", RustFrees)
PythonFinish(t, o) == o \in Python /\ Finish(t, o, "Python", {})

-----------------------------------------------------------------------------
Forget(o) == referenced' = [referenced EXCEPT ![o] = FALSE]

(* Destroy has no lock: it tests the pointer, lets C test it and delete the  *)
(* object, and then sets it to null.  The program is taken to call it while  *)
(* no other call of its own on the wrapper runs, another Destroy included:   *)
(* nothing in the binding sees to that.                                      *)
GoDestroy(t, o) ==
  /\ o \in Go /\ Idle(t) /\ referenced[o] /\ NoCallOn(o)
  /\ context[o]
  /\ call' = [call EXCEPT ![t] = At(o, "destroying", GoDestroyMethod)]
  /\ buffers' = [buffers EXCEPT ![t] = GoDestroyMethod.copies]
  /\ UNCHANGED <<class, owner, context, frees, referenced, left>>

GoDelete(t, o) ==
  /\ InCall(t, o) /\ call[t].at = "destroying"
  /\ frees' = [frees EXCEPT ![o] = IF context[o] THEN @ + 1 ELSE @]
  /\ call' = [call EXCEPT ![t] = [@ EXCEPT !.at = "freed"]]
  /\ UNCHANGED <<class, owner, context, referenced, buffers, left>>

GoClear(t, o) ==
  /\ InCall(t, o) /\ call[t].at = "freed"
  /\ context' = [context EXCEPT ![o] = FALSE]
  /\ call' = [call EXCEPT ![t] = None]
  /\ UNCHANGED <<class, owner, frees, referenced, buffers, left>>

\* The last use of the wrapper by the program may be a call that is still running.
GoForget(o) ==
  /\ o \in Go /\ referenced[o]
  /\ Forget(o)
  /\ UNCHANGED <<class, owner, context, frees, call, buffers, left>>

\* The compiler keeps a receiver that some path after C still passes on.
KeepsReceiver(t) == call[t].at # "after" /\ call[t].receiver # {}

\* The finalizer calls Destroy on a wrapper that nothing else can reach.
GoFinalize(o) ==
  /\ o \in Go /\ owner[o] # None /\ ~ referenced[o] /\ context[o]
  /\ \A t \in Threads : InCall(t, o) => ~ KeepsReceiver(t)
  /\ Delete(o)
  /\ UNCHANGED <<class, owner, referenced, call, buffers, left>>

\* Drop, which the borrow of a running call keeps off.
RustDrop(o) ==
  /\ o \in Rust /\ referenced[o] /\ NoCallOn(o)
  /\ Delete(o) /\ Forget(o)
  /\ UNCHANGED <<class, owner, call, buffers, left>>

\* The last reference goes; a running call holds one.
PythonDrop(o) ==
  /\ o \in Python /\ referenced[o] /\ NoCallOn(o)
  /\ Delete(o) /\ Forget(o)
  /\ UNCHANGED <<class, owner, call, buffers, left>>

Next ==
  \E o \in Objects :
    \/ GoForget(o) \/ GoFinalize(o) \/ RustDrop(o) \/ PythonDrop(o)
    \/ \E t \in Threads :
         \/ GoCreate(t, o) \/ RustCreate(t, o) \/ PythonCreate(t, o)
         \/ GoEnter(t, o) \/ RustEnter(t, o) \/ PythonEnter(t, o)
         \/ ReturnFromC(t, o)
         \/ GoDestroy(t, o) \/ GoDelete(t, o) \/ GoClear(t, o)
         \/ GoFinish(t, o) \/ RustFinish(t, o) \/ PythonFinish(t, o)

Spec == Init /\ [][Next]_vars

-----------------------------------------------------------------------------
\* Every variable keeps its type.
TypeOK ==
  /\ class \in [Objects -> {"client", "server"}]
  /\ owner \in [Objects -> Threads \cup {None, Any}]
  /\ context \in [Objects -> BOOLEAN]
  /\ frees \in [Objects -> Nat]
  /\ referenced \in [Objects -> BOOLEAN]
  /\ call \in [Threads -> Calls \cup {None}]
  /\ buffers \in [Threads -> SUBSET Buffers]
  /\ left \subseteq {"Go", "Rust", "Python"} \X (Buffers \cup {"key copy"})

\* Of all that the calls allocate, on success and on every error, only Go's two
\* copies of a private key and a message that could not be serialized are not freed.
OnlyKeysAreLeft ==
  left \subseteq {<<"Go", "key">>, <<"Go", "key copy">>,
                  <<"Go", "unserialized">>, <<"Rust", "unserialized">>}

\* No cipher is used by two threads at once: "a shared cipher cannot be used
\* from multiple threads" (parallel_ec.h:40-41).
CipherConfined ==
  \A t, u \in Threads : \A o \in Objects :
    /\ InCall(t, o) /\ call[t].at = "inside"
    /\ InCall(u, o) /\ call[u].at = "inside"
    => t = u

Stage(o) ==
  CASE frees[o] = 1 -> "freed"
    [] frees[o] = 0 /\ owner[o] = None -> "unmade"
    [] frees[o] = 0 /\ owner[o] # None -> "live"
    [] OTHER -> "freed twice"

UsedBy(t) == {o \in Objects : InCall(t, o) /\ call[t].at = "inside"}

Objectlife == INSTANCE Lifetime WITH
  stage <- [o \in Objects |-> Stage(o)],
  using <- [t \in Threads |-> UsedBy(t)]

\* An object is freed once and under no call: by a drop, by a finalizer, whichever
\* methods are still running on the wrapper, or by a Destroy that the program calls
\* from any thread while no other call of its own on that wrapper runs.
ImplementsLifetime == Objectlife!Spec
=============================================================================
