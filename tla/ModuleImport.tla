------------------------------ MODULE ModuleImport ------------------------------
(***************************************************************************)
(* One strict module from creation to publication, on either backend.      *)
(* exec_module (crates/soac_pyo3/src/jit_runtime.rs) drives the SOAC       *)
(* initializer; exec_interpreter_module (crates/soac_jit/src/              *)
(* strict_interpreter.rs) drives the original code on CPython frames.      *)
(* Calls may overlap: the body, a finalizer or another thread may call     *)
(* exec_module again, register definitions, drop objects or clear state    *)
(* at every point where a driver can run Python.                           *)
(***************************************************************************)
EXTENDS SequenceOps

CONSTANTS Calls,      \* exec_module calls, the first import and replays
          Objects,    \* functions and classes the module may create
          Classes,    \* those of them that are classes
          Nothing     \* a driver that holds no upgraded target

ASSUME ImportAssumption == Classes \subseteq Objects /\ Nothing \notin Objects

VARIABLES backend,    \* StrictExecutionBackend, chosen once per process
          phase,      \* NamespacePolicy.phase
          started,    \* NamespacePolicy.execution_started
          entered,    \* initializer_entry is set / original_code_entered
          root,       \* RootExecutionData.phase (interpreter backend)
          rootCode,   \* InterpreterModuleState.root is still Some
          handle,     \* the native module state
          ownerLive,  \* the namespace policy owner is not terminal
          queue,      \* pending finalization, weak, in declaration order
          caps,       \* pending capability publication, weak
          life,       \* what became of each object
          pc,         \* where each call is
          target      \* the object each call has upgraded

objectVars == <<queue, caps, life>>
policyVars == <<phase, started, entered, handle, ownerLive>>
callVars == <<pc, target>>
vars == <<backend, root, rootCode, policyVars, objectVars, callVars>>

Unfinished == {"Discovered", "Initializing", "Sealing"}
Executable == {"Initializing", "Sealing", "Sealed"}
Resting == {"idle", "done", "error"}

Init == /\ backend \in {"soac", "cpython"}
        /\ phase = "Discovered" /\ started = FALSE /\ entered = FALSE
        /\ root = "Ready" /\ rootCode = TRUE
        /\ handle = "absent" /\ ownerLive = TRUE
        /\ queue = <<>> /\ caps = <<>> /\ life = [o \in Objects |-> "unborn"]
        /\ pc = [c \in Calls |-> "idle"] /\ target = [c \in Calls |-> Nothing]

GoTo(c, l) == pc' = [pc EXCEPT ![c] = l] /\ UNCHANGED target
Alive(o) == life[o] # "dead"

--------------------------------------------------------------------------------
(* Creation: the policy is installed, then the phase opens.                 *)

Install ==
    /\ handle = "absent" /\ handle' = "installing"
    /\ UNCHANGED <<backend, root, rootCode, phase, started, entered, ownerLive, objectVars, callVars>>

FinishInstall ==
    /\ handle = "installing" /\ phase = "Discovered" /\ ownerLive
    /\ handle' = "held" /\ phase' = "Initializing"
    /\ UNCHANGED <<backend, root, rootCode, started, entered, ownerLive, objectVars, callVars>>

AbortInstall ==
    /\ handle = "installing"
    /\ handle' = "released" /\ phase' = "Terminal"
    /\ UNCHANGED <<backend, root, rootCode, started, entered, ownerLive, objectVars, callVars>>

--------------------------------------------------------------------------------
(* Entry of a call up to the running body.                                  *)

\* start_execution behind check_owner / acquire_owner.
MayStart == ownerLive /\ phase = "Initializing" /\ ~started

\* exec_module, SOAC: begin_execution claims the one execution, or the call fails.
ExecSoac(c) ==
    /\ backend = "soac" /\ handle = "held" /\ pc[c] = "idle"
    /\ \/ MayStart /\ started' = TRUE /\ GoTo(c, "begun")
       \/ ~MayStart /\ UNCHANGED started /\ GoTo(c, "failing")
    /\ UNCHANGED <<backend, root, rootCode, phase, entered, handle, ownerLive, objectVars>>

\* exec_interpreter_module: a call that finds the root code taken returns its
\* error at once, without touching the execution in progress.
ExecInterpreter(c) ==
    /\ backend = "cpython" /\ handle = "held" /\ pc[c] = "idle"
    /\ rootCode' = FALSE
    /\ GoTo(c, IF rootCode THEN "taken" ELSE "error")
    /\ UNCHANGED <<backend, root, policyVars, objectVars>>

\* A module whose native state was cleared refuses the call.
ExecCleared(c) ==
    /\ handle = "released" /\ pc[c] = "idle"
    /\ GoTo(c, "error")
    /\ UNCHANGED <<backend, root, rootCode, policyVars, objectVars>>

\* root_begin, called by the native evaluator; the builtins may fail to load after
\* the execution was claimed.  The evaluator reports every failure to root_end.
RootBegin(c) ==
    /\ pc[c] = "taken"
    /\ \/ /\ handle = "held" /\ root = "Ready" /\ MayStart /\ started' = TRUE
          /\ \/ root' = "Entering" /\ GoTo(c, "entering")
             \/ root' = "Failed" /\ GoTo(c, "failing")
       \/ /\ ~(handle = "held" /\ root = "Ready" /\ MayStart)
          /\ root' = "Failed" /\ UNCHANGED started /\ GoTo(c, "failing")
    /\ UNCHANGED <<backend, rootCode, phase, entered, handle, ownerLive, objectVars>>

\* enter and started for the root frame: the original code is now running.
RootEnter(c) ==
    /\ pc[c] = "entering"
    /\ \/ /\ ownerLive /\ phase \in Executable /\ root = "Entering"
          /\ root' = "Running" /\ entered' = TRUE /\ GoTo(c, "body")
       \/ root' = "Failed" /\ UNCHANGED entered /\ GoTo(c, "failing")
    /\ UNCHANGED <<backend, rootCode, phase, started, handle, ownerLive, objectVars>>

\* SOAC: the runtime import and the eager compilation may fail; otherwise the
\* initializer entry is recorded immediately before the call.
EnterInitializer(c) ==
    /\ pc[c] = "begun"
    /\ \/ /\ ownerLive /\ phase = "Initializing" /\ started /\ ~entered
          /\ entered' = TRUE /\ GoTo(c, "body")
       \/ UNCHANGED entered /\ GoTo(c, "failing")
    /\ UNCHANGED <<backend, root, rootCode, phase, started, handle, ownerLive, objectVars>>

\* The body returns or raises; root_end records which.
BodyEnds(c) ==
    /\ pc[c] = "body"
    /\ \E ok \in BOOLEAN :
         /\ GoTo(c, IF ok THEN "returned" ELSE "failing")
         /\ root' = IF backend = "soac" THEN root ELSE IF ok THEN "Returned" ELSE "Failed"
    /\ UNCHANGED <<backend, rootCode, policyVars, objectVars>>

--------------------------------------------------------------------------------
(* Sealing and finalization.                                                *)

\* begin_sealing; the native seal of the dictionary may itself fail.
BeginSealing(c) ==
    /\ pc[c] = "returned"
    /\ \/ /\ ownerLive /\ started /\ phase = "Initializing"
          /\ backend = "cpython" => handle = "held" /\ root = "Returned" /\ entered
          /\ \/ phase' = "Sealing" /\ GoTo(c, "drain")
             \/ phase' = "Failed" /\ GoTo(c, "failing")
       \/ /\ ~(ownerLive /\ phase = "Initializing" /\ handle = "held")
          /\ UNCHANGED phase /\ GoTo(c, "failing")
    /\ UNCHANGED <<backend, root, rootCode, started, entered, handle, ownerLive, objectVars>>

\* check_owner and acquire_owner: the registries of a live module only.
Usable == ownerLive /\ phase \in Executable

\* An owner check inside the finalization loop fails.
DrainRefused(c) ==
    /\ pc[c] \in {"drain", "publish"} /\ ~Usable
    /\ GoTo(c, "failing")
    /\ UNCHANGED <<backend, root, rootCode, policyVars, objectVars>>

NoneAlive(s) == \A i \in DOMAIN s : ~Alive(s[i])
FirstAlive(s, i) == i \in DOMAIN s /\ Alive(s[i]) /\ \A j \in 1 .. i - 1 : ~Alive(s[j])
Publishing(c) == pc[c] = "publish" \/ (pc[c] = "drain" /\ queue = <<>>)

\* next_pending that finds dead records only; it counts as no progress.
SkipDead(c) ==
    /\ Usable
    /\ \/ /\ pc[c] = "drain" /\ queue # <<>> /\ NoneAlive(queue)
          /\ queue' = <<>> /\ UNCHANGED caps
       \/ /\ Publishing(c) /\ caps # <<>> /\ NoneAlive(caps)
          /\ caps' = <<>> /\ UNCHANGED queue
    /\ UNCHANGED <<backend, root, rootCode, policyVars, life, callVars>>

\* Mutant: the record is read but stays in the registry.
DrainPeek(c) ==
    /\ pc[c] = "drain" /\ Usable
    /\ \E i \in DOMAIN queue :
         /\ FirstAlive(queue, i)
         /\ target' = [target EXCEPT ![c] = queue[i]]
    /\ pc' = [pc EXCEPT ![c] = "finalize"]
    /\ UNCHANGED <<backend, root, rootCode, policyVars, objectVars>>

\* next_pending: dead records are dropped, the first live one is upgraded.
DrainNext(c) ==
    /\ pc[c] = "drain" /\ Usable
    /\ \E i \in DOMAIN queue :
         /\ FirstAlive(queue, i)
         /\ queue' = SubSeq(queue, i + 1, Len(queue))
         /\ target' = [target EXCEPT ![c] = queue[i]]
    /\ pc' = [pc EXCEPT ![c] = "finalize"]
    /\ UNCHANGED <<backend, root, rootCode, policyVars, caps, life>>

\* The work on the upgraded target ends and its reference is released.
Drop(c, l) == pc' = [pc EXCEPT ![c] = l] /\ target' = [target EXCEPT ![c] = Nothing]

\* A published contract is never taken back.
Becomes(o, l) == life' = [life EXCEPT ![o] = IF @ = "final" THEN @ ELSE l]

\* One target on the SOAC backend: a definition that is not this module's to
\* adopt is left alone, an adopted one may need its capabilities published.
FinalizeSoac(c) ==
    /\ backend = "soac" /\ pc[c] = "finalize"
    /\ LET o == target[c] IN
       \/ /\ o \notin Classes /\ Becomes(o, "declined") /\ Drop(c, "drain") /\ UNCHANGED caps
       \/ /\ o \notin Classes /\ Becomes(o, "final") /\ Drop(c, "drain") /\ UNCHANGED caps
       \/ /\ Usable /\ Becomes(o, "final")
          /\ caps' = Append(caps, o) /\ Drop(c, "drain")
       \/ /\ Becomes(o, "final") \/ UNCHANGED life
          /\ Drop(c, "failing") /\ UNCHANGED caps
    /\ UNCHANGED <<backend, root, rootCode, policyVars, queue>>

\* One target on the interpreter backend: a class must already be final or be
\* disposed as an unselected provisional; a refused target ends the import.
FinalizeInterpreter(c) ==
    /\ backend = "cpython" /\ pc[c] = "finalize"
    /\ LET o == target[c] IN
       \/ o \in Classes /\ Becomes(o, "disposed") /\ Drop(c, "drain")
       \/ o \notin Classes /\ Becomes(o, "declined") /\ Drop(c, "drain")
       \/ o \notin Classes /\ Becomes(o, "final") /\ Drop(c, "drain")
       \/ Becomes(o, "refused") /\ Drop(c, "failing")
    /\ UNCHANGED <<backend, root, rootCode, policyVars, queue, caps>>

\* next_capability_publication, after next_pending found nothing.
PublishNext(c) ==
    /\ Publishing(c) /\ Usable
    /\ \E i \in DOMAIN caps :
         /\ FirstAlive(caps, i)
         /\ caps' = SubSeq(caps, i + 1, Len(caps))
         /\ target' = [target EXCEPT ![c] = caps[i]]
    /\ pc' = [pc EXCEPT ![c] = "bind"]
    /\ UNCHANGED <<backend, root, rootCode, policyVars, queue, life>>

Bind(c) ==
    /\ pc[c] = "bind"
    /\ Drop(c, "publish") \/ Drop(c, "failing")
    /\ UNCHANGED <<backend, root, rootCode, policyVars, objectVars>>

\* The publication pass made progress, so both passes are repeated.
Repeat(c) ==
    /\ pc[c] = "publish" /\ Usable /\ caps = <<>>
    /\ GoTo(c, "drain")
    /\ UNCHANGED <<backend, root, rootCode, policyVars, objectVars>>

\* A round without progress runs no Python and ends the SOAC loop.
Quiescent(c) ==
    /\ backend = "soac" /\ pc[c] = "drain" /\ Usable /\ queue = <<>> /\ caps = <<>>
    /\ GoTo(c, "owners")
    /\ UNCHANGED <<backend, root, rootCode, policyVars, objectVars>>

--------------------------------------------------------------------------------
(* Publication and failure.                                                 *)

\* Mutant: the finalization loop is trusted to have drained everything.
DrainedBefore == TRUE

\* The test of finish_namespace_sealing.
Drained == queue = <<>> /\ caps = <<>>

\* SOAC has registered owner types and started the background compiler in the
\* meantime; the interpreter finishes right after its drain found nothing.
FinishSealing(c) ==
    /\ \/ backend = "soac" /\ pc[c] = "owners"
       \/ backend = "cpython" /\ pc[c] = "drain" /\ queue = <<>>
    /\ \/ ownerLive /\ Drained /\ phase = "Sealing" /\ phase' = "Sealed" /\ GoTo(c, "done")
       \/ ~(ownerLive /\ Drained /\ phase = "Sealing") /\ UNCHANGED phase /\ GoTo(c, "failing")
    /\ UNCHANGED <<backend, root, rootCode, started, entered, handle, ownerLive, objectVars>>

\* register_function_owner_types or the background compiler reports an error.
OwnersFail(c) ==
    /\ pc[c] = "owners" /\ GoTo(c, "failing")
    /\ UNCHANGED <<backend, root, rootCode, policyVars, objectVars>>

\* Mutant: a failed call leaves the phase to the collector.
FailingSilent(c) ==
    /\ pc[c] = "failing" /\ GoTo(c, "error")
    /\ UNCHANGED <<backend, root, rootCode, policyVars, objectVars>>

\* strict.fail (behind check_owner) or fail_unfinished, if the state is there.
Failing(c) ==
    /\ pc[c] = "failing" /\ GoTo(c, "error")
    /\ phase' = IF /\ handle = "held" /\ phase \in Unfinished
                   /\ backend = "soac" => ownerLive
                THEN "Failed" ELSE phase
    /\ UNCHANGED <<backend, root, rootCode, started, entered, handle, ownerLive, objectVars>>

--------------------------------------------------------------------------------
(* What the rest of the process does meanwhile.                             *)

Held(o) == \E c \in Calls : target[c] = o
Queued(o) == \E i \in DOMAIN queue : queue[i] = o
Without(o) == Keep(queue, Objects \ {o})

\* A definition executes and is registered for finalization.
Birth(o) ==
    /\ life[o] = "unborn" /\ Usable /\ entered
    /\ life' = [life EXCEPT ![o] = "open"] /\ queue' = Append(queue, o)
    /\ UNCHANGED <<backend, root, rootCode, policyVars, caps, callVars>>

\* A definition is adopted where it completes: an interpreter class at its Store
\* and a method by its class at any time, everything else once the module is
\* published.
CompleteDefinition(o) ==
    /\ Usable /\ life[o] = "open"
    /\ (backend = "cpython") = (o \in Classes) \/ phase = "Sealed"
    /\ life' = [life EXCEPT ![o] = "final"]
    /\ UNCHANGED <<backend, root, rootCode, policyVars, queue, caps, callVars>>

\* A failed dataclass application closes its class.
FailDataclass(o) ==
    /\ life[o] = "open" /\ o \in Classes
    /\ life' = [life EXCEPT ![o] = "refused"]
    /\ UNCHANGED <<backend, root, rootCode, policyVars, queue, caps, callVars>>

\* remove_pending, after either, if no drain has taken the receipt.
RemoveReceipt(o) ==
    /\ Usable /\ life[o] \in {"final", "refused"} /\ Queued(o)
    /\ queue' = Without(o)
    /\ UNCHANGED <<backend, root, rootCode, policyVars, caps, life, callVars>>

\* complete_invocation: a native call that ends takes its own receipts, classes
\* at any time and functions once the module is published ...
LeaseChild(o) ==
    /\ backend = "cpython" /\ Usable /\ Queued(o) /\ life[o] = "open"
    /\ o \in Classes \/ phase = "Sealed"
    /\ queue' = Without(o) /\ life' = [life EXCEPT ![o] = "leased"]
    /\ UNCHANGED <<backend, root, rootCode, policyVars, caps, callVars>>

\* ... and finalizes or refuses each.
SettleChild(o) ==
    /\ life[o] = "leased"
    /\ \E l \in {"refused"} \cup IF o \in Classes THEN {"disposed"} ELSE {"final", "declined"} :
         life' = [life EXCEPT ![o] = l]
    /\ UNCHANGED <<backend, root, rootCode, policyVars, queue, caps, callVars>>

\* External: an object nobody holds is deallocated.
Die(o) ==
    /\ life[o] \notin {"unborn", "leased", "dead"} /\ ~Held(o)
    /\ life' = [life EXCEPT ![o] = "dead"]
    /\ UNCHANGED <<backend, root, rootCode, policyVars, queue, caps, callVars>>

\* Mutant: clearing the state leaves the phase alone.
ReleaseHandleOnly ==
    /\ backend = "soac" => \A c \in Calls : pc[c] \in Resting
    /\ handle = "held" /\ handle' = "released"
    /\ UNCHANGED <<backend, root, rootCode, phase, started, entered, ownerLive, objectVars, callVars>>

\* The native module state is cleared; SOAC calls borrow it until they return.
ReleaseHandle ==
    /\ backend = "soac" => \A c \in Calls : pc[c] \in Resting
    /\ handle = "held" /\ handle' = "released"
    /\ phase' = IF phase = "Sealed" THEN "Sealed" ELSE "Terminal"
    /\ UNCHANGED <<backend, root, rootCode, started, entered, ownerLive, objectVars, callVars>>

\* The policy owner is torn down: on_terminal closes the namespace.
OwnerTeardown ==
    /\ ownerLive /\ handle # "absent"
    /\ ownerLive' = FALSE /\ phase' = "Terminal"
    /\ UNCHANGED <<backend, root, rootCode, started, entered, handle, objectVars, callVars>>

--------------------------------------------------------------------------------
\* The steps a call takes by itself once the body has ended.
Completion(c) ==
    \/ BeginSealing(c) \/ DrainRefused(c) \/ SkipDead(c) \/ DrainNext(c)
    \/ FinalizeSoac(c) \/ FinalizeInterpreter(c)
    \/ PublishNext(c) \/ Bind(c) \/ Repeat(c) \/ Quiescent(c)
    \/ FinishSealing(c) \/ OwnersFail(c) \/ Failing(c)

Environment ==
    \/ \E o \in Objects : \/ Birth(o) \/ CompleteDefinition(o) \/ FailDataclass(o)
                          \/ RemoveReceipt(o) \/ LeaseChild(o) \/ SettleChild(o) \/ Die(o)
    \/ ReleaseHandle \/ OwnerTeardown

Next ==
    \/ Install \/ FinishInstall \/ AbortInstall
    \/ \E c \in Calls : \/ ExecSoac(c) \/ ExecInterpreter(c) \/ ExecCleared(c)
                        \/ RootBegin(c) \/ RootEnter(c) \/ EnterInitializer(c)
                        \/ BodyEnds(c) \/ Completion(c)
    \/ Environment

\* The loader runs its own code to the end; nothing says the body returns.
Spec == Init /\ [][Next]_vars /\ \A c \in Calls : WF_vars(Completion(c))

--------------------------------------------------------------------------------
(* Properties.                                                              *)

\* When publication happens every definition is settled or in the hands of the call
\* that declared it: nothing declared before the seal is left for nobody to seal.
PublishesComplete ==
    [][phase' = "Sealed" /\ phase # "Sealed" =>
         /\ \A o \in Objects : life[o] # "open"
         /\ queue = <<>> /\ caps = <<>>]_vars

\* Once no call is running, a module that was executed is published or closed: no
\* error, replay or teardown leaves it half initialized.
SettledAtRest ==
    /\ \A c \in Calls : pc[c] \in Resting
    /\ \E c \in Calls : pc[c] # "idle"
    => phase \in {"Sealed", "Failed", "Terminal"}

\* A call whose body has ended comes to an end, however many definitions, deaths
\* and repetitions the finalization goes through.
CompletionEnds ==
    \A c \in Calls : pc[c] \in {"returned", "failing"} ~> pc[c] \in {"done", "error"}

Namespace == INSTANCE StrictNamespace WITH
    Names <- {}, MutableNames <- {}, OddKey <- "odd", AlienKey <- "alien",
    Values <- {}, Unbound <- Nothing, Receipts <- Objects,
    strictAssign <- TRUE, ns <- [k \in {"odd", "alien"} |-> Nothing],
    policy <- IF handle = "absent" THEN "absent" ELSE "attached",
    dict <- "live",
    pending <- {queue[i] : i \in DOMAIN queue} \cup {caps[i] : i \in DOMAIN caps}

\* The two drivers use the namespace only through its operations: everything the
\* namespace guarantees under arbitrary callers holds for the import.
ImplementsNamespace == Namespace!Spec
================================================================================
