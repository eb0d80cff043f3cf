---------------------------- MODULE StrictNamespace ----------------------------
(***************************************************************************)
(* The strict module namespace of crates/soac_jit/src/strict_module.rs:    *)
(* the policy phase shared by every holder of the module, the dictionary   *)
(* write barrier that consults it, the module-state handle, and the        *)
(* GC-owned policy owner.  Everything runs under the GIL; the steps of     *)
(* this module are the operations between which arbitrary Python code (a   *)
(* finalizer, another thread, a callback of the body) may run.             *)
(***************************************************************************)
CONSTANTS Names,          \* global names a source module can spell
          MutableNames,   \* names whose facts say ExplicitlyMutable
          OddKey,         \* a str key that is no source name (surrogates)
          AlienKey,       \* a key that is not an exact str
          Values,         \* values bound by the program
          Unbound,        \* no entry
          Receipts        \* pending finalization receipts

ASSUME NamespaceAssumption ==
    /\ MutableNames \subseteq Names
    /\ OddKey \notin Names /\ AlienKey \notin Names /\ OddKey # AlienKey
    /\ Unbound \notin Values

VARIABLES strictAssign, \* NamespacePolicy.strict_assign, fixed by the source
          phase,      \* NamespacePolicy.phase
          started,    \* NamespacePolicy.execution_started
          entered,    \* StrictModuleRuntimeState.initializer_entry is set
          ns,         \* the globals dictionary
          policy,     \* the dictionary's native policy slot
          handle,     \* the module's StrictModuleRuntimeState
          ownerLive,  \* the policy owner's StrictStateRef is not terminal
          dict,       \* native lifetime of the dictionary
          pending     \* receipts in PendingRegistry.records and .capabilities

lifetime == <<policy, handle, ownerLive, dict>>
vars == <<strictAssign, phase, started, entered, ns, lifetime, pending>>

Keys == Names \cup {OddKey, AlienKey}
Phases == {"Discovered", "Initializing", "Sealing", "Sealed", "Failed", "Terminal"}
Unfinished == {"Discovered", "Initializing", "Sealing"}
Executable == {"Initializing", "Sealing", "Sealed"}

Init == /\ strictAssign \in BOOLEAN
        /\ phase = "Discovered" /\ started = FALSE /\ entered = FALSE
        /\ ns \in {f \in [Keys -> Values \cup {Unbound}] : f[AlienKey] = Unbound}
        /\ policy = "absent" /\ handle = "absent"
        /\ ownerLive = TRUE /\ dict = "live" /\ pending = {}

--------------------------------------------------------------------------------
(* NamespacePolicy::permits and the validate_namespace callback.            *)

\* Mutant: the barrier starts only once the module is published.
PermitsUntilSealed(op, key) ==
    \/ phase = "Discovered" /\ op = "VALIDATE_INITIAL"
    \/ /\ phase \in {"Initializing", "Sealing"} \/ (phase = "Sealed" /\ ~strictAssign)
       /\ op \in {"SET", "SET_EXISTING", "DELETE", "CLEAR"}
    \/ /\ phase = "Sealed" /\ strictAssign
       /\ op = "SET" \/ (op \in {"SET_EXISTING", "DELETE"} /\ key \in MutableNames)

Permits(op, key) ==
    \/ phase = "Discovered" /\ op = "VALIDATE_INITIAL"
    \/ /\ phase = "Initializing" \/ (phase \in {"Sealing", "Sealed"} /\ ~strictAssign)
       /\ op \in {"SET", "SET_EXISTING", "DELETE", "CLEAR"}
    \/ /\ phase \in {"Sealing", "Sealed"} /\ strictAssign
       /\ \/ op = "SET"
          \/ op \in {"SET_EXISTING", "DELETE"} /\ key \in MutableNames

Validates(op, key) ==
    /\ ownerLive
    /\ phase \notin {"Failed", "Terminal"}
    /\ \/ ~strictAssign
       \/ op = "CLEAR"
       \/ key \in Names \cup {OddKey}
    /\ Permits(op, key)

\* The native dictionary asks the installed callback before it commits.
Guarded(op, key) == dict = "live" /\ policy = "attached" /\ Validates(op, key)

\* External: PyDict_SetItem classifies the write by the entry it finds.
SetItem(k, v) ==
    /\ Guarded(IF ns[k] = Unbound THEN "SET" ELSE "SET_EXISTING", k)
    /\ ns' = [ns EXCEPT ![k] = v]
    /\ UNCHANGED <<strictAssign, phase, started, entered, lifetime, pending>>

\* External: PyDict_DelItem of a present key.
DelItem(k) ==
    /\ ns[k] # Unbound
    /\ Guarded("DELETE", k)
    /\ ns' = [ns EXCEPT ![k] = Unbound]
    /\ UNCHANGED <<strictAssign, phase, started, entered, lifetime, pending>>

\* External: dict.clear().
ClearDict ==
    /\ Guarded("CLEAR", AlienKey)
    /\ ns' = [k \in Keys |-> Unbound]
    /\ UNCHANGED <<strictAssign, phase, started, entered, lifetime, pending>>

--------------------------------------------------------------------------------
(* Installation: install_policy.                                            *)

\* PyDict_SetSoacPolicy validates every entry already in the dictionary.
InstallPolicy ==
    /\ policy = "absent" /\ handle = "absent"
    /\ \A k \in Keys : ns[k] # Unbound => Validates("VALIDATE_INITIAL", k)
    /\ policy' = "attached" /\ handle' = "installing"
    /\ UNCHANGED <<strictAssign, phase, started, entered, ns, ownerLive, dict, pending>>

\* Keys are reserved (no entry becomes visible), then the phase is opened.
FinishInstall ==
    /\ handle = "installing" /\ phase = "Discovered"
    /\ phase' = "Initializing" /\ handle' = "held"
    /\ UNCHANGED <<strictAssign, started, entered, ns, policy, ownerLive, dict, pending>>

\* Registration, reservation or the phase change fails: the handle is dropped.
AbortInstall ==
    /\ handle \in {"absent", "installing"}
    /\ phase' = "Terminal" /\ handle' = "released"
    /\ UNCHANGED <<strictAssign, started, entered, ns, policy, ownerLive, dict, pending>>

--------------------------------------------------------------------------------
(* Execution, sealing and failure.                                          *)

\* check_owner / acquire_owner: the dictionary still holds the live policy.
Attached == policy = "attached" /\ ownerLive /\ dict = "live"

BeginExecution ==
    /\ Attached /\ phase = "Initializing" /\ ~started
    /\ started' = TRUE
    /\ UNCHANGED <<strictAssign, phase, entered, ns, lifetime, pending>>

RecordInitializerEntry ==
    /\ handle = "held" /\ Attached
    /\ phase = "Initializing" /\ started /\ ~entered
    /\ entered' = TRUE
    /\ UNCHANGED <<strictAssign, phase, started, ns, lifetime, pending>>

\* begin_namespace_sealing; the native seal may report failure.
BeginSealing ==
    /\ Attached /\ started /\ phase = "Initializing"
    /\ phase' \in IF strictAssign THEN {"Sealing", "Failed"} ELSE {"Sealing"}
    /\ UNCHANGED <<strictAssign, started, entered, ns, lifetime, pending>>

FinishSealing ==
    /\ Attached /\ phase = "Sealing" /\ pending = {}
    /\ phase' = "Sealed"
    /\ UNCHANGED <<strictAssign, started, entered, ns, lifetime, pending>>

\* Mutant: a failure notice forgets that a published module cannot fail.
FailAnyLive ==
    /\ handle = "held" /\ phase # "Terminal"
    /\ phase' = "Failed"
    /\ UNCHANGED <<strictAssign, started, entered, ns, lifetime, pending>>

\* fail (SOAC backend) and fail_unfinished (interpreter backend).
Fail ==
    /\ handle = "held" /\ phase \in Unfinished
    /\ phase' = "Failed"
    /\ UNCHANGED <<strictAssign, started, entered, ns, lifetime, pending>>

\* Mutant: a module that is merely sealing counts as published.
ReleaseHandleKeepsSealing ==
    /\ handle = "held"
    /\ handle' = "released"
    /\ phase' = IF phase \in {"Sealing", "Sealed"} THEN phase ELSE "Terminal"
    /\ UNCHANGED <<strictAssign, started, entered, ns, policy, ownerLive, dict, pending>>

\* release_from_native and Drop: only an unpublished policy is revoked.
ReleaseHandle ==
    /\ handle = "held"
    /\ handle' = "released"
    /\ phase' = IF phase = "Sealed" THEN "Sealed" ELSE "Terminal"
    /\ UNCHANGED <<strictAssign, started, entered, ns, policy, ownerLive, dict, pending>>

--------------------------------------------------------------------------------
(* The pending registry, seen only as the set of receipts it holds.         *)

RegisterPending(r) ==
    /\ Attached /\ phase \in Executable
    /\ r \notin pending
    /\ pending' = pending \cup {r}
    /\ UNCHANGED <<strictAssign, phase, started, entered, ns, lifetime>>

TakePending(R) ==
    /\ Attached /\ phase \in Executable
    /\ R # {} /\ R \subseteq pending
    /\ pending' = pending \ R
    /\ UNCHANGED <<strictAssign, phase, started, entered, ns, lifetime>>

--------------------------------------------------------------------------------
(* Teardown: the owner's and the dictionary's GC slots clear in any order.  *)

\* StrictStateRef clear/deallocate: on_terminal runs before any edge is freed.
OwnerTeardown ==
    /\ ownerLive /\ handle # "absent"
    /\ ownerLive' = FALSE /\ phase' = "Terminal"
    /\ UNCHANGED <<strictAssign, started, entered, ns, policy, handle, dict, pending>>

\* TERMINAL_TEARDOWN precedes the native clearing of the dictionary.
DictTeardown ==
    /\ dict = "live" /\ policy = "attached"
    /\ dict' = "clearing" /\ phase' = "Terminal"
    /\ UNCHANGED <<strictAssign, started, entered, ns, policy, handle, ownerLive, pending>>

\* External: entries go one at a time; each release may run a finalizer.
DropEntry(k) ==
    /\ dict = "clearing" /\ ns[k] # Unbound
    /\ ns' = [ns EXCEPT ![k] = Unbound]
    /\ UNCHANGED <<strictAssign, phase, started, entered, lifetime, pending>>

\* External: the policy edge is released once the entries are gone.
DictGone ==
    /\ dict = "clearing" /\ \A k \in Keys : ns[k] = Unbound
    /\ dict' = "gone" /\ policy' = "released"
    /\ UNCHANGED <<strictAssign, phase, started, entered, ns, handle, ownerLive, pending>>

--------------------------------------------------------------------------------
Next ==
    \/ \E k \in Keys : \/ \E v \in Values : SetItem(k, v)
                       \/ DelItem(k)
                       \/ DropEntry(k)
    \/ ClearDict
    \/ InstallPolicy \/ FinishInstall \/ AbortInstall
    \/ BeginExecution \/ RecordInitializerEntry
    \/ BeginSealing \/ FinishSealing \/ Fail \/ ReleaseHandle
    \/ \E r \in Receipts : RegisterPending(r)
    \/ \E R \in SUBSET Receipts : TakePending(R)
    \/ OwnerTeardown \/ DictTeardown \/ DictGone

Spec == Init /\ [][Next]_vars

--------------------------------------------------------------------------------
(* Properties.                                                              *)

\* Every variable keeps the type its Rust or native counterpart has.
TypeOK ==
    /\ strictAssign \in BOOLEAN /\ phase \in Phases
    /\ started \in BOOLEAN /\ entered \in BOOLEAN
    /\ ns \in [Keys -> Values \cup {Unbound}]
    /\ policy \in {"absent", "attached", "released"}
    /\ handle \in {"absent", "installing", "held", "released"}
    /\ ownerLive \in BOOLEAN /\ dict \in {"live", "clearing", "gone"}
    /\ pending \subseteq Receipts

\* A module that loses its handle before it is published (an aborted install, a
\* native clear, a dropped wrapper) never leaves an escaped dictionary writable,
\* and neither does a policy owner or dictionary that the collector clears first;
\* nor is a module executable before install_policy has completed.
AbandonedIsClosed ==
    /\ handle \in {"absent", "installing"} => phase \in {"Discovered", "Terminal"}
    /\ handle = "released" => phase \in {"Sealed", "Terminal"}
    /\ ~ownerLive \/ dict # "live" => phase = "Terminal"

\* A published module is revoked only when its policy owner or its dictionary is
\* torn down: no failure notice, replayed execution or release of the module
\* wrapper takes a Sealed namespace away from the functions that escaped it.
PublishedOutlivesHandle ==
    [][phase = "Sealed" /\ phase' # "Sealed" => ~ownerLive' \/ dict' # "live"]_vars

\* What the holders of the dictionary may rely on in each phase.
Mode == IF dict # "live" THEN "gone"
        ELSE IF phase \in {"Failed", "Terminal"} THEN "closed"
        ELSE IF phase = "Discovered" THEN "installing"
        ELSE IF phase \in {"Sealing", "Sealed"} /\ strictAssign THEN "appendOnly"
        ELSE "open"

Contract == INSTANCE NamespaceContract WITH
    Keys <- Keys, MutableKeys <- MutableNames, mode <- Mode, bindings <- ns

\* The write barrier and the phase machine keep the namespace contract: bindings
\* become final at begin_sealing, before any finalizer runs, and stay what they
\* are through failure, release and collection until the dictionary is destroyed.
ImplementsContract == Contract!ContractSpec
================================================================================
