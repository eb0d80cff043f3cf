--------------------------- MODULE ManagedGenerator ----------------------------
(***************************************************************************)
(* One suspended native generator and its preserved state: construction,   *)
(* the send/throw/close protocol, the one-use permit to enter the compiled *)
(* body, terminal cleanup, and clearing of the capsule at any point where  *)
(* Python code can run (managed_generator.rs, preserved_state.rs).         *)
(* A finalizer, a delegate or another thread runs between any two steps    *)
(* except where no Python can run.                                         *)
(***************************************************************************)
VARIABLES native,   \* CPython's view: unborn, suspended, executing or closed
          pc,       \* where the active native step, or construction, is
          managed,  \* the capsule holds the Binding
          phase, started, pending, exceptional, protocolError, \* the Binding
          terminal, clearing, snapshot, \* the PreservedState
          item,     \* the activation's private handled-exception item
          itemTerminal,
          clearPc,  \* progress of PreservedState::clear
          ending,   \* how the body ended: yield, return or raise
          op,       \* the operation of the active step
          thrown,   \* what became of the exception this step was given
          refused,  \* native refused to close during this step
          last,     \* result of the last step
          bypassed  \* a body was entered without a native step

binding == <<managed, phase, started, pending, exceptional, protocolError>>
capsule == <<terminal, clearing, snapshot, item, itemTerminal, clearPc>>
call == <<ending, op, thrown, refused, last>>
step == <<pc, call>>
vars == <<native, binding, capsule, step, bypassed>>

Phases == {"Prepared", "Idle", "Protocol", "Permitted", "Admitting", "Body"}

\* install_managed_binding has put the Binding beside an attached snapshot.
Init == /\ native = "unborn" /\ pc = "construct" /\ managed = TRUE /\ phase = "Prepared"
        /\ started = FALSE /\ pending = FALSE /\ exceptional = FALSE /\ protocolError = FALSE
        /\ terminal = FALSE /\ clearing = FALSE /\ snapshot = TRUE
        /\ item = "none" /\ itemTerminal = FALSE /\ clearPc = "none"
        /\ ending = "none" /\ op = "send" /\ thrown = "none" /\ refused = FALSE /\ last = "none" /\ bypassed = FALSE

\* No Python runs between the permit and its consumption, or while the result
\* of a step is inspected.
PythonRuns == pc \notin {"permitted", "inspect"}

--------------------------------------------------------------------------------
(* PreservedState::clear, and who calls it.                                 *)

\* Up to the release of the evaluation-stack operands; a recursive call returns.
BeginClear ==
    /\ clearing' = TRUE /\ terminal' = TRUE
    /\ clearPc' = IF clearing THEN clearPc ELSE "operands"

\* tp_clear of the capsule: the collector, or an explicit clear in a callback.
GcClear ==
    /\ PythonRuns /\ ~clearing /\ BeginClear
    /\ UNCHANGED <<native, binding, snapshot, item, itemTerminal, step, bypassed>>

\* Every association is unpublished before a slot is released.
ClearTake ==
    /\ PythonRuns /\ clearPc = "operands" /\ clearPc' = "slots"
    /\ managed' = FALSE /\ snapshot' = FALSE /\ itemTerminal' = (item # "none")
    /\ pending' = FALSE /\ protocolError' = FALSE
    /\ thrown' = IF pending THEN "dropped" ELSE thrown
    /\ UNCHANGED <<native, phase, started, exceptional, terminal, clearing, item>>
    /\ UNCHANGED <<pc, ending, op, refused, last, bypassed>>

\* The executing frame's item is left to its activation.
ClearEnd ==
    /\ PythonRuns /\ clearPc = "slots" /\ clearPc' = "done"
    /\ item' = IF item = "detached" THEN "released" ELSE item
    /\ UNCHANGED <<native, binding, terminal, clearing, snapshot, itemTerminal, step, bypassed>>

--------------------------------------------------------------------------------
(* Construction.                                                            *)

\* bind, called back by the native constructor.
Bind ==
    /\ pc = "construct" /\ managed /\ phase = "Prepared" /\ ~terminal
    /\ phase' = "Idle" /\ native' = "suspended" /\ pc' = "out"
    /\ UNCHANGED <<managed, started, pending, exceptional, protocolError>>
    /\ UNCHANGED <<capsule, call, bypassed>>

\* The constructor or bind failed: the still unbound preparation is retired whole.
AbortPreparation ==
    /\ pc = "construct" /\ pc' = "out" /\ native' = "closed"
    /\ IF managed THEN BeginClear ELSE UNCHANGED <<clearing, terminal, clearPc>>
    /\ UNCHANGED <<binding, snapshot, item, itemTerminal, call, bypassed>>

--------------------------------------------------------------------------------
(* step: the protocol of send, throw and close.                             *)

\* ProtocolGuard: the step's phase and undelivered exception end with it.
Guard ==
    /\ phase' = IF managed THEN "Idle" ELSE phase
    /\ pending' = FALSE /\ exceptional' = (exceptional /\ ~managed)
    /\ UNCHANGED <<managed, started, protocolError>>

\* step writes its result; native applies the state the result asks for.
Finish(result, state) ==
    /\ pc' = "out" /\ last' = result
    /\ native' = IF state = "Closed" \/ native = "closed" THEN "closed" ELSE "suspended"
    /\ Guard

\* Native calls step only on a generator that is neither running nor closed;
\* a binding that is gone closes it.
StepLost ==
    /\ native = "suspended" /\ pc = "out" /\ ~managed
    /\ native' = "closed" /\ last' = "error"
    /\ UNCHANGED <<binding, capsule, pc, ending, op, thrown, refused, bypassed>>

StepBegin(o) ==
    /\ native = "suspended" /\ pc = "out" /\ managed /\ phase = "Idle"
    /\ native' = "executing" /\ phase' = "Protocol" /\ op' = o
    /\ pc' = IF o = "send" THEN "admit" ELSE "deliver"
    /\ thrown' = IF o = "send" THEN "none" ELSE "held"
    /\ last' = "none" /\ ending' = "none" /\ refused' = FALSE
    /\ UNCHANGED <<managed, started, pending, exceptional, protocolError, capsule, bypassed>>

\* throw into a body that never ran raises in the caller and closes.
ThrowUnstarted ==
    /\ pc = "deliver" /\ op = "throw" /\ ~started /\ thrown' = "forwarded"
    /\ Finish("error", "Closed")
    /\ UNCHANGED <<capsule, ending, op, refused, bypassed>>

\* The delegate of a yield from took the exception and yielded.
DelegateYields ==
    /\ pc = "deliver" /\ op = "throw" /\ started /\ thrown' = "forwarded"
    /\ Finish("yield", "Suspended")
    /\ UNCHANGED <<capsule, ending, op, refused, bypassed>>

\* Neither the delegate nor normalization can take the exception, or the slot of
\* the delegate is already cleared.
ThrowRejected ==
    /\ pc = "deliver" /\ (op = "throw" \/ terminal) /\ thrown' = "dropped"
    /\ Finish("error", "Unchanged")
    /\ UNCHANGED <<capsule, ending, op, refused, bypassed>>

\* The exception, or the one closing the delegate raised, goes to the body.
ThrowToBody ==
    /\ pc = "deliver" /\ (op = "throw" => started) /\ pc' = "admit"
    /\ UNCHANGED <<native, binding, capsule, call, bypassed>>

--------------------------------------------------------------------------------
(* run_body and resume_generator: the permit, admission and entry.          *)

\* A callback of the delegate cleared the capsule before the body was asked.
BodyLost ==
    /\ pc = "admit" /\ ~managed
    /\ thrown' = IF thrown = "held" THEN "dropped" ELSE thrown
    /\ Finish("error", "Unchanged")
    /\ UNCHANGED <<capsule, ending, op, refused, bypassed>>

\* Mutant: the thrown exception does not become the binding's.
PermitOrdinary ==
    /\ pc = "admit" /\ managed /\ phase = "Protocol" /\ ~pending
    /\ pc' = "permitted" /\ phase' = "Permitted"
    /\ exceptional' = FALSE /\ pending' = FALSE
    /\ UNCHANGED <<native, managed, started, protocolError, capsule, call, bypassed>>

Permit ==
    /\ pc = "admit" /\ managed /\ phase = "Protocol" /\ ~pending
    /\ pc' = "permitted" /\ phase' = "Permitted"
    /\ exceptional' = (thrown = "held") /\ pending' = (thrown = "held")
    /\ thrown' = IF thrown = "held" THEN "pending" ELSE thrown
    /\ UNCHANGED <<native, managed, started, protocolError>>
    /\ UNCHANGED <<capsule, ending, op, refused, last, bypassed>>

ConsumeResumePermit ==
    /\ pc = "permitted" /\ managed /\ phase = "Permitted"
    /\ pc' = "compile" /\ phase' = "Admitting"
    /\ UNCHANGED <<native, managed, started, pending, exceptional, protocolError>>
    /\ UNCHANGED <<capsule, call, bypassed>>

\* Compilation succeeds and for_resume pins the snapshot.
Admit ==
    /\ pc = "compile" /\ ~terminal /\ snapshot /\ pc' = "pinned"
    /\ UNCHANGED <<native, binding, capsule, call, bypassed>>

\* Compilation, for_resume or mark_body_entry fails: the generator is unresumed.
AdmissionFails ==
    /\ pc \in {"compile", "pinned"} /\ pc' = "inspect" /\ ending' = "raise"
    /\ UNCHANGED <<native, binding, capsule, op, thrown, refused, last, bypassed>>

\* Mutant: the entry looks at neither the binding nor the capsule again.
EnterUnchecked ==
    /\ pc = "pinned" /\ pc' = "body" /\ phase' = "Body" /\ started' = TRUE /\ item' = "linked"
    /\ UNCHANGED <<native, managed, pending, exceptional, protocolError>>
    /\ UNCHANGED <<terminal, clearing, snapshot, itemTerminal, clearPc>>
    /\ UNCHANGED <<call, bypassed>>

\* mark_body_entry, and the entry links the activation's own item.
EnterBody ==
    /\ pc = "pinned" /\ managed /\ phase = "Admitting" /\ ~terminal
    /\ pc' = "body" /\ phase' = "Body" /\ started' = TRUE /\ item' = "linked"
    /\ UNCHANGED <<native, managed, pending, exceptional, protocolError>>
    /\ UNCHANGED <<terminal, clearing, snapshot, itemTerminal, clearPc>>
    /\ UNCHANGED <<call, bypassed>>

\* notify_terminal: native closes, or its refusal is kept for the step's result.
NotifyTerminal ==
    \/ managed /\ native' = "closed" /\ UNCHANGED <<protocolError, refused>>
    \/ managed /\ protocolError' = TRUE /\ refused' = TRUE /\ UNCHANGED native
    \/ ~managed /\ UNCHANGED <<native, protocolError, refused>>

\* The capsule is being cleared: the entry finds no item to link and leaves.
EnterCleared ==
    /\ pc = "pinned" /\ managed /\ phase = "Admitting" /\ terminal
    /\ pc' = "unwind" /\ phase' = "Body" /\ started' = TRUE /\ ending' = "raise"
    /\ NotifyTerminal
    /\ UNCHANGED <<managed, pending, exceptional, capsule, op, thrown, last, bypassed>>

\* The public resume helper, called with a discovered capsule from a callback:
\* a binding demands a permit, no binding a live snapshot.
ResumeDirectly ==
    /\ PythonRuns
    /\ bypassed' = \/ bypassed
                   \/ managed /\ phase = "Permitted"
                   \/ ~managed /\ ~terminal /\ snapshot
    /\ UNCHANGED <<native, binding, capsule, step>>

--------------------------------------------------------------------------------
(* The body and its terminal cleanup.                                       *)

\* inject_resume_exception, the first operation of a body that is given one: it
\* takes the binding's exception also when the activation cannot, and raises why.
Inject ==
    /\ pc = "body" /\ managed /\ phase = "Body" /\ pending /\ exceptional
    /\ pending' = FALSE /\ thrown' = IF terminal THEN "replaced" ELSE "delivered"
    /\ UNCHANGED <<native, managed, phase, started, exceptional, protocolError>>
    /\ UNCHANGED <<capsule, pc, ending, op, refused, last, bypassed>>

\* A body whose binding was cleared reads an ordinary delivery and goes on.
BodyYields ==
    /\ pc = "body" /\ ~pending
    /\ pc' = "finish" /\ ending' = "yield" /\ item' = "detached"
    /\ UNCHANGED <<native, binding, terminal, clearing, snapshot, itemTerminal, clearPc>>
    /\ UNCHANGED <<op, thrown, refused, last, bypassed>>

EndBody(how) ==
    /\ pc = "body" /\ ~pending
    /\ pc' = "unwind" /\ ending' = how /\ itemTerminal' = TRUE
    /\ NotifyTerminal
    /\ UNCHANGED <<managed, phase, started, pending, exceptional>>
    /\ UNCHANGED <<terminal, clearing, snapshot, item, clearPc, op, thrown, last, bypassed>>

\* retire_scopes_and_detach, once the scopes' finalizers have run.
Detach ==
    /\ pc = "unwind" /\ pc' = "cleanup"
    /\ item' = IF item = "linked" THEN "detached" ELSE item
    /\ UNCHANGED <<native, binding, terminal, clearing, snapshot, itemTerminal, clearPc>>
    /\ UNCHANGED <<call, bypassed>>

\* Locals are released, then retire_terminal_protocol_roots and release_residual.
RetireRoots ==
    /\ pc = "cleanup" /\ pc' = "finish" /\ terminal' = TRUE /\ snapshot' = FALSE
    /\ item' = IF item = "none" THEN "none" ELSE "released"
    /\ UNCHANGED <<native, binding, clearing, itemTerminal, clearPc, call, bypassed>>

\* finish_body_result: a deferred protocol error, or a lost binding, replaces
\* the result.
FinishBodyResult ==
    /\ pc = "finish" /\ pc' = "inspect"
    /\ ending' = IF protocolError \/ ~managed THEN "raise" ELSE ending
    /\ protocolError' = FALSE
    /\ UNCHANGED <<native, managed, phase, started, pending, exceptional>>
    /\ UNCHANGED <<capsule, op, thrown, refused, last, bypassed>>

\* Mutant: a failure leaves the generator as it was, also once it was entered.
InspectUnchanged ==
    /\ pc = "inspect"
    /\ IF ending = "raise" THEN Finish("error", "Unchanged")
       ELSE Finish(ending, IF ending = "yield" THEN "Suspended" ELSE "Closed")
    /\ thrown' = IF pending THEN "dropped" ELSE thrown
    /\ UNCHANGED <<capsule, ending, op, refused, bypassed>>

\* The tail of run_body: what the body left is turned into the step's result.
Inspect ==
    LET consumed == managed /\ ~pending
        entered == ~managed \/ phase = "Body"
    IN /\ pc = "inspect"
       /\ IF ending = "yield" THEN IF ~terminal /\ consumed THEN Finish("yield", "Suspended")
                                                            ELSE Finish("error", "Closed")
          ELSE IF ending = "return" THEN IF consumed THEN Finish("return", "Closed")
                                                     ELSE Finish("error", "Closed")
          ELSE Finish("error", IF entered \/ terminal THEN "Closed" ELSE "Unchanged")
       /\ thrown' = IF pending THEN "dropped" ELSE thrown
       /\ UNCHANGED <<capsule, ending, op, refused, bypassed>>

--------------------------------------------------------------------------------
\* Mutant: the clear callback wants a generator that still matches as live.
NativeClearLive ==
    /\ native = "suspended" /\ pc = "out" /\ managed /\ clearing /\ BeginClear
    /\ UNCHANGED <<native, binding, snapshot, item, itemTerminal, step, bypassed>>

\* clear: native has closed the generator and releases what it owned.
NativeClear ==
    /\ native = "closed" /\ pc = "out" /\ managed /\ ~clearing /\ BeginClear
    /\ UNCHANGED <<native, binding, snapshot, item, itemTerminal, step, bypassed>>

Teardown ==
    \/ Detach \/ RetireRoots \/ FinishBodyResult \/ Inspect
    \/ NativeClear \/ ClearTake \/ ClearEnd

Next ==
    \/ Bind \/ AbortPreparation
    \/ \E o \in {"send", "throw", "close"} : StepBegin(o)
    \/ StepLost \/ ThrowUnstarted \/ DelegateYields \/ ThrowRejected \/ ThrowToBody
    \/ BodyLost \/ Permit \/ ConsumeResumePermit \/ Admit \/ AdmissionFails
    \/ EnterBody \/ EnterCleared
    \/ Inject \/ BodyYields \/ \E how \in {"return", "raise"} : EndBody(how)
    \/ Teardown
    \/ GcClear \/ ResumeDirectly

\* The cleanup after the body is the runtime's own code and its finalizers.
Spec == Init /\ [][Next]_vars /\ WF_vars(Teardown)

--------------------------------------------------------------------------------
(* Properties.                                                              *)

\* No error of a step is lost behind a value: a step that yields or returns has given
\* a thrown exception to the delegate or to the body, or raised in the body why not,
\* and one that native refused to close reports the refusal.
NoErrorLost ==
    /\ last \in {"yield", "return"} => thrown \in {"none", "delivered", "replaced", "forwarded"}
    /\ pc = "out" /\ refused => last = "error"

\* At rest a suspended generator whose capsule nobody cleared can be resumed: it
\* owns its binding and snapshot, is idle, and no exception is waiting.
SuspendedIsResumable ==
    pc = "out" /\ native = "suspended" /\ ~clearing =>
      managed /\ phase = "Idle" /\ snapshot /\ ~terminal /\ ~pending /\ ~protocolError

\* The compiled body is entered only by the native step that holds the permit, on a
\* live snapshot: no callback finds a state in which resuming the capsule directly
\* would run it, nothing that was cleared is resumed, and before the first finalizer
\* of the terminal cleanup native shows the generator closed or has refused to.
EntryIsPermitted ==
    /\ []~bypassed
    /\ [](pc \in {"unwind", "cleanup"} => native = "closed" \/ protocolError \/ ~managed)
    /\ [][pc' = "body" /\ pc # "body" => ~terminal /\ snapshot /\ managed]_vars

\* What a closed generator owns is released, whoever closed it.
ClosedIsReleased == native = "closed" ~> ~managed /\ ~snapshot
================================================================================
