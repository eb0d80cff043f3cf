---------------------------- MODULE ClassAdmission ----------------------------
(***************************************************************************)
(* How one class statement of a strict module turns its body into an open  *)
(* type.  strict_class.rs and strict_class_state.rs build the type closed  *)
(* (native Pending, no instances), a dataclass decorator may replace it by *)
(* a slots type of the same native lineage (strict_class_decorator.rs,     *)
(* strict_dataclass/), and exactly the selected result is admitted.  Until *)
(* the module is sealed a weak record of the type waits in the module's    *)
(* pending registry, which the importing thread drains (module_type.rs,    *)
(* strict_interpreter/completion.rs).                                      *)
(*                                                                         *)
(* There are two lanes.  "retained" is compiled code: it registers the     *)
(* type after construction and admits it at once.  "interpreter" is the    *)
(* original CPython code under call callbacks: it registers the type when  *)
(* it is bound and admits it when the definition is stored.                *)
(*                                                                         *)
(* Defs are executions of the one class statement.  Those of one call run  *)
(* one after another, those of different calls and the import interleave.  *)
(* A step ends where the code can run Python (a callback, an allocation, a *)
(* release), that is where another thread or a callback can come between.  *)
(***************************************************************************)
EXTENDS Naturals, Sequences, SequenceOps

CONSTANTS Defs,        \* executions of the class statement
          CallOf,      \* [Defs -> calls]: the call an execution belongs to
          Main,        \* the call that is the module body itself
          Lanes,       \* the lanes to consider
          Kinds,       \* the kinds of statement to consider
          None         \* no type

ASSUME ClassAdmissionAssumption ==
    /\ Lanes \subseteq {"retained", "interpreter"}
    /\ Kinds \subseteq {"plain", "dict", "slots"}
    /\ None \notin Defs \X {"original", "replacement"}
    /\ "driver" \notin Defs

Types == Defs \X {"original", "replacement"}
Original(d) == <<d, "original">>
Replacement(d) == <<d, "replacement">>
Lineage(d) == {Original(d), Replacement(d)}

\* Whoever may be inside complete_class: the statements, and the import.
Driver == "driver"
Actors == Defs \union {Driver}

VARIABLES
    lane,       \* the lane the module runs on
    kind,       \* [Defs -> Kinds]: plain class, dataclass, dataclass with slots
    pc,         \* [Defs -> the next part of the statement]
    native,     \* [Types -> native construction phase], "none" before birth
    published,  \* the types whose permanent contract native has published
    selected,   \* [Defs -> the type native admitted for the lineage]
    phase,      \* [Types -> ClassPhase]
    plan,       \* [Types -> phase of the dataclass ClassPlan]
    invocation, \* [Defs -> phase of the dataclass invocation]
    adopted,    \* the types that own their AdoptedMembers edge
    bound,      \* [Defs -> the type the own-field requirements are bound to]
    intact,     \* the types whose namespace is still the validated one
    applied,    \* history: the executions whose application failed
    records,    \* the pending registry, weak
    module,     \* phase of the module policy
    call,       \* [Actors -> the activation of complete_class]
    exited      \* the calls that have returned

stateVars == <<native, published, selected, phase, plan, invocation, adopted,
               bound, intact>>
vars == <<lane, kind, pc, stateVars, applied, records, module, call, exited>>

AtRest == {"idle", "done", "raised", "dynamic", "foreign"}
NoCall == [type |-> None, stage |-> "none", finalize |-> FALSE, pending |-> FALSE]

TypeOK ==
    /\ lane \in Lanes
    /\ kind \in [Defs -> Kinds]
    /\ native \in [Types -> {"none", "pending", "admitting", "enforced", "failed",
                             "dynamic", "dead"}]
    /\ published \subseteq Types /\ adopted \subseteq Types /\ intact \subseteq Types
    /\ selected \in [Defs -> Types \union {None}]
    /\ bound \in [Defs -> Types \union {None}]
    /\ phase \in [Types -> {"Prepared", "Pending", "Admitting", "Bound", "Sealed",
                            "Discarded", "Terminal"}]
    /\ plan \in [Types -> {"none", "Prepared", "Bound", "Completing", "Complete", "Failed"}]
    /\ invocation \in [Defs -> {"none", "Prepared", "Construction", "Bound", "Applying",
                                "Completing", "Complete", "Declined", "Failed"}]
    /\ records \in Seq(Types)
    /\ module \in {"Initializing", "Sealing", "Sealed", "Failed"}

Init ==
    /\ lane \in Lanes
    /\ kind \in [Defs -> Kinds]
    /\ pc = [d \in Defs |-> "idle"]
    /\ native = [t \in Types |-> "none"]
    /\ published = {} /\ adopted = {} /\ intact = {}
    /\ selected = [d \in Defs |-> None]
    /\ bound = [d \in Defs |-> None]
    /\ phase = [t \in Types |-> "Prepared"]
    /\ plan = [t \in Types |-> "none"]
    /\ invocation = [d \in Defs |-> "none"]
    /\ applied = {}
    /\ records = <<>>
    /\ module = "Initializing"
    /\ call = [a \in Actors |-> NoCall]
    /\ exited = {}

-----------------------------------------------------------------------------
(* What the code reads.                                                    *)

\* The type the statement is to deliver.
Final(d) == IF kind[d] = "slots" THEN Replacement(d) ELSE Original(d)

\* ensure_live and acquire_owner: the module policy has not been abandoned.
Live == module # "Failed"

\* is_ready: the module has been sealed and will not drain its registry again.
ReadyWhileSealing == module = "Sealing"
IsReady == module = "Sealed"

\* for_constructed_type returns the class state of this type.  Only a sealed class
\* outlives its module.
Constructed(t) ==
    \/ Live /\ native[t] \in {"pending", "admitting"} /\ phase[t] \in {"Pending", "Admitting"}
    \/ Live /\ native[t] = "enforced" /\ phase[t] = "Bound"
    \/ native[t] = "enforced" /\ phase[t] = "Sealed"

\* pending_dataclass: the class has a dataclass plan that is not complete.
PendingDataclass(t) == plan[t] \notin {"none", "Complete"}

\* A dataclass namespace validates as Adopted only where the plan is complete and
\* the state's own member edge is the adopted one.
SkipEdgeCheck(t) == plan[t] = "Complete"
AdoptsMembers(t) == plan[t] = "Complete" /\ t \in adopted

\* validate_actual_class_namespace over the type's dictionary.
Validates(t) == t \in intact /\ (plan[t] = "none" \/ AdoptsMembers(t))

-----------------------------------------------------------------------------
(* The native lineage (the patched CPython, seen from its callers).        *)

\* PyType_FailSoacPendingV1 on the root: whatever of the lineage is still closed
\* stays closed for good; an admitted type is not revoked.
FailLineages(n, ds) ==
    [t \in Types |-> IF t[1] \in ds /\ n[t] \in {"pending", "admitting"}
                     THEN "failed" ELSE n[t]]

\* fail_unfinished_type: nothing to do for a type that is past its admission.
FailUnfinished(t) ==
    IF phase[t] \in {"Pending", "Admitting"}
    THEN /\ native' = FailLineages(native, {t[1]})
         /\ phase' = [phase EXCEPT ![t] = "Terminal"]
    ELSE UNCHANGED <<native, phase>>

\* PyType_DisposeSoacProvisionalV1 accepts only a lineage that selected another type.
Resolved(t) == selected[t[1]] \notin {None, t}

-----------------------------------------------------------------------------
(* complete_class, which admit_class and finalize_class share.             *)

\* Where the synchronous first part of complete_class leaves the activation: it
\* reads the state, validates the namespace and binds the requirements.  A second
\* binding is refused where the class has field requirements of its own; publishing
\* the capabilities of a sealed class may fail.
FirstStages(t, finalize) ==
    IF ~Constructed(t) THEN {"error"}
    ELSE IF phase[t] = "Sealed" THEN IF finalize THEN {"ok", "error"} ELSE {"ok"}
    ELSE IF ~Validates(t) THEN {"error"}
    ELSE IF phase[t] = "Pending" /\ bound[t[1]] # None THEN {"error", "adopt"}
    ELSE {"adopt"}

StartComplete(a, t, finalize) ==
    \E first \in FirstStages(t, finalize) :
        /\ call' = [call EXCEPT ![a] = [type |-> t, stage |-> first, finalize |-> finalize,
                                        pending |-> phase[t] = "Pending"]]
        /\ bound' = IF first = "adopt" /\ phase[t] = "Pending"
                    THEN [bound EXCEPT ![t[1]] = t] ELSE bound

\* begin_pending_admission, and what native asks of the lineage.
MayBeginAdmission(t) ==
    /\ Live
    /\ phase[t] = "Pending" /\ native[t] = "pending" /\ t \notin published
    /\ ~PendingDataclass(t)
    /\ selected[t[1]] = None

\* adopt_source_members ran callbacks.  What was read before it (pending) decides
\* whether this activation still has to admit the type.
Adopt(a) ==
    LET c == call[a] IN
    /\ c.stage = "adopt"
    /\ \/ /\ c.pending /\ MayBeginAdmission(c.type)
          /\ phase' = [phase EXCEPT ![c.type] = "Admitting"]
          /\ native' = [native EXCEPT ![c.type] = "admitting"]
          /\ published' = published \union {c.type}
          /\ call' = [call EXCEPT ![a].stage = "admit"]
       \/ /\ ~c.pending
          /\ call' = [call EXCEPT ![a].stage = IF c.finalize THEN "seal" ELSE "ok"]
          /\ UNCHANGED <<phase, native, published>>
    /\ UNCHANGED <<lane, kind, pc, selected, plan, invocation, adopted, bound, intact,
                   applied, records, module, exited>>

\* The adoption itself fails, or the type is no longer ready for admission.
AdoptFails(a) ==
    /\ call[a].stage = "adopt"
    /\ call' = [call EXCEPT ![a].stage = "error"]
    /\ UNCHANGED <<lane, kind, pc, stateVars, applied, records, module, exited>>

\* commit_pending_type: native built its policies, which ran callbacks, and asks
\* for the last word before it opens the type.
MayCommit(t) ==
    /\ Live
    /\ phase[t] = "Admitting" /\ native[t] = "admitting" /\ t \in published
    /\ Validates(t)

Commit(a) ==
    LET c == call[a] IN
    /\ c.stage = "admit" /\ MayCommit(c.type)
    /\ phase' = [phase EXCEPT ![c.type] = "Bound"]
    /\ native' = [native EXCEPT ![c.type] = "enforced"]
    /\ selected' = [selected EXCEPT ![c.type[1]] = c.type]
    /\ call' = [call EXCEPT ![a].stage = IF c.finalize THEN "seal" ELSE "ok"]
    /\ UNCHANGED <<lane, kind, pc, published, plan, invocation, adopted, bound, intact,
                   applied, records, module, exited>>

\* Native refuses: fail_unfinished_type closes the lineage for good.
AdmissionFails(a) ==
    LET c == call[a] IN
    /\ c.stage = "admit"
    /\ FailUnfinished(c.type)
    /\ call' = [call EXCEPT ![a].stage = "error"]
    /\ UNCHANGED <<lane, kind, pc, published, selected, plan, invocation, adopted, bound,
                   intact, applied, records, module, exited>>

\* seal revalidates and seals a bound class; then its capabilities are published.
MaySeal(t) == phase[t] = "Sealed" \/ (Live /\ phase[t] = "Bound" /\ Validates(t))

Seal(a) ==
    LET c == call[a] IN
    /\ c.stage = "seal"
    /\ phase' = IF MaySeal(c.type) THEN [phase EXCEPT ![c.type] = "Sealed"] ELSE phase
    /\ \E last \in (IF MaySeal(c.type) THEN {"ok", "error"} ELSE {"error"}) :
          call' = [call EXCEPT ![a].stage = last]
    /\ UNCHANGED <<lane, kind, pc, native, published, selected, plan, invocation, adopted,
                   bound, intact, applied, records, module, exited>>

CompleteClass(a) ==
    Adopt(a) \/ AdoptFails(a) \/ Commit(a) \/ AdmissionFails(a) \/ Seal(a)

-----------------------------------------------------------------------------
(* The class statement up to the constructed type.                         *)

Goto(d, next) == pc' = [pc EXCEPT ![d] = next]
Leave(d) == call' = [call EXCEPT ![d] = NoCall]
Remove(recs, ts) == Keep(recs, Types \ ts)

\* The decorator is evaluated first (prepare_class_decorator), then the body runs.
Prepare(d) ==
    /\ pc[d] = "idle" /\ Live
    /\ CallOf[d] \notin exited
    /\ CallOf[d] = Main => module = "Initializing"
    /\ \A e \in Defs : CallOf[e] = CallOf[d] => pc[e] \in AtRest
    /\ Goto(d, "body")
    /\ invocation' = [invocation EXCEPT ![d] = IF kind[d] = "plain" THEN "none" ELSE "Prepared"]
    /\ UNCHANGED <<lane, kind, native, published, selected, phase, plan, adopted, bound, intact,
                   applied, records, module, call, exited>>

\* The body raises, or the class does not participate and is built dynamically: every
\* optional decline comes before the type exists.
Decline(d) ==
    /\ pc[d] = "body"
    /\ \E outcome \in {"raised", "dynamic"} : Goto(d, outcome)
    /\ invocation' = [invocation EXCEPT ![d] = IF @ = "none" THEN @ ELSE "Declined"]
    /\ UNCHANGED <<lane, kind, native, published, selected, phase, plan, adopted, bound, intact,
                   applied, records, module, call, exited>>

\* prepare_construction and prepare_class_state succeed and native allocates the type.
Allocate(d) ==
    LET t == Original(d) IN
    /\ pc[d] = "body" /\ Live
    /\ Goto(d, "allocated")
    /\ native' = [native EXCEPT ![t] = "pending"]
    /\ intact' = intact \union {t}
    /\ plan' = [plan EXCEPT ![t] = IF kind[d] = "plain" THEN "none" ELSE "Prepared"]
    /\ invocation' = [invocation EXCEPT ![d] = IF @ = "none" THEN @ ELSE "Construction"]
    /\ UNCHANGED <<lane, kind, published, selected, phase, adopted, bound, applied, records,
                   module, call, exited>>

\* bind_pending_type, the callback before Ready.  The interpreter registers here.
MayBind(t, owner) ==
    /\ Live
    /\ native[t] = "pending" /\ phase[t] = "Prepared" /\ t \in intact
    /\ plan[t] = "none" \/ (plan[t] = "Prepared" /\ invocation[t[1]] = owner)

Bind(d) ==
    LET t == Original(d) IN
    /\ pc[d] = "allocated" /\ MayBind(t, "Construction")
    /\ Goto(d, "ready")
    /\ phase' = [phase EXCEPT ![t] = "Pending"]
    /\ plan' = [plan EXCEPT ![t] = IF @ = "none" THEN @ ELSE "Bound"]
    /\ invocation' = [invocation EXCEPT ![d] = IF @ = "none" THEN @ ELSE "Bound"]
    /\ records' = IF lane = "interpreter" THEN Append(records, t) ELSE records
    /\ UNCHANGED <<lane, kind, native, published, selected, adopted, bound, intact, applied,
                   module, call, exited>>

\* ConstructionDecorator::drop discards the adapter of an unfinished construction.
DiscardAdapter(d) ==
    /\ invocation' = [invocation EXCEPT ![d] =
                        IF lane # "retained" \/ @ = "none" THEN @
                        ELSE IF @ = "Construction" THEN "Declined" ELSE "Failed"]
    /\ plan' = [plan EXCEPT ![Original(d)] =
                  IF lane = "retained" /\ invocation[d] = "Bound" THEN "Failed" ELSE @]

\* Binding is refused, or a Ready callback (__set_name__, __init_subclass__) raises:
\* native fails the lineage.  A record the interpreter already made stays.
ConstructionFails(d) ==
    /\ pc[d] \in {"allocated", "ready"}
    /\ Goto(d, "raised")
    /\ native' = FailLineages(native, {d})
    /\ DiscardAdapter(d)
    /\ UNCHANGED <<lane, kind, published, selected, phase, adopted, bound, intact, applied,
                   records, module, call, exited>>

\* Retained: construct_class registers the type.  A plain class is admitted at once.
Register(d) ==
    LET t == Original(d) IN
    /\ lane = "retained" /\ pc[d] = "ready" /\ Live
    /\ records' = Append(records, t)
    /\ IF kind[d] = "plain"
       THEN Goto(d, "admit") /\ StartComplete(d, t, FALSE)
       ELSE Goto(d, "constructed") /\ UNCHANGED <<call, bound>>
    /\ UNCHANGED <<lane, kind, native, published, selected, phase, plan, invocation, adopted,
                   intact, applied, module, exited>>

\* The class cell or the registration fails, or later the end of construct_class: then
\* the record stays, and the adapter too if its preparation had completed.
RegisterFails(d) ==
    LET t == Original(d) IN
    /\ lane = "retained" /\ pc[d] \in {"ready", "constructed"}
    /\ Goto(d, "raised")
    /\ FailUnfinished(t)
    /\ DiscardAdapter(d) \/ (pc[d] = "constructed" /\ UNCHANGED <<invocation, plan>>)
    /\ UNCHANGED <<lane, kind, published, selected, adopted, bound, intact, applied, records,
                   module, call, exited>>

\* Retained, plain: admit_class returned.  A sealed module has no later drain, so the
\* class is finalized here; otherwise its record waits for the drain.
PlainAdmitted(d) ==
    /\ lane = "retained" /\ kind[d] = "plain" /\ Live
    /\ pc[d] = "admit" /\ call[d].stage = "ok"
    /\ IF IsReady
       THEN Goto(d, "finalize") /\ StartComplete(d, Original(d), TRUE)
       ELSE Goto(d, "done") /\ Leave(d) /\ UNCHANGED bound
    /\ UNCHANGED <<lane, kind, native, published, selected, phase, plan, invocation, adopted,
                   intact, applied, records, module, exited>>

\* The class could not be completed, the module has failed, or watching the key layout
\* of the result fails.  Only a finalized class's record has been taken back by then.
PlainFails(d) ==
    LET t == Original(d)
        finalized == pc[d] = "finalize" /\ call[d].stage = "ok" /\ Live
    IN
    /\ lane = "retained" /\ kind[d] = "plain" /\ pc[d] \in {"admit", "finalize"}
    /\ call[d].stage = "error" \/ (call[d].stage = "ok" /\ (pc[d] = "admit" => ~IsReady))
    /\ Goto(d, "raised") /\ Leave(d)
    /\ FailUnfinished(t)
    /\ records' = IF finalized THEN Remove(records, {t}) ELSE records
    /\ UNCHANGED <<lane, kind, published, selected, plan, invocation, adopted, bound, intact,
                   applied, module, exited>>

\* finalize_class of a ready module returned: the record is no longer needed.
Finalized(d) ==
    /\ lane = "retained" /\ Live
    /\ pc[d] = "finalize" /\ call[d].stage = "ok"
    /\ Goto(d, "done") /\ Leave(d)
    /\ records' = Remove(records, {Final(d)})
    /\ UNCHANGED <<lane, kind, stateVars, applied, module, exited>>

-----------------------------------------------------------------------------
(* Applying a dataclass decorator.                                         *)

\* fail_owner on the invocation and the plans; a completed one is left alone.
FailedPlans(d) ==
    [t \in Types |-> IF t[1] = d /\ plan[t] \notin {"none", "Complete"} THEN "Failed" ELSE plan[t]]
FailOwner(d) ==
    IF invocation[d] \in {"Complete", "Declined"} THEN UNCHANGED <<invocation, plan>>
    ELSE /\ invocation' = [invocation EXCEPT ![d] = "Failed"]
         /\ plan' = FailedPlans(d)

\* PySoac_FailDataclassInvocation closes the lineage the invocation was bound to.
NativeAfterFailOwner(d) ==
    IF invocation[d] \in {"Complete", "Declined"} THEN native ELSE FailLineages(native, {d})

\* Retained cleanup walks original, then replacement: the first that is still an
\* unfinished construction is failed, and the failure closes the other with it.
FirstUnfinished(d) ==
    LET unfinished == {t \in Lineage(d) : Constructed(t) /\ phase[t] \in {"Pending", "Admitting"}}
    IN  IF invocation[d] # "Complete" THEN {}
        ELSE IF Original(d) \in unfinished THEN {Original(d)} ELSE unfinished

\* The records the cleanup removes: retained those of both operands, the interpreter
\* those of the failed graph of this owner.
ForgottenOriginal(d) == {Original(d)}
Forgotten(d) ==
    IF lane = "retained" THEN IF Live THEN Lineage(d) ELSE {}
    ELSE {t \in Lineage(d) : native'[t] = "failed" /\ plan'[t] # "Complete"}

\* The application failed after it was selected, and the statement raises.
FailApplication(d) ==
    /\ Goto(d, "raised") /\ Leave(d)
    /\ FailOwner(d)
    /\ native' = IF lane = "retained" /\ FirstUnfinished(d) # {}
                 THEN FailLineages(native, {d}) ELSE NativeAfterFailOwner(d)
    /\ phase' = [t \in Types |-> IF lane = "retained" /\ t \in FirstUnfinished(d)
                                 THEN "Terminal" ELSE phase[t]]
    /\ records' = Remove(records, Forgotten(d))
    /\ applied' = applied \union {d}
    /\ UNCHANGED <<lane, kind, published, selected, adopted, bound, intact, module, exited>>

\* begin_apply: the bound graph is still the one that was prepared.
MayApply(d) ==
    LET t == Original(d) IN
    /\ invocation[d] = "Bound" /\ plan[t] = "Bound"
    /\ Constructed(t) /\ phase[t] = "Pending" /\ t \in intact

BeginApply(d) ==
    /\ pc[d] = "constructed" /\ kind[d] # "plain" /\ MayApply(d)
    /\ Goto(d, "transform")
    /\ invocation' = [invocation EXCEPT ![d] = "Applying"]
    /\ UNCHANGED <<lane, kind, native, published, selected, phase, plan, adopted, bound, intact,
                   applied, records, module, call, exited>>

\* The interpreter selects the decorator call only for a live bound construction.
Selects(d) ==
    Constructed(Original(d)) /\ invocation[d] = "Bound" /\ plan[Original(d)] = "Bound"

\* begin_apply refuses.  Retained code cleans up; in the interpreter the call was not
\* selected yet, so no completion callback runs and the record stays.
ApplyRefused(d) ==
    /\ pc[d] = "constructed" /\ kind[d] # "plain" /\ ~MayApply(d)
    /\ \/ lane = "retained" /\ FailApplication(d)
       \/ /\ lane = "interpreter" /\ Selects(d)
          /\ Goto(d, "raised")
          /\ FailOwner(d)
          /\ native' = NativeAfterFailOwner(d)
          /\ applied' = applied \union {d}
          /\ UNCHANGED <<lane, kind, published, selected, phase, adopted, bound, intact, records,
                         module, call, exited>>

\* An unselected decorator call is an ordinary call: its result goes to the store.
NativeReady(d) ==
    /\ lane = "interpreter"
    /\ \/ pc[d] = "ready" /\ Goto(d, IF kind[d] = "plain" THEN "store" ELSE "constructed")
       \/ pc[d] = "constructed" /\ kind[d] # "plain" /\ ~Selects(d) /\ Goto(d, "store")
    /\ UNCHANGED <<lane, kind, stateVars, applied, records, module, call, exited>>

\* The slots path of dataclasses._process_class builds the second type of the lineage.
AllocateReplacement(d) ==
    LET o == Original(d)  t == Replacement(d) IN
    /\ pc[d] = "transform" /\ kind[d] = "slots"
    /\ Constructed(o) /\ phase[o] = "Pending" /\ native[o] = "pending"
    /\ invocation[d] = "Applying"
    /\ Goto(d, "allocated2")
    /\ native' = [native EXCEPT ![t] = "pending"]
    /\ intact' = intact \union {t}
    /\ plan' = [plan EXCEPT ![t] = "Prepared"]
    /\ UNCHANGED <<lane, kind, published, selected, phase, invocation, adopted, bound, applied,
                   records, module, call, exited>>

BindReplacement(d) ==
    LET t == Replacement(d) IN
    /\ pc[d] = "allocated2" /\ MayBind(t, "Applying")
    /\ Goto(d, "ready2")
    /\ phase' = [phase EXCEPT ![t] = "Pending"]
    /\ plan' = [plan EXCEPT ![t] = "Bound"]
    /\ records' = IF lane = "interpreter" THEN Append(records, t) ELSE records
    /\ UNCHANGED <<lane, kind, native, published, selected, invocation, adopted, bound, intact,
                   applied, module, call, exited>>

\* finish_apply accepts the class the construction is associated with.
FinishApply(d) ==
    /\ pc[d] = IF kind[d] = "slots" THEN "ready2" ELSE "transform"
    /\ invocation[d] = "Applying"
    /\ Goto(d, "returned")
    /\ UNCHANGED <<lane, kind, stateVars, applied, records, module, call, exited>>

\* complete_application up to native completion: the members are staged.
CompleteApplication(d) ==
    LET t == Final(d) IN
    /\ pc[d] = "returned"
    /\ invocation[d] = "Applying" /\ plan[t] = "Bound"
    /\ Constructed(t) /\ phase[t] = "Pending" /\ t \in intact
    /\ Goto(d, "completing")
    /\ invocation' = [invocation EXCEPT ![d] = "Completing"]
    /\ plan' = [u \in Types |-> IF u[1] = d /\ plan[u] # "none" THEN "Completing" ELSE plan[u]]
    /\ UNCHANGED <<lane, kind, native, published, selected, phase, adopted, bound, intact, applied,
                   records, module, call, exited>>

\* commit completes both plans; only the selected result gets the members edge.
\* Publishing the edge or retiring the adapter may still fail.
CommitApplication(d) ==
    LET t == Final(d) IN
    /\ pc[d] = "completing"
    /\ invocation[d] = "Completing" /\ Constructed(t)
    /\ \A u \in Lineage(d) : plan[u] \in {"none", "Completing"}
    /\ invocation' = [invocation EXCEPT ![d] = "Complete"]
    /\ plan' = [u \in Types |-> IF u[1] = d /\ plan[u] # "none" THEN "Complete" ELSE plan[u]]
    /\ \/ Goto(d, IF lane = "retained" THEN "selected" ELSE "store") /\ adopted' = adopted \union {t}
       \/ Goto(d, "unpublished") /\ adopted' \in {adopted, adopted \union {t}}
    /\ UNCHANGED <<lane, kind, native, published, selected, phase, bound, intact, applied, records,
                   module, call, exited>>

\* The transformation, the association, the completion or the registration fails.
ApplicationFails(d) ==
    /\ pc[d] \in {"transform", "allocated2", "ready2", "returned", "completing", "unpublished",
                 "selected"}
    /\ FailApplication(d)

\* register_pending_before puts the replacement in front of the live original.
InsertBefore(recs, new, old) ==
    LET i == CHOOSE j \in DOMAIN recs : recs[j] = old
    IN  SubSeq(recs, 1, i - 1) \o <<new>> \o SubSeq(recs, i, Len(recs))
Registered(t) == \E i \in DOMAIN records : records[i] = t

\* Retained: the selected result is registered and admitted.
Select(d) ==
    /\ pc[d] = "selected" /\ Live
    /\ kind[d] = "slots" => Registered(Original(d))
    /\ Goto(d, "admit") /\ StartComplete(d, Final(d), FALSE)
    /\ records' = IF kind[d] = "slots"
                  THEN InsertBefore(records, Replacement(d), Original(d)) ELSE records
    /\ UNCHANGED <<lane, kind, native, published, selected, phase, plan, invocation, adopted,
                   intact, applied, module, exited>>

\* dispose_unselected_provisional and its native check of the lineage.
MayDispose(t) ==
    /\ Constructed(t)
    /\ phase[t] = "Pending" /\ native[t] = "pending" /\ t \notin published
    /\ Resolved(t)

\* Retained: the original of an admitted replacement becomes an ordinary type.
DisposeOriginal(d) ==
    LET t == Original(d) IN
    /\ lane = "retained" /\ kind[d] = "slots"
    /\ pc[d] = "admit" /\ call[d].stage = "ok" /\ MayDispose(t)
    /\ Goto(d, "unregister") /\ Leave(d)
    /\ native' = [native EXCEPT ![t] = "dynamic"]
    /\ phase' = [phase EXCEPT ![t] = "Discarded"]
    /\ UNCHANGED <<lane, kind, published, selected, plan, invocation, adopted, bound, intact,
                   applied, records, module, exited>>

\* Its record goes, and a sealed module's result is finalized here.
ResultAdmitted(d) ==
    /\ lane = "retained" /\ Live
    /\ \/ kind[d] = "slots" /\ pc[d] = "unregister"
       \/ kind[d] = "dict" /\ pc[d] = "admit" /\ call[d].stage = "ok"
    /\ records' = IF kind[d] = "slots" THEN Remove(records, {Original(d)}) ELSE records
    /\ IF IsReady
       THEN Goto(d, "finalize") /\ StartComplete(d, Final(d), TRUE)
       ELSE Goto(d, "done") /\ Leave(d) /\ UNCHANGED bound
    /\ UNCHANGED <<lane, kind, native, published, selected, phase, plan, invocation, adopted,
                   intact, applied, module, exited>>

ResultFails(d) ==
    /\ lane = "retained" /\ kind[d] # "plain"
    /\ \/ pc[d] \in {"admit", "finalize"} /\ call[d].stage = "error"
       \/ pc[d] = "admit" /\ call[d].stage = "ok" /\ kind[d] = "slots" /\ ~MayDispose(Original(d))
       \/ pc[d] \in {"admit", "unregister", "finalize"} /\ call[d].stage \in {"ok", "none"} /\ ~Live
    /\ FailApplication(d)

-----------------------------------------------------------------------------
(* The interpreter's completion: the definition store and the call's return. *)

\* complete_definition: a value that is not this construction's is stored as it is,
\* but a type that has a contract and no usable state is an error.
HasContract(t) == native[t] \in {"pending", "admitting"} \/ t \in published

Store(d) ==
    LET t == Final(d) IN
    /\ pc[d] = "store"
    /\ IF ~Constructed(t)
       THEN Goto(d, IF HasContract(t) THEN "raised" ELSE "foreign") /\ UNCHANGED <<call, bound>>
       ELSE IF PendingDataclass(t) THEN Goto(d, "raised") /\ UNCHANGED <<call, bound>>
       ELSE Goto(d, "finalize") /\ StartComplete(d, t, TRUE)
    /\ UNCHANGED <<lane, kind, native, published, selected, phase, plan, invocation, adopted,
                   intact, applied, records, module, exited>>

\* The records complete_remaining_classes walks: the types this call constructed.
AnyCall(v, recs) == {t \in Types : \E i \in DOMAIN recs : recs[i] = t}
Remaining(v, recs) ==
    {t \in Types : CallOf[t[1]] = v /\ \E i \in DOMAIN recs : recs[i] = t}
Position(recs, t) == CHOOSE i \in DOMAIN recs : recs[i] = t

\* finalize_pending accepts a sealed class and disposes of a resolved provisional.
Settles(t) == Constructed(t) /\ (phase[t] = "Sealed" \/ MayDispose(t))

\* Settle them in order; at the first that cannot be settled, refuse it and the rest.
Settled(v, recs) ==
    {t \in Remaining(v, recs) :
        /\ Settles(t)
        /\ \A u \in Remaining(v, recs) : Position(recs, u) < Position(recs, t) => Settles(u)}
Refused(v, recs) ==
    {t \in Remaining(v, recs) \ Settled(v, recs) :
        Constructed(t) /\ phase[t] \in {"Pending", "Admitting"}}

CompleteRemaining(v, recs) ==
    LET disposed == {t \in Settled(v, recs) : phase[t] # "Sealed"}
        refused == Refused(v, recs)
    IN
    /\ native' = FailLineages([t \in Types |-> IF t \in disposed THEN "dynamic" ELSE native[t]],
                              {t[1] : t \in refused})
    /\ phase' = [t \in Types |-> IF t \in disposed THEN "Discarded"
                                 ELSE IF t \in refused THEN "Terminal" ELSE phase[t]]
    /\ records' = Remove(recs, Remaining(v, recs))

StoreCompletes(d) ==
    LET v == CallOf[d]
        recs == Remove(records, {Final(d)})
    IN
    /\ lane = "interpreter" /\ Live /\ pc[d] = "finalize" /\ call[d].stage = "ok"
    /\ Goto(d, IF Settled(v, recs) = Remaining(v, recs) THEN "done" ELSE "raised") /\ Leave(d)
    /\ CompleteRemaining(v, recs)
    /\ UNCHANGED <<lane, kind, published, selected, plan, invocation, adopted, bound, intact,
                   applied, module, exited>>

StoreFails(d) ==
    /\ lane = "interpreter" /\ pc[d] = "finalize"
    /\ call[d].stage = "error" \/ (call[d].stage = "ok" /\ ~Live)
    /\ Goto(d, "raised") /\ Leave(d)
    /\ UNCHANGED <<lane, kind, stateVars, applied, records, module, exited>>

\* complete_invocation, when a function call returns or raises.
Return(v) ==
    /\ lane = "interpreter" /\ Live
    /\ v # Main /\ v \notin exited
    /\ \A d \in Defs : CallOf[d] = v => pc[d] \in AtRest
    /\ exited' = exited \union {v}
    /\ CompleteRemaining(v, records)
    /\ UNCHANGED <<lane, kind, pc, published, selected, plan, invocation, adopted, bound, intact,
                   applied, module, call>>

-----------------------------------------------------------------------------
(* The import: drain the registry, then seal.                              *)

\* The module body has returned.
BeginSealing ==
    /\ module = "Initializing"
    /\ \A d \in Defs : CallOf[d] = Main => pc[d] \in AtRest
    /\ module' = "Sealing"
    /\ UNCHANGED <<lane, kind, pc, stateVars, applied, records, call, exited>>

\* Retained: next_pending takes the record, finalize_class must deliver.
DrainTake ==
    /\ lane = "retained" /\ module = "Sealing" /\ call[Driver].stage = "none"
    /\ records # <<>>
    /\ \E t \in Types : t = Head(records) /\ StartComplete(Driver, t, TRUE)
    /\ records' = Tail(records)
    /\ UNCHANGED <<lane, kind, pc, native, published, selected, phase, plan, invocation, adopted,
                   intact, applied, module, exited>>

DrainNext ==
    /\ call[Driver].stage \in {"ok", "error"}
    /\ Leave(Driver)
    /\ module' = IF call[Driver].stage = "ok" THEN module ELSE "Failed"
    /\ UNCHANGED <<lane, kind, pc, stateVars, applied, records, exited>>

\* Interpreter: finalize_pending, and refuse_unfinished_definition where it fails.
DrainInterpreter ==
    /\ lane = "interpreter" /\ module = "Sealing" /\ records # <<>>
    /\ \E t \in Types :
         /\ t = Head(records)
         /\ module' = IF Settles(t) THEN module ELSE "Failed"
         /\ LET refuse == ~Settles(t) /\ Constructed(t) /\ phase[t] \in {"Pending", "Admitting"}
            IN
            /\ native' = IF MayDispose(t) THEN [native EXCEPT ![t] = "dynamic"]
                         ELSE IF refuse THEN FailLineages(native, {t[1]}) ELSE native
            /\ phase' = [phase EXCEPT ![t] = IF MayDispose(t) THEN "Discarded"
                                             ELSE IF refuse THEN "Terminal" ELSE @]
    /\ records' = Tail(records)
    /\ UNCHANGED <<lane, kind, pc, published, selected, plan, invocation, adopted, bound, intact,
                   applied, call, exited>>

FinishSealing ==
    /\ module = "Sealing" /\ records = <<>> /\ call[Driver].stage = "none"
    /\ module' = "Sealed"
    /\ UNCHANGED <<lane, kind, pc, stateVars, applied, records, call, exited>>

-----------------------------------------------------------------------------
(* Callbacks, other holders of the type, and the garbage collector.        *)

\* A callback changes the namespace of a type native does not protect yet.
Spoil(t) ==
    /\ native[t] \in {"pending", "admitting"} /\ t \in intact
    /\ intact' = intact \ {t}
    /\ UNCHANGED <<lane, kind, pc, native, published, selected, phase, plan, invocation, adopted,
                   bound, applied, records, module, call, exited>>

\* Who keeps a type alive: an activation of complete_class, and the statement.  In the
\* interpreter the decorator call has consumed the original once it returned.
Pinned(t) ==
    \/ \E a \in Actors : call[a].type = t
    \/ /\ pc[t[1]] \notin AtRest
       /\ ~(/\ lane = "interpreter" /\ t = Original(t[1]) /\ t # Final(t[1])
            /\ pc[t[1]] \in {"returned", "completing", "unpublished", "store", "finalize"})

\* StrictClassData::on_terminal.  A dead weak record is the same as none, and the
\* death of a type nobody has a record of is not observed.
Die(t) ==
    /\ native[t] \notin {"none", "dead"} /\ Registered(t) /\ ~Pinned(t)
    /\ native' = [native EXCEPT ![t] = "dead"]
    /\ phase' = [phase EXCEPT ![t] = "Terminal"]
    /\ plan' = [plan EXCEPT ![t] = IF lane = "retained" /\ PendingDataclass(t) THEN "Failed" ELSE @]
    /\ records' = Remove(records, {t})
    /\ UNCHANGED <<lane, kind, pc, published, selected, invocation, adopted, bound, intact,
                   applied, module, call, exited>>

-----------------------------------------------------------------------------
Statement(d) ==
    \/ Prepare(d) \/ Decline(d) \/ Allocate(d) \/ Bind(d) \/ ConstructionFails(d)
    \/ Register(d) \/ RegisterFails(d) \/ PlainAdmitted(d) \/ PlainFails(d) \/ Finalized(d)

Application(d) ==
    \/ BeginApply(d) \/ ApplyRefused(d) \/ AllocateReplacement(d) \/ BindReplacement(d)
    \/ FinishApply(d) \/ CompleteApplication(d) \/ CommitApplication(d) \/ ApplicationFails(d)
    \/ Select(d) \/ DisposeOriginal(d) \/ ResultAdmitted(d) \/ ResultFails(d)

Interpreted(d) == NativeReady(d) \/ Store(d) \/ StoreCompletes(d) \/ StoreFails(d)

Import == BeginSealing \/ DrainTake \/ DrainNext \/ DrainInterpreter \/ FinishSealing

\* Nothing is left to do: every execution is at rest and the import is over.
Terminated ==
    /\ \A d \in Defs : pc[d] \in AtRest
    /\ module \in {"Sealed", "Failed"} /\ call[Driver].stage = "none"
    /\ UNCHANGED vars

Next ==
    \/ \E d \in Defs : Statement(d) \/ Application(d) \/ Interpreted(d)
    \/ \E a \in Actors : CompleteClass(a)
    \/ \E v \in {CallOf[d] : d \in Defs} : Return(v)
    \/ Import
    \/ \E t \in Types : Spoil(t) \/ Die(t)
    \/ Terminated

Spec == Init /\ [][Next]_vars

-----------------------------------------------------------------------------
(* Properties.                                                             *)

\* A type admits instances in one of two ways.  Either it is the one type the
\* statement was to deliver, admitted with an unchanged namespace and with the field
\* requirements bound to it and to no other type; or it is a provisional original
\* that was released after its lineage had admitted another type.  So neither a
\* failed construction nor the unselected original of a slots dataclass ever opens,
\* whoever drains its record (commit_pending_type, dispose_unselected_provisional).
OpenIsSelected ==
    \A t \in Types :
        LET d == t[1] IN
        /\ native[t] = "enforced" =>
             /\ t = Final(d) /\ selected[d] = t /\ bound[d] = t
             /\ t \in intact /\ phase[t] \in {"Bound", "Sealed"}
        /\ native[t] = "dynamic" => selected[d] \notin {None, t}

\* A statement that completed has an admitted type, unless the import is inside the
\* admission of that very type; and once the module is sealed, when no later drain
\* comes, the class is sealed too (construct_class, apply_class_decorator,
\* complete_definition, the drain of the module).
CompletedIsFinal ==
    \A d \in Defs :
        LET t == Final(d) IN
        pc[d] = "done" =>
          /\ \/ native[t] \in {"enforced", "dead"}
             \/ call[Driver].type = t
             \/ module = "Failed"
          /\ module = "Sealed" \/ lane = "interpreter" => phase[t] = "Sealed" \/ native[t] = "dead"

\* A lineage is closed for good only by its own statement, by the return of its own
\* call, or because the import fails: neither another call of the same statement nor
\* its clean-up touches it (next_interpreter_pending_class, forget_failed_dataclass).
FailureIsOwn ==
    \A t \in Types :
        native[t] = "failed" =>
            \/ pc[t[1]] = "raised" \/ call[t[1]].stage = "error"
            \/ CallOf[t[1]] \in exited
            \/ module = "Failed" \/ call[Driver].stage = "error"

\* In the retained lane a failed application leaves no record of its types, so that a
\* caught failure does not fail a later drain (apply_class_decorator,
\* forget_failed_dataclass).  In the interpreter lane a refusal before the call is
\* selected leaves one until the call returns.
ApplicationForgotten ==
    lane = "retained" /\ Live => \A t \in Types : t[1] \in applied => ~Registered(t)
=============================================================================
