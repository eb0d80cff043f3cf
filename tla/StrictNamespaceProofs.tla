------------------------- MODULE StrictNamespaceProofs -------------------------
(***************************************************************************)
(* Proofs about StrictNamespace for every set of names, values and         *)
(* receipts: the types, that an abandoned module is closed, that a         *)
(* published module outlives its handle, and the namespace contract.       *)
(***************************************************************************)
EXTENDS StrictNamespace, TLAPS

\* TypeOK is inductive by itself: no operation stores anything but a value of
\* the variable's own type.
LEMMA TypeOKStep == TypeOK /\ [Next]_vars => TypeOK'
<1> SUFFICES ASSUME TypeOK, [Next]_vars PROVE TypeOK'
  OBVIOUS
<1>1. ASSUME NEW k \in Keys, NEW v \in Values, SetItem(k, v) PROVE TypeOK'
  BY <1>1 DEF TypeOK, SetItem, lifetime
<1>2. ASSUME NEW k \in Keys, DelItem(k) PROVE TypeOK'
  BY <1>2 DEF TypeOK, DelItem, lifetime
<1>3. ASSUME NEW k \in Keys, DropEntry(k) PROVE TypeOK'
  BY <1>3 DEF TypeOK, DropEntry, lifetime
<1>4. CASE ClearDict
  BY <1>4 DEF TypeOK, ClearDict, lifetime
<1>5. CASE InstallPolicy \/ FinishInstall \/ AbortInstall
  BY <1>5 DEF TypeOK, InstallPolicy, FinishInstall, AbortInstall, Phases
<1>6. CASE BeginExecution \/ RecordInitializerEntry
  BY <1>6, Zenon DEF TypeOK, BeginExecution, RecordInitializerEntry, lifetime
<1>7. CASE BeginSealing
  BY <1>7 DEF TypeOK, BeginSealing, lifetime, Phases
<1>8. CASE FinishSealing \/ Fail \/ ReleaseHandle
  BY <1>8 DEF TypeOK, FinishSealing, Fail, ReleaseHandle, lifetime, Phases
<1>9. ASSUME NEW r \in Receipts, RegisterPending(r) PROVE TypeOK'
  BY <1>9 DEF TypeOK, RegisterPending, lifetime
<1>10. ASSUME NEW R \in SUBSET Receipts, TakePending(R) PROVE TypeOK'
  BY <1>10 DEF TypeOK, TakePending, lifetime
<1>11. CASE OwnerTeardown \/ DictTeardown \/ DictGone
  BY <1>11, Zenon DEF TypeOK, OwnerTeardown, DictTeardown, DictGone, Phases
<1>12. CASE UNCHANGED vars
  BY <1>12 DEF TypeOK, vars, lifetime
<1> QED
  BY <1>1, <1>2, <1>3, <1>4, <1>5, <1>6, <1>7, <1>8, <1>9, <1>10, <1>11, <1>12 DEF Next

\* A namespace starts well typed.
LEMMA TypeOKInit == Init => TypeOK
BY Zenon DEF Init, TypeOK, Phases

\* Every reachable namespace state is well typed, whatever the names, values
\* and receipts.
THEOREM TypeCorrect == Spec => []TypeOK
BY TypeOKInit, TypeOKStep, PTL DEF Spec

--------------------------------------------------------------------------------
\* The lifecycle facts are inductive together with the types: once the owner,
\* the dictionary or the handle is gone the phase is Terminal (or, for the
\* handle, Sealed), and every later phase change starts from an unfinished phase.
IInv == TypeOK /\ AbandonedIsClosed

\* Every operation keeps abandoned namespaces closed.
LEMMA AbandonedStep == IInv /\ [Next]_vars => AbandonedIsClosed'
<1> SUFFICES ASSUME IInv, [Next]_vars PROVE AbandonedIsClosed'
  OBVIOUS
<1> USE DEF IInv, AbandonedIsClosed
<1>1. ASSUME NEW k \in Keys,
             (\E v \in Values : SetItem(k, v)) \/ DelItem(k) \/ DropEntry(k) \/ ClearDict
      PROVE AbandonedIsClosed'
  BY <1>1 DEF SetItem, DelItem, DropEntry, ClearDict, lifetime
<1>2. CASE InstallPolicy \/ FinishInstall \/ AbortInstall
  BY <1>2 DEF InstallPolicy, FinishInstall, AbortInstall
<1>3. CASE BeginExecution \/ RecordInitializerEntry
  BY <1>3 DEF BeginExecution, RecordInitializerEntry, lifetime
<1>4. CASE BeginSealing \/ FinishSealing
  BY <1>4 DEF BeginSealing, FinishSealing, Attached, lifetime
<1>5. CASE Fail
  BY <1>5 DEF Fail, Unfinished, lifetime
<1>6. CASE ReleaseHandle
  BY <1>6 DEF ReleaseHandle
<1>7. CASE (\E r \in Receipts : RegisterPending(r)) \/ (\E R \in SUBSET Receipts : TakePending(R))
  BY <1>7 DEF RegisterPending, TakePending, lifetime
<1>8. CASE OwnerTeardown \/ DictTeardown \/ DictGone
  BY <1>8 DEF OwnerTeardown, DictTeardown, DictGone
<1>9. CASE UNCHANGED vars
  BY <1>9 DEF vars, lifetime
<1>10. CASE ClearDict
  BY <1>10 DEF ClearDict, lifetime
<1> QED
  BY <1>1, <1>2, <1>3, <1>4, <1>5, <1>6, <1>7, <1>8, <1>9, <1>10 DEF Next

\* Types and closure hold along every behaviour.
LEMMA IInvariant == Spec => []IInv
<1>1. Init => IInv
  BY TypeOKInit DEF Init, IInv, AbandonedIsClosed
<1>2. IInv /\ [Next]_vars => IInv'
  BY TypeOKStep, AbandonedStep DEF IInv
<1> QED
  BY <1>1, <1>2, PTL DEF Spec

\* An aborted install, a dropped wrapper or a collected owner or dictionary never
\* leaves an escaped strict dictionary writable.
THEOREM AbandonedIsClosedHolds == Spec => []AbandonedIsClosed
<1>1. IInv => AbandonedIsClosed
  BY DEF IInv
<1> QED
  BY <1>1, IInvariant, PTL

\* A published namespace is revoked only by tearing down its owner or dictionary.
THEOREM PublishedOutlivesHandleHolds == Spec => PublishedOutlivesHandle
<1> DEFINE Revoked == phase = "Sealed" /\ phase' # "Sealed" => ~ownerLive' \/ dict' # "live"
<1>1. IInv /\ [Next]_vars => [Revoked]_vars
  <2> SUFFICES ASSUME IInv, Next, phase = "Sealed", phase' # "Sealed"
               PROVE ~ownerLive' \/ dict' # "live"
    OBVIOUS
  <2>1. CASE FinishInstall \/ BeginSealing \/ FinishSealing \/ Fail \/ ReleaseHandle
    BY <2>1 DEF FinishInstall, BeginSealing, FinishSealing, Fail, ReleaseHandle, Unfinished
  <2>2. CASE AbortInstall
    BY <2>2 DEF AbortInstall, IInv, AbandonedIsClosed
  <2>3. CASE OwnerTeardown \/ DictTeardown
    BY <2>3 DEF OwnerTeardown, DictTeardown
  <2> QED
    BY <2>1, <2>2, <2>3 DEF Next, SetItem, DelItem, DropEntry, ClearDict, InstallPolicy,
       BeginExecution, RecordInitializerEntry, RegisterPending, TakePending, DictGone
<1> QED
  BY <1>1, IInvariant, PTL DEF Spec, PublishedOutlivesHandle

--------------------------------------------------------------------------------
\* Writing through the barrier is a Mutate or an Append step of the contract.
LEMMA WriteRefines ==
    ASSUME IInv, IInv',
           NEW k \in Keys,
           (\E v \in Values : SetItem(k, v)) \/ DelItem(k) \/ ClearDict
    PROVE  Contract!Mutate \/ Contract!Append
<1> USE DEF IInv, TypeOK
<1>1. /\ dict = "live" /\ phase \notin {"Failed", "Terminal", "Discovered"}
      /\ UNCHANGED <<strictAssign, phase, dict>>
      /\ ns' \in Contract!Bindings
  BY DEF SetItem, DelItem, ClearDict, Guarded, Validates, Permits, lifetime, Contract!Bindings, Phases
<1>2. CASE phase = "Initializing" \/ ~strictAssign
  <2>1. Mode = "open" /\ Mode' = "open"
    BY <1>1, <1>2 DEF Mode, Phases
  <2> QED
    BY <1>1, <2>1 DEF Contract!Mutate
<1>3. CASE phase # "Initializing" /\ strictAssign
  <2>1. Mode = "appendOnly" /\ Mode' = "appendOnly"
    BY <1>1, <1>3 DEF Mode, Phases
  <2>2. ASSUME NEW x \in Keys \ MutableNames, ns[x] # Unbound PROVE ns'[x] = ns[x]
    BY <1>3, <2>2, Zenon DEF SetItem, DelItem, ClearDict, Guarded, Validates, Permits
  <2> QED
    BY <1>1, <2>1, <2>2 DEF Contract!Append
<1> QED
  BY <1>2, <1>3

\* Every step of the namespace is a step of the contract, or none.
LEMMA StepRefines == IInv /\ IInv' /\ [Next]_vars => [Contract!ContractNext]_(Contract!contractVars)
<1> SUFFICES ASSUME IInv, IInv', [Next]_vars
             PROVE Contract!ContractNext \/ (Mode' = Mode /\ ns' = ns)
  BY DEF Contract!contractVars
<1> USE DEF IInv, TypeOK, AbandonedIsClosed
<1>1. ASSUME NEW k \in Keys, (\E v \in Values : SetItem(k, v)) \/ DelItem(k)
      PROVE Contract!ContractNext
  BY <1>1, WriteRefines DEF Contract!ContractNext
<1>2. CASE ClearDict
  BY <1>2, WriteRefines DEF Contract!ContractNext, Keys
<1>3. ASSUME NEW k \in Keys, DropEntry(k) PROVE Contract!ContractNext
  BY <1>3 DEF DropEntry, lifetime, Contract!ContractNext, Contract!Vanish, Contract!Bindings, Mode
<1>4. CASE FinishInstall
  BY <1>4 DEF FinishInstall, Contract!ContractNext, Contract!Open, Mode
<1>5. CASE BeginSealing
  BY <1>5 DEF BeginSealing, Attached, lifetime, Contract!ContractNext, Contract!Freeze, Contract!Close, Mode
<1>6. CASE AbortInstall \/ Fail \/ ReleaseHandle \/ OwnerTeardown
  BY <1>6 DEF AbortInstall, Fail, ReleaseHandle, OwnerTeardown, lifetime, Unfinished,
     Contract!ContractNext, Contract!Close, Mode, Phases
<1>7. CASE DictTeardown
  BY <1>7 DEF DictTeardown, Contract!ContractNext, Contract!Discard, Mode
<1>8. CASE FinishSealing
  BY <1>8 DEF FinishSealing, lifetime, Mode
<1>9. CASE DictGone
  BY <1>9 DEF DictGone, Mode
<1>10. CASE InstallPolicy \/ BeginExecution \/ RecordInitializerEntry \/ UNCHANGED vars
  BY <1>10 DEF InstallPolicy, BeginExecution, RecordInitializerEntry, vars, lifetime, Mode
<1>11. CASE (\E r \in Receipts : RegisterPending(r)) \/ (\E R \in SUBSET Receipts : TakePending(R))
  BY <1>11 DEF RegisterPending, TakePending, lifetime, Mode
<1> QED
  BY <1>1, <1>2, <1>3, <1>4, <1>5, <1>6, <1>7, <1>8, <1>9, <1>10, <1>11 DEF Next

\* The phase machine and the write barrier implement the namespace contract for
\* every set of names and values: the initial states map to initial states and
\* every operation maps to a step of the contract or leaves it unchanged.
THEOREM Refinement == Spec => ImplementsContract
<1>1. Init => Contract!ContractInit
  BY DEF Init, Contract!ContractInit, Contract!Bindings, Mode
<1>2. IInv /\ IInv' /\ [Next]_vars => [Contract!ContractNext]_(Contract!contractVars)
  BY StepRefines
<1> QED
  BY <1>1, <1>2, IInvariant, PTL DEF Spec, ImplementsContract, Contract!ContractSpec
================================================================================
