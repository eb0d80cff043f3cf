------------------------ MODULE ClassAdmissionProofs ------------------------
(***************************************************************************)
(* What a class statement delivers, for any number of executions, calls    *)
(* and interleavings with the import.                                      *)
(*                                                                         *)
(* THEOREM SelectedOnly: only the selected type opens.                     *)
(* The argument follows the field requirements.  They are bound only to a  *)
(* type that validated, and only the type to be delivered validates: it is *)
(* either plain or owns its members edge.  An activation that will admit a *)
(* type found it Pending, so it has bound them to that type, and what it   *)
(* opens is therefore the type to be delivered.  Every other step leaves a *)
(* type's admission as it is or ends it (Closes).                          *)
(*                                                                         *)
(* THEOREMS CompletedIsFinalHolds, FailureIsOwnHolds and                   *)
(* ApplicationForgottenHolds: what becomes of a statement.  LifeInv says   *)
(* for each statement where its type is: registered, with the import, or   *)
(* sealed (Awaited); who is inside its admission (Admitter); what          *)
(* complete_class has delivered when it returns (Result); and that in the  *)
(* interpreter nobody else settles a construction under way, because the   *)
(* executions of a call do not overlap (Interpreting, OneAtATime).         *)
(***************************************************************************)
EXTENDS ClassAdmission, SequenceLemmas

\* The steps are first-order over sets and functions and left to Zenon; the
\* ones with arithmetic, sequences or larger records name an SMT solver.
USE ZenonT(30)

NativePhases == {"none", "pending", "admitting", "enforced", "failed", "dynamic", "dead"}
Phases == {"Prepared", "Pending", "Admitting", "Bound", "Sealed", "Discarded", "Terminal"}
PlanPhases == {"none", "Prepared", "Bound", "Completing", "Complete", "Failed"}
Calls == [type : Types \union {None},
          stage : {"none", "adopt", "admit", "seal", "ok", "error"},
          finalize : BOOLEAN, pending : BOOLEAN]

Typed ==
    /\ kind \in [Defs -> Kinds]
    /\ native \in [Types -> NativePhases]
    /\ phase \in [Types -> Phases]
    /\ plan \in [Types -> PlanPhases]
    /\ selected \in [Defs -> Types \union {None}]
    /\ bound \in [Defs -> Types \union {None}]
    /\ call \in [Actors -> Calls]

\* Whoever is going to admit a type.
Admits(c) == c.stage = "admit" \/ (c.stage = "adopt" /\ c.pending)

\* The members edge and the requirements belong to the type to be delivered, and
\* native selects no other and that one after its birth; a type without a plan is a
\* plain class.
FinalOnly ==
    /\ \A t \in adopted : t \in Types /\ t = Final(t[1])
    /\ \A d \in Defs : bound[d] \in {None, Final(d)}
    /\ \A d \in Defs : selected[d] \in {None, bound[d]} /\ (selected[d] # None => native[Final(d)] # "none")
    /\ \A t \in Types : plan[t] = "none" /\ native[t] # "none" => t = Final(t[1])

AdmitsBound ==
    \A a \in Actors : Admits(call[a]) => /\ call[a].type \in Types
                                         /\ bound[call[a].type[1]] = call[a].type

IInv == Typed /\ FinalOnly /\ AdmitsBound /\ OpenIsSelected

\* A step that opens no type: it keeps an admission as it is, or ends it.
Closes ==
    /\ UNCHANGED <<kind, selected, adopted, bound, intact>>
    /\ Typed'
    /\ \A t \in Types :
         /\ \/ native'[t] = native[t]
            \/ native[t] # "none" /\ native'[t] \in {"failed", "dead"}
            \/ native[t] # "none" /\ native'[t] = "dynamic" /\ Resolved(t)
         /\ phase'[t] = phase[t] \/ phase'[t] = "Sealed" \/ native'[t] # "enforced"
         /\ plan'[t] = "none" => plan[t] = "none"
    /\ \A a \in Actors : call'[a] = call[a] \/ ~Admits(call'[a])

-----------------------------------------------------------------------------
\* The two types of a lineage, and who they belong to.
LEMMA Lineages ==
    /\ None \notin Types
    /\ \A t \in Types : t[1] \in Defs /\ (t = Original(t[1]) \/ t = Replacement(t[1]))
    /\ \A d \in Defs : /\ Original(d) \in Types /\ Original(d)[1] = d
                       /\ Replacement(d) \in Types /\ Replacement(d)[1] = d
                       /\ Original(d) # Replacement(d)
BY ClassAdmissionAssumption, SMTT(20) DEF Types, Original, Replacement

\* The type to be delivered is a type of the lineage.
LEMMA FinalTyped == \A d \in Defs : Final(d) \in Types /\ Final(d)[1] = d
BY Lineages DEF Final

\* Failing lineages touches only types that are still closed.
LEMMA FailTyped ==
    ASSUME NEW n \in [Types -> NativePhases], NEW ds
    PROVE  /\ FailLineages(n, ds) \in [Types -> NativePhases]
           /\ \A t \in Types : \/ FailLineages(n, ds)[t] = n[t]
                               \/ n[t] \in {"pending", "admitting"} /\ FailLineages(n, ds)[t] = "failed"
BY DEF FailLineages, NativePhases

\* fail_unfinished_type opens nothing and leaves an admitted type alone.
LEMMA UnfinishedCloses ==
    ASSUME IInv, NEW t \in Types, FailUnfinished(t)
    PROVE  /\ native' \in [Types -> NativePhases] /\ phase' \in [Types -> Phases]
           /\ \A u \in Types :
                /\ \/ native'[u] = native[u]
                   \/ native[u] # "none" /\ native'[u] = "failed"
                /\ phase'[u] = phase[u] \/ native'[u] # "enforced"
<1>1. CASE phase[t] \in {"Pending", "Admitting"}
  <2>1. native' = FailLineages(native, {t[1]}) /\ phase' = [phase EXCEPT ![t] = "Terminal"]
    BY <1>1 DEF FailUnfinished
  <2>2. native[t] # "enforced"
    BY <1>1 DEF IInv, OpenIsSelected
  <2> QED
    BY <2>1, <2>2, FailTyped, SMTT(20) DEF IInv, Typed, Phases
<1>2. CASE phase[t] \notin {"Pending", "Admitting"}
  BY <1>2 DEF FailUnfinished, IInv, Typed
<1> QED
  BY <1>1, <1>2

\* A closing step keeps the invariant.
LEMMA CloseStep == IInv /\ Closes => IInv'
<1> SUFFICES ASSUME IInv, Closes PROVE IInv'
  OBVIOUS
<1> USE Lineages, FinalTyped
<1>1. \A d \in Defs : Final(d)' = Final(d)
  BY DEF Closes, Final
<1>2. FinalOnly'
  BY <1>1, SMTT(20) DEF IInv, Typed, FinalOnly, Closes
<1>3. AdmitsBound'
  BY SMTT(20) DEF IInv, AdmitsBound, Closes
<1>4. OpenIsSelected'
  <2> SUFFICES ASSUME NEW t \in Types
               PROVE  /\ native'[t] = "enforced" =>
                           /\ t = Final(t[1]) /\ selected[t[1]] = t /\ bound[t[1]] = t
                           /\ t \in intact /\ phase'[t] \in {"Bound", "Sealed"}
                      /\ native'[t] = "dynamic" => selected[t[1]] \notin {None, t}
    BY <1>1, SMTT(20) DEF OpenIsSelected, Closes
  <2> QED
    BY SMTT(20) DEF IInv, OpenIsSelected, Closes, Resolved
<1> QED
  BY <1>2, <1>3, <1>4 DEF IInv, Closes

\* Starting complete_class keeps the invariant: the requirements are bound only where
\* they were not, and only to a type that validated.
LEMMA StartStep ==
    ASSUME IInv, NEW a \in Actors, NEW t \in Types, NEW f \in BOOLEAN,
           StartComplete(a, t, f),
           UNCHANGED <<kind, native, phase, plan, selected, adopted, intact>>
    PROVE  IInv'
<1> USE Lineages, FinalTyped
<1>1. \A d \in Defs : Final(d)' = Final(d)
  BY DEF Final
<1>s. PICK first \in FirstStages(t, f) :
        /\ call' = [call EXCEPT ![a] = [type |-> t, stage |-> first, finalize |-> f,
                                        pending |-> phase[t] = "Pending"]]
        /\ bound' = IF first = "adopt" /\ phase[t] = "Pending" THEN [bound EXCEPT ![t[1]] = t] ELSE bound
  BY DEF StartComplete
<1>2. first \in {"error", "ok", "adopt"}
  BY <1>s DEF FirstStages
<1>3. Typed'
  <2>1. call' \in [Actors -> Calls]
    BY <1>s, <1>2 DEF IInv, Typed, Calls
  <2>2. bound' \in [Defs -> Types \union {None}]
    BY <1>s DEF IInv, Typed
  <2> QED
    BY <2>1, <2>2 DEF IInv, Typed
<1>4. ASSUME first = "adopt", phase[t] = "Pending"
      PROVE  bound[t[1]] \in {None, t} /\ t = Final(t[1])
  <2>1. Constructed(t) /\ Validates(t)
    BY <1>s, <1>4 DEF FirstStages
  <2>2. t \in adopted \/ (plan[t] = "none" /\ native[t] # "none")
    BY <2>1 DEF Validates, AdoptsMembers, Constructed
  <2> QED
    BY <2>1, <2>2 DEF IInv, FinalOnly
<1>5. bound' = bound \/ (/\ first = "adopt" /\ phase[t] = "Pending"
                         /\ bound' = [bound EXCEPT ![t[1]] = t])
  BY <1>s
<1>6. \A d \in Defs : bound'[d] = bound[d] \/ (bound[d] = None /\ d = t[1] /\ bound'[d] = t /\ t = Final(d))
  BY <1>4, <1>5 DEF IInv, Typed
<1>7. FinalOnly'
  BY <1>1, <1>6, SMTT(20) DEF IInv, FinalOnly
<1>8. AdmitsBound'
  <2> SUFFICES ASSUME NEW b \in Actors, Admits(call'[b])
               PROVE  call'[b].type \in Types /\ bound'[call'[b].type[1]] = call'[b].type
    BY DEF AdmitsBound, Admits
  <2>1. CASE b = a
    <3>1. call'[b] = [type |-> t, stage |-> first, finalize |-> f,
                      pending |-> phase[t] = "Pending"]
      BY <1>s, <2>1 DEF IInv, Typed
    <3>2. first = "adopt" /\ phase[t] = "Pending"
      <4>1. call'[b].stage = first
        BY <3>1, SMTT(20)
      <4>2. call'[b].pending = (phase[t] = "Pending")
        BY <3>1, SMTT(20)
      <4>3. first # "admit"
        BY <1>2
      <4> QED
        BY <4>1, <4>2, <4>3 DEF Admits
    <3> QED
      BY <1>s, <3>1, <3>2, <1>4, SMTT(20) DEF IInv, Typed
  <2>2. CASE b # a
    <3>1. call'[b] = call[b]
      BY <1>s, <2>2 DEF IInv, Typed
    <3> QED
      BY <3>1, <1>6, SMTT(20) DEF IInv, AdmitsBound
  <2> QED
    BY <2>1, <2>2
<1>9. OpenIsSelected'
  BY <1>1, <1>6, SMTT(20) DEF IInv, OpenIsSelected
<1> QED
  BY <1>3, <1>7, <1>8, <1>9 DEF IInv

-----------------------------------------------------------------------------
(* complete_class.                                                         *)

\* An activation of complete_class keeps the invariant.  Only Commit opens a type, and
\* it is the one whose requirements this activation bound.
LEMMA CompleteClassStep ==
    ASSUME IInv, NEW a \in Actors, CompleteClass(a) PROVE IInv'
<1> USE Lineages, FinalTyped
<1>1. CASE Adopt(a)
  <2> USE <1>1 DEF Adopt
  <2>1. CASE call[a].pending
    <3> DEFINE t == call[a].type
    <3>1. t \in Types /\ bound[t[1]] = t /\ phase[t] = "Pending" /\ native[t] = "pending"
      BY <2>1 DEF IInv, AdmitsBound, Admits, MayBeginAdmission
    <3>2. /\ phase' = [phase EXCEPT ![t] = "Admitting"]
          /\ native' = [native EXCEPT ![t] = "admitting"]
          /\ call' = [call EXCEPT ![a].stage = "admit"]
      BY <2>1
    <3> HIDE DEF t
    <3>3. Typed'
      BY <3>1, <3>2, SMTT(20) DEF IInv, Typed, NativePhases, Phases, Calls
    <3>4. FinalOnly'
      <4>1. \A d \in Defs : Final(d)' = Final(d)
        BY DEF Final
      <4>2. \A u \in Types : native'[u] = "none" <=> native[u] = "none"
        BY <3>1, <3>2, SMTT(20) DEF IInv, Typed
      <4> QED
        BY <4>1, <4>2, SMTT(20) DEF IInv, FinalOnly
    <3>5. AdmitsBound'
      <4> SUFFICES ASSUME NEW b \in Actors, Admits(call'[b])
                   PROVE  call'[b].type \in Types /\ bound[call'[b].type[1]] = call'[b].type
        BY DEF AdmitsBound, Admits
      <4>1. CASE b = a
        <5>1. call'[b].type = t
          BY <4>1, <3>2, SMTT(20) DEF IInv, Typed, Calls, t
        <5> QED
          BY <5>1, <3>1
      <4>2. CASE b # a
        BY <4>2, <3>2, SMTT(20) DEF IInv, Typed, AdmitsBound
      <4> QED
        BY <4>1, <4>2
    <3>6. OpenIsSelected'
      <4>1. \A d \in Defs : Final(d)' = Final(d)
        BY DEF Final
      <4>2. \A u \in Types : u # t => native'[u] = native[u] /\ phase'[u] = phase[u]
        BY <3>2, SMTT(20) DEF IInv, Typed
      <4>3. native'[t] = "admitting"
        BY <3>1, <3>2 DEF IInv, Typed
      <4> QED
        BY <4>1, <4>2, <4>3, SMTT(20) DEF IInv, OpenIsSelected
    <3> QED
      BY <3>3, <3>4, <3>5, <3>6 DEF IInv
  <2>2. CASE ~call[a].pending
    <3>0. call' \in [Actors -> Calls]
      BY <2>2, SMTT(20) DEF IInv, Typed, Calls
    <3>1. Typed'
      BY <2>2, <3>0 DEF IInv, Typed
    <3>2. \A b \in Actors : call'[b] = call[b] \/ ~Admits(call'[b])
      BY <2>2, SMTT(20) DEF IInv, Typed, Calls, Admits
    <3> QED
      BY <2>2, <3>1, <3>2, CloseStep DEF Closes
  <2> QED
    BY <2>1, <2>2
<1>2. CASE AdoptFails(a)
  <2>a. call' = [call EXCEPT ![a].stage = "error"]
    BY <1>2 DEF AdoptFails
  <2>0. call' \in [Actors -> Calls]
    <3>1. call[a] \in Calls
      BY DEF IInv, Typed
    <3>2. [call[a] EXCEPT !.stage = "error"] \in Calls
      BY <3>1 DEF Calls
    <3> QED
      BY <2>a, <3>2 DEF IInv, Typed
  <2>1. Typed'
    BY <1>2, <2>0 DEF AdoptFails, stateVars, IInv, Typed
  <2>2. \A b \in Actors : call'[b] = call[b] \/ ~Admits(call'[b])
    BY <1>2, SMTT(20) DEF AdoptFails, IInv, Typed, Calls, Admits
  <2> QED
    BY <1>2, <2>1, <2>2, CloseStep DEF Closes, AdoptFails, stateVars
<1>3. CASE Commit(a)
  <2> USE <1>3 DEF Commit
  <2> DEFINE t == call[a].type
  <2>1. /\ t \in Types /\ bound[t[1]] = t /\ t = Final(t[1]) /\ t \in intact
        /\ native[t] = "admitting"
    BY SMTT(20) DEF IInv, AdmitsBound, Admits, FinalOnly, MayCommit, Validates
  <2>2. /\ phase' = [phase EXCEPT ![t] = "Bound"]
        /\ native' = [native EXCEPT ![t] = "enforced"]
        /\ selected' = [selected EXCEPT ![t[1]] = t]
        /\ call' = [call EXCEPT ![a].stage = IF call[a].finalize THEN "seal" ELSE "ok"]
    OBVIOUS
  <2> HIDE DEF t
  <2>3. Typed'
    BY <2>1, <2>2, SMTT(20) DEF IInv, Typed, NativePhases, Phases, Calls
  <2>4. \A d \in Defs : Final(d)' = Final(d)
    BY DEF Final
  <2>5. \A u \in Types : u # t => native'[u] = native[u] /\ phase'[u] = phase[u]
    BY <2>2, SMTT(20) DEF IInv, Typed
  <2>6. native'[t] = "enforced" /\ phase'[t] = "Bound" /\ selected'[t[1]] = t
    BY <2>1, <2>2, SMTT(20) DEF IInv, Typed
  <2>7. \A d \in Defs : d # t[1] => selected'[d] = selected[d]
    BY <2>2, SMTT(20) DEF IInv, Typed
  <2>8. FinalOnly'
    BY <2>1, <2>4, <2>5, <2>6, <2>7, SMTT(20) DEF IInv, FinalOnly
  <2>9. AdmitsBound'
    <3>1. \A b \in Actors : call'[b] = call[b] \/ ~Admits(call'[b])
      BY <2>2, SMTT(20) DEF IInv, Typed, Calls, Admits
    <3> QED
      BY <3>1, SMTT(20) DEF IInv, AdmitsBound
  <2>10. OpenIsSelected'
    BY <2>1, <2>4, <2>5, <2>6, <2>7, SMTT(20) DEF IInv, OpenIsSelected, FinalOnly
  <2> QED
    BY <2>3, <2>8, <2>9, <2>10 DEF IInv
<1>4. CASE AdmissionFails(a)
  <2>1. call[a].type \in Types
    BY <1>4 DEF AdmissionFails, IInv, AdmitsBound, Admits
  <2>2. \A b \in Actors : call'[b] = call[b] \/ ~Admits(call'[b])
    BY <1>4, SMTT(20) DEF AdmissionFails, IInv, Typed, Calls, Admits
  <2>3. call' \in [Actors -> Calls]
    BY <1>4, SMTT(20) DEF AdmissionFails, IInv, Typed, Calls
  <2> QED
    BY <1>4, <2>1, <2>2, <2>3, UnfinishedCloses, CloseStep DEF Closes, AdmissionFails, IInv, Typed
<1>5. CASE Seal(a)
  <2>0. call' \in [Actors -> Calls]
    BY <1>5, SMTT(20) DEF Seal, IInv, Typed, Calls
  <2>1. Typed'
    BY <1>5, <2>0 DEF Seal, IInv, Typed, Phases
  <2>2. \A b \in Actors : call'[b] = call[b] \/ ~Admits(call'[b])
    BY <1>5, SMTT(20) DEF Seal, IInv, Typed, Calls, Admits
  <2>3. \A t \in Types : phase'[t] = phase[t] \/ phase'[t] = "Sealed"
    BY <1>5 DEF Seal, IInv, Typed
  <2> QED
    BY <1>5, <2>1, <2>2, <2>3, CloseStep DEF Closes, Seal
<1> QED
  BY <1>1, <1>2, <1>3, <1>4, <1>5 DEF CompleteClass

-----------------------------------------------------------------------------
(* The statement and the application.                                      *)

\* Leaving complete_class admits nothing.
LEMMA LeaveCall ==
    ASSUME IInv, NEW a \in Actors, call' = [call EXCEPT ![a] = NoCall]
    PROVE  /\ call' \in [Actors -> Calls]
           /\ \A b \in Actors : call'[b] = call[b] \/ ~Admits(call'[b])
BY DEF IInv, Typed, Calls, NoCall, Admits

\* The clean-up of a failed application opens nothing.
LEMMA FailApplicationStep ==
    ASSUME IInv, NEW d \in Defs, FailApplication(d) PROVE IInv'
<1> USE Lineages DEF FailApplication
<1>1. d \in Actors
  BY DEF Actors
<1>2. /\ call' \in [Actors -> Calls]
      /\ \A b \in Actors : call'[b] = call[b] \/ ~Admits(call'[b])
  BY <1>1, LeaveCall DEF Leave
<1>3. native' = native \/ native' = FailLineages(native, {d})
  BY DEF NativeAfterFailOwner
<1>4. /\ native' \in [Types -> NativePhases]
      /\ \A t \in Types : \/ native'[t] = native[t]
                          \/ native[t] # "none" /\ native'[t] = "failed"
  <2>1. native \in [Types -> NativePhases]
    BY DEF IInv, Typed
  <2>2. CASE native' = native
    BY <2>1, <2>2
  <2>3. CASE native' = FailLineages(native, {d})
    BY <2>1, <2>3, FailTyped, SMTT(20)
  <2> QED
    BY <1>3, <2>2, <2>3
<1>5. \A t \in FirstUnfinished(d) : phase[t] \in {"Pending", "Admitting"}
  BY DEF FirstUnfinished
<1>6. /\ phase' \in [Types -> Phases]
      /\ \A t \in Types : phase'[t] = phase[t] \/ native'[t] # "enforced"
  <2>1. \A t \in Types : phase'[t] = phase[t] \/ (t \in FirstUnfinished(d) /\ phase'[t] = "Terminal")
    OBVIOUS
  <2>2. \A t \in FirstUnfinished(d) : t \in Types => native[t] # "enforced"
    BY <1>5 DEF IInv, OpenIsSelected
  <2>3. phase' \in [Types -> Phases]
    BY DEF IInv, Typed, Phases
  <2> QED
    BY <1>4, <2>1, <2>2, <2>3
<1>7. /\ plan' \in [Types -> PlanPhases]
      /\ \A t \in Types : plan'[t] = "none" => plan[t] = "none"
  BY DEF FailOwner, FailedPlans, IInv, Typed, PlanPhases
<1>8. Typed'
  BY <1>2, <1>4, <1>6, <1>7 DEF IInv, Typed
<1>9. Closes
  BY <1>2, <1>4, <1>6, <1>7, <1>8 DEF Closes
<1> QED
  BY <1>9, CloseStep

\* A step of the class statement up to the constructed type keeps the invariant.
LEMMA StatementStep ==
    ASSUME IInv, NEW d \in Defs, Statement(d) PROVE IInv'
<1> USE Lineages
<1>1. d \in Actors
  BY DEF Actors
<1>2. CASE Prepare(d) \/ Decline(d)
  BY <1>2, CloseStep DEF Prepare, Decline, Closes, IInv, Typed
<1>3. CASE Allocate(d)
  <2> USE <1>3 DEF Allocate
  <2>1. native' \in [Types -> NativePhases] /\ plan' \in [Types -> PlanPhases]
    BY DEF IInv, Typed, NativePhases, PlanPhases
  <2>2. \A e \in Defs : Final(e)' = Final(e)
    BY DEF Final
  <2>3. \A t \in Types : t # Original(d) => native'[t] = native[t] /\ plan'[t] = plan[t]
    BY DEF IInv, Typed
  <2>4. native'[Original(d)] = "pending"
    BY DEF IInv, Typed
  <2>5. plan'[Original(d)] = "none" => Original(d) = Final(d)
    BY DEF IInv, Typed, Final
  <2>6. FinalOnly'
    BY <2>2, <2>3, <2>4, <2>5, SMTT(20) DEF IInv, FinalOnly
  <2>7. AdmitsBound'
    BY DEF IInv, AdmitsBound
  <2>8. OpenIsSelected'
    BY <2>2, <2>3, <2>4, SMTT(20) DEF IInv, OpenIsSelected
  <2> QED
    BY <2>1, <2>6, <2>7, <2>8 DEF IInv, Typed
<1>4. CASE Bind(d)
  <2> USE <1>4 DEF Bind, MayBind
  <2>1. phase' \in [Types -> Phases] /\ plan' \in [Types -> PlanPhases]
    BY DEF IInv, Typed, Phases, PlanPhases
  <2>2. \A t \in Types : /\ phase'[t] = phase[t] \/ native'[t] # "enforced"
                        /\ plan'[t] = "none" => plan[t] = "none"
    BY DEF IInv, Typed
  <2> QED
    BY <2>1, <2>2, CloseStep DEF Closes, IInv, Typed
<1>5. DiscardAdapter(d) => /\ plan' \in [Types -> PlanPhases]
                           /\ \A t \in Types : plan'[t] = "none" => plan[t] = "none"
  BY SMTT(20) DEF DiscardAdapter, IInv, Typed, PlanPhases
<1>6. CASE ConstructionFails(d)
  <2>1. /\ native' \in [Types -> NativePhases]
        /\ \A t \in Types : \/ native'[t] = native[t]
                            \/ native[t] # "none" /\ native'[t] = "failed"
    BY <1>6, FailTyped, SMTT(20) DEF ConstructionFails, IInv, Typed
  <2> QED
    BY <1>5, <1>6, <2>1, CloseStep DEF ConstructionFails, Closes, IInv, Typed
<1>7. CASE Register(d)
  <2>1. CASE kind[d] = "plain"
    BY <1>1, <1>7, <2>1, StartStep DEF Register
  <2>2. CASE kind[d] # "plain"
    BY <1>7, <2>2, CloseStep DEF Register, Closes, IInv, Typed
  <2> QED
    BY <2>1, <2>2
<1>8. CASE RegisterFails(d)
  <2>1. DiscardAdapter(d) \/ UNCHANGED plan
    BY <1>8 DEF RegisterFails
  <2>2. /\ plan' \in [Types -> PlanPhases]
        /\ \A t \in Types : plan'[t] = "none" => plan[t] = "none"
    BY <1>5, <2>1 DEF IInv, Typed
  <2> QED
    BY <1>8, <2>2, UnfinishedCloses, CloseStep DEF RegisterFails, Closes, IInv, Typed
<1>9. CASE PlainAdmitted(d)
  <2>1. CASE IsReady
    BY <1>1, <1>9, <2>1, StartStep DEF PlainAdmitted
  <2>2. CASE ~IsReady
    <3>1. call' = [call EXCEPT ![d] = NoCall]
      BY <1>9, <2>2 DEF PlainAdmitted, Leave
    <3> QED
      BY <1>1, <1>9, <2>2, <3>1, LeaveCall, CloseStep DEF PlainAdmitted, Closes, IInv, Typed
  <2> QED
    BY <2>1, <2>2
<1>10. CASE PlainFails(d)
  <2>1. call' = [call EXCEPT ![d] = NoCall]
    BY <1>10 DEF PlainFails, Leave
  <2> QED
    BY <1>1, <1>10, <2>1, LeaveCall, UnfinishedCloses, CloseStep
    DEF PlainFails, Closes, IInv, Typed
<1>11. CASE Finalized(d)
  <2>1. call' = [call EXCEPT ![d] = NoCall]
    BY <1>11 DEF Finalized, Leave
  <2> QED
    BY <1>1, <1>11, <2>1, LeaveCall, CloseStep DEF Finalized, stateVars, Closes, IInv, Typed
<1> QED
  BY <1>2, <1>3, <1>4, <1>6, <1>7, <1>8, <1>9, <1>10, <1>11 DEF Statement

\* A step of the dataclass application keeps the invariant.  The commit gives the
\* members edge to the type to be delivered.
LEMMA ApplicationStep ==
    ASSUME IInv, NEW d \in Defs, Application(d) PROVE IInv'
<1> USE Lineages, FinalTyped
<1>1. d \in Actors
  BY DEF Actors
<1>2. CASE BeginApply(d) \/ FinishApply(d)
  BY <1>2, CloseStep DEF BeginApply, FinishApply, stateVars, Closes, IInv, Typed
<1>3. CASE ApplyRefused(d)
  <2>1. CASE FailApplication(d)
    BY <2>1, FailApplicationStep
  <2>2. CASE lane = "interpreter" /\ ~FailApplication(d)
    <3> USE <1>3, <2>2 DEF ApplyRefused
    <3>1. native' = native \/ native' = FailLineages(native, {d})
      BY DEF NativeAfterFailOwner
    <3>2. native \in [Types -> NativePhases]
      BY DEF IInv, Typed
    <3>3. /\ native' \in [Types -> NativePhases]
          /\ \A t \in Types : \/ native'[t] = native[t]
                              \/ native[t] # "none" /\ native'[t] = "failed"
      <4>1. CASE native' = native
        BY <3>2, <4>1
      <4>2. CASE native' = FailLineages(native, {d})
        BY <3>2, <4>2, FailTyped, SMTT(20)
      <4> QED
        BY <3>1, <4>1, <4>2
    <3>4. /\ plan' \in [Types -> PlanPhases]
          /\ \A t \in Types : plan'[t] = "none" => plan[t] = "none"
      BY SMTT(20) DEF FailOwner, FailedPlans, IInv, Typed, PlanPhases
    <3> QED
      BY <3>3, <3>4, CloseStep DEF Closes, IInv, Typed
  <2> QED
    BY <1>3, <2>1, <2>2 DEF ApplyRefused
<1>4. CASE AllocateReplacement(d)
  <2> USE <1>4 DEF AllocateReplacement
  <2>1. native' \in [Types -> NativePhases] /\ plan' \in [Types -> PlanPhases]
    BY DEF IInv, Typed, NativePhases, PlanPhases
  <2>2. \A e \in Defs : Final(e)' = Final(e)
    BY DEF Final
  <2>3. \A t \in Types : t # Replacement(d) => native'[t] = native[t] /\ plan'[t] = plan[t]
    BY DEF IInv, Typed
  <2>4. native'[Replacement(d)] = "pending" /\ plan'[Replacement(d)] = "Prepared"
    BY DEF IInv, Typed
  <2>5. FinalOnly'
    BY <2>2, <2>3, <2>4, SMTT(20) DEF IInv, FinalOnly
  <2>6. AdmitsBound'
    BY DEF IInv, AdmitsBound
  <2>7. OpenIsSelected'
    BY <2>2, <2>3, <2>4, SMTT(20) DEF IInv, OpenIsSelected
  <2> QED
    BY <2>1, <2>5, <2>6, <2>7 DEF IInv, Typed
<1>5. CASE BindReplacement(d)
  <2> USE <1>5 DEF BindReplacement, MayBind
  <2>1. phase' \in [Types -> Phases] /\ plan' \in [Types -> PlanPhases]
    BY DEF IInv, Typed, Phases, PlanPhases
  <2>2. \A t \in Types : /\ phase'[t] = phase[t] \/ native'[t] # "enforced"
                        /\ plan'[t] = "none" => plan[t] = "none"
    BY DEF IInv, Typed
  <2> QED
    BY <2>1, <2>2, CloseStep DEF Closes, IInv, Typed
<1>6. CASE CompleteApplication(d)
  <2>1. /\ plan' \in [Types -> PlanPhases]
        /\ \A t \in Types : plan'[t] = "none" => plan[t] = "none"
    BY <1>6 DEF CompleteApplication, IInv, Typed, PlanPhases
  <2> QED
    BY <1>6, <2>1, CloseStep DEF CompleteApplication, Closes, IInv, Typed
<1>7. CASE CommitApplication(d)
  <2> USE <1>7 DEF CommitApplication
  <2>1. /\ plan' \in [Types -> PlanPhases]
        /\ \A t \in Types : plan'[t] = "none" => plan[t] = "none"
    BY DEF IInv, Typed, PlanPhases
  <2>2. \A e \in Defs : Final(e)' = Final(e)
    BY DEF Final
  <2>3. FinalOnly'
    BY <2>1, <2>2, SMTT(20) DEF IInv, FinalOnly
  <2>4. AdmitsBound'
    BY DEF IInv, AdmitsBound
  <2>5. OpenIsSelected'
    BY <2>2, SMTT(20) DEF IInv, OpenIsSelected
  <2> QED
    BY <2>1, <2>3, <2>4, <2>5 DEF IInv, Typed
<1>8. CASE ApplicationFails(d) \/ ResultFails(d)
  BY <1>8, FailApplicationStep DEF ApplicationFails, ResultFails
<1>9. CASE Select(d)
  BY <1>1, <1>9, StartStep DEF Select
<1>10. CASE DisposeOriginal(d)
  <2> USE <1>10 DEF DisposeOriginal, MayDispose
  <2>1. call' = [call EXCEPT ![d] = NoCall]
    BY DEF Leave
  <2>2. native' \in [Types -> NativePhases] /\ phase' \in [Types -> Phases]
    BY DEF IInv, Typed, NativePhases, Phases
  <2>3. \A t \in Types : t # Original(d) => native'[t] = native[t] /\ phase'[t] = phase[t]
    BY DEF IInv, Typed
  <2>4. native'[Original(d)] = "dynamic" /\ Resolved(Original(d)) /\ native[Original(d)] # "none"
    BY DEF IInv, Typed
  <2> QED
    BY <1>1, <2>1, <2>2, <2>3, <2>4, LeaveCall, CloseStep DEF Closes, IInv, Typed
<1>11. CASE ResultAdmitted(d)
  <2>1. CASE IsReady
    BY <1>1, <1>11, <2>1, StartStep DEF ResultAdmitted
  <2>2. CASE ~IsReady
    <3>1. call' = [call EXCEPT ![d] = NoCall]
      BY <1>11, <2>2 DEF ResultAdmitted, Leave
    <3> QED
      BY <1>1, <1>11, <2>2, <3>1, LeaveCall, CloseStep DEF ResultAdmitted, Closes, IInv, Typed
  <2> QED
    BY <2>1, <2>2
<1> QED
  BY <1>2, <1>3, <1>4, <1>5, <1>6, <1>7, <1>8, <1>9, <1>10, <1>11 DEF Application

-----------------------------------------------------------------------------
(* The interpreter, the import and the environment.                        *)

\* Settling what is left of a call disposes of resolved provisionals and refuses
\* unfinished types; it opens nothing else.
LEMMA RemainingCloses ==
    ASSUME IInv, NEW v, NEW recs, CompleteRemaining(v, recs)
    PROVE  /\ native' \in [Types -> NativePhases] /\ phase' \in [Types -> Phases]
           /\ \A t \in Types :
                /\ \/ native'[t] = native[t]
                   \/ native[t] # "none" /\ native'[t] = "failed"
                   \/ native[t] # "none" /\ native'[t] = "dynamic" /\ Resolved(t)
                /\ phase'[t] = phase[t] \/ native'[t] # "enforced"
<1> DEFINE disposed == {t \in Settled(v, recs) : phase[t] # "Sealed"}
           refused == Refused(v, recs)
           middle == [t \in Types |-> IF t \in disposed THEN "dynamic" ELSE native[t]]
<1>1. /\ native' = FailLineages(middle, {t[1] : t \in refused})
      /\ phase' = [t \in Types |-> IF t \in disposed THEN "Discarded"
                                   ELSE IF t \in refused THEN "Terminal" ELSE phase[t]]
  BY DEF CompleteRemaining
<1>2. \A t \in Types : t \in disposed => Resolved(t) /\ native[t] = "pending"
  BY DEF Settled, Settles, MayDispose
<1>3. \A t \in Types : t \in refused => native[t] # "enforced"
  BY DEF Refused, IInv, OpenIsSelected
<1> HIDE DEF disposed, refused
<1>4. middle \in [Types -> NativePhases]
  BY DEF IInv, Typed, NativePhases
<1>5. \A t \in Types : middle[t] = native[t] \/ (t \in disposed /\ middle[t] = "dynamic")
  OBVIOUS
<1>6. \A t \in Types : t \in disposed => middle[t] = "dynamic"
  OBVIOUS
<1> HIDE DEF middle
<1>7. native' \in [Types -> NativePhases]
  BY <1>1, <1>4, FailTyped
<1>8. \A t \in Types :
        \/ native'[t] = middle[t]
        \/ middle[t] \in {"pending", "admitting"} /\ native'[t] = "failed"
  BY <1>1, <1>4, FailTyped
<1>9. phase' \in [Types -> Phases]
  BY <1>1 DEF IInv, Typed, Phases
<1>10. \A t \in Types : phase'[t] = phase[t] \/ t \in disposed \/ t \in refused
  BY <1>1
<1>11. ASSUME NEW t \in Types
       PROVE  /\ \/ native'[t] = native[t]
                 \/ native[t] # "none" /\ native'[t] = "failed"
                 \/ native[t] # "none" /\ native'[t] = "dynamic" /\ Resolved(t)
              /\ phase'[t] = phase[t] \/ native'[t] # "enforced"
  BY <1>2, <1>3, <1>5, <1>6, <1>8, <1>10
<1> QED
  BY <1>7, <1>9, <1>11

\* A step of the interpreter's completion keeps the invariant.
LEMMA InterpretedStep ==
    ASSUME IInv, NEW d \in Defs, Interpreted(d) PROVE IInv'
<1> USE Lineages, FinalTyped
<1>1. d \in Actors
  BY DEF Actors
<1>2. CASE NativeReady(d)
  BY <1>2, CloseStep DEF NativeReady, stateVars, Closes, IInv, Typed
<1>3. CASE Store(d)
  <2>1. CASE StartComplete(d, Final(d), TRUE)
    BY <1>1, <1>3, <2>1, StartStep DEF Store
  <2>2. CASE UNCHANGED <<call, bound>>
    BY <1>3, <2>2, CloseStep DEF Store, Closes, IInv, Typed
  <2> QED
    BY <1>3, <2>1, <2>2 DEF Store
<1>4. CASE StoreCompletes(d)
  <2>1. call' = [call EXCEPT ![d] = NoCall]
    BY <1>4 DEF StoreCompletes, Leave
  <2>2. CompleteRemaining(CallOf[d], Remove(records, {Final(d)}))
    BY <1>4 DEF StoreCompletes
  <2> QED
    BY <1>1, <1>4, <2>1, <2>2, LeaveCall, RemainingCloses, CloseStep
    DEF StoreCompletes, Closes, IInv, Typed
<1>5. CASE StoreFails(d)
  <2>1. call' = [call EXCEPT ![d] = NoCall]
    BY <1>5 DEF StoreFails, Leave
  <2> QED
    BY <1>1, <1>5, <2>1, LeaveCall, CloseStep DEF StoreFails, stateVars, Closes, IInv, Typed
<1> QED
  BY <1>2, <1>3, <1>4, <1>5 DEF Interpreted

\* The return of a call keeps the invariant.
LEMMA ReturnStep ==
    ASSUME IInv, NEW v, Return(v) PROVE IInv'
<1>1. CompleteRemaining(v, records)
  BY DEF Return
<1> QED
  BY <1>1, RemainingCloses, CloseStep DEF Return, Closes, IInv, Typed

\* A step of the import keeps the invariant.
LEMMA ImportStep ==
    ASSUME IInv, Import PROVE IInv'
<1> USE Lineages
<1>1. Driver \in Actors
  BY DEF Actors
<1>2. CASE BeginSealing \/ FinishSealing
  BY <1>2, CloseStep DEF BeginSealing, FinishSealing, stateVars, Closes, IInv, Typed
<1>3. CASE DrainTake
  <2>1. PICK t \in Types : StartComplete(Driver, t, TRUE)
    BY <1>3 DEF DrainTake
  <2> QED
    BY <1>1, <1>3, <2>1, StartStep DEF DrainTake
<1>4. CASE DrainNext
  <2>1. call' = [call EXCEPT ![Driver] = NoCall]
    BY <1>4 DEF DrainNext, Leave
  <2> QED
    BY <1>1, <1>4, <2>1, LeaveCall, CloseStep DEF DrainNext, stateVars, Closes, IInv, Typed
<1>5. CASE DrainInterpreter
  <2>1. PICK t \in Types :
          LET refuse == ~Settles(t) /\ Constructed(t) /\ phase[t] \in {"Pending", "Admitting"}
          IN
          /\ native' = IF MayDispose(t) THEN [native EXCEPT ![t] = "dynamic"]
                       ELSE IF refuse THEN FailLineages(native, {t[1]}) ELSE native
          /\ phase' = [phase EXCEPT ![t] = IF MayDispose(t) THEN "Discarded"
                                           ELSE IF refuse THEN "Terminal" ELSE @]
    BY <1>5 DEF DrainInterpreter
  <2>2. /\ native' \in [Types -> NativePhases] /\ phase' \in [Types -> Phases]
        /\ \A u \in Types :
             /\ \/ native'[u] = native[u]
                \/ native[u] # "none" /\ native'[u] = "failed"
                \/ native[u] # "none" /\ native'[u] = "dynamic" /\ Resolved(u)
             /\ phase'[u] = phase[u] \/ native'[u] # "enforced"
    <3>1. CASE MayDispose(t)
      BY <2>1, <3>1 DEF MayDispose, IInv, Typed, NativePhases, Phases
    <3>2. CASE ~MayDispose(t) /\ ~Settles(t) /\ Constructed(t) /\ phase[t] \in {"Pending", "Admitting"}
      <4>1. FailUnfinished(t)
        BY <2>1, <3>2 DEF FailUnfinished
      <4> QED
        BY <4>1, UnfinishedCloses
    <3>3. CASE ~MayDispose(t) /\ ~(~Settles(t) /\ Constructed(t) /\ phase[t] \in {"Pending", "Admitting"})
      BY <2>1, <3>3 DEF IInv, Typed
    <3> QED
      BY <3>1, <3>2, <3>3
  <2> QED
    BY <1>5, <2>2, CloseStep DEF DrainInterpreter, Closes, IInv, Typed
<1> QED
  BY <1>2, <1>3, <1>4, <1>5 DEF Import

\* A changed namespace and the death of a type keep the invariant.
LEMMA EnvironmentStep ==
    ASSUME IInv, NEW t \in Types, Spoil(t) \/ Die(t) PROVE IInv'
<1> USE Lineages
<1>1. CASE Spoil(t)
  <2> USE <1>1 DEF Spoil
  <2>1. \A d \in Defs : Final(d)' = Final(d)
    BY DEF Final
  <2>2. FinalOnly'
    BY <2>1, SMTT(20) DEF IInv, FinalOnly
  <2>3. AdmitsBound'
    BY DEF IInv, AdmitsBound
  <2>4. OpenIsSelected'
    BY <2>1 DEF IInv, OpenIsSelected
  <2> QED
    BY <2>2, <2>3, <2>4 DEF IInv, Typed
<1>2. CASE Die(t)
  <2> USE <1>2 DEF Die
  <2>1. /\ native' \in [Types -> NativePhases] /\ phase' \in [Types -> Phases]
        /\ plan' \in [Types -> PlanPhases]
    BY DEF IInv, Typed, NativePhases, Phases, PlanPhases
  <2>2. \A u \in Types : u # t => native'[u] = native[u] /\ phase'[u] = phase[u] /\ plan'[u] = plan[u]
    BY DEF IInv, Typed
  <2>3. native'[t] = "dead" /\ native[t] # "none" /\ (plan'[t] = "none" => plan[t] = "none")
    BY DEF IInv, Typed
  <2> QED
    BY <2>1, <2>2, <2>3, CloseStep DEF Closes, IInv, Typed
<1> QED
  BY <1>1, <1>2

-----------------------------------------------------------------------------
\* IInv is inductive.
LEMMA Inductive ==
    /\ Init => IInv
    /\ IInv /\ [Next]_vars => IInv'
<1>1. Init => IInv
  <2> SUFFICES ASSUME Init PROVE IInv
    OBVIOUS
  <2> USE Lineages, FinalTyped DEF Init
  <2>1. Typed
    BY DEF Typed, NativePhases, Phases, PlanPhases, Calls, NoCall
  <2>2. FinalOnly
    BY DEF FinalOnly
  <2>3. AdmitsBound
    BY DEF AdmitsBound, Admits, NoCall
  <2>4. OpenIsSelected
    BY DEF OpenIsSelected
  <2> QED
    BY <2>1, <2>2, <2>3, <2>4 DEF IInv
<1>2. IInv /\ [Next]_vars => IInv'
  <2> SUFFICES ASSUME IInv, [Next]_vars PROVE IInv'
    OBVIOUS
  <2>1. CASE UNCHANGED vars
    BY <2>1, CloseStep DEF vars, stateVars, Closes, IInv, Typed
  <2>2. CASE \E d \in Defs : Statement(d) \/ Application(d) \/ Interpreted(d)
    BY <2>2, StatementStep, ApplicationStep, InterpretedStep
  <2>3. CASE \E a \in Actors : CompleteClass(a)
    BY <2>3, CompleteClassStep
  <2>4. CASE \E v \in {CallOf[d] : d \in Defs} : Return(v)
    BY <2>4, ReturnStep
  <2>5. CASE Import
    BY <2>5, ImportStep
  <2>6. CASE \E t \in Types : Spoil(t) \/ Die(t)
    BY <2>6, EnvironmentStep
  <2> QED
    BY <2>1, <2>2, <2>3, <2>4, <2>5, <2>6 DEF Next, Terminated
<1> QED
  BY <1>1, <1>2

-----------------------------------------------------------------------------
(* What becomes of a statement.                                            *)

Pcs == AtRest \union {"body", "allocated", "ready", "constructed", "admit", "finalize", "transform", "allocated2",
                      "ready2", "returned", "completing", "unpublished", "selected", "unregister", "store"}
InvocationPhases == {"none", "Prepared", "Construction", "Bound", "Applying", "Completing", "Complete", "Declined", "Failed"}
LifeTyped ==
    /\ lane \in Lanes
    /\ invocation \in [Defs -> InvocationPhases]
    /\ pc \in [Defs -> Pcs]
    /\ records \in Seq(Types)
    /\ module \in {"Initializing", "Sealing", "Sealed", "Failed"}
    /\ applied \subseteq Defs

\* The import works on one type at a time, and only in the retained lane.
DriverCall ==
    \/ call[Driver] = NoCall
    \/ /\ lane = "retained" /\ call[Driver].type \in Types
       /\ call[Driver].stage # "none" /\ call[Driver].finalize

\* The executions of one call do not overlap.
OneAtATime ==
    \A d, e \in Defs : CallOf[d] = CallOf[e] /\ pc[d] \notin AtRest /\ pc[e] \notin AtRest => d = e

\* A statement is inside complete_class for the type it is to deliver.
Activation(d) ==
    /\ pc[d] \in {"admit", "finalize"} =>
         call[d].type = Final(d) /\ call[d].stage # "none" /\ (pc[d] = "finalize" => call[d].finalize)
    /\ pc[d] \notin {"admit", "finalize"} => call[d] = NoCall

\* A type goes through its phases only after it was born.
Born(d) ==
    /\ \A t \in Lineage(d) : /\ native[t] = "none" => phase[t] = "Prepared"
                             /\ phase[t] \in {"Bound", "Sealed"} => native[t] = "enforced"
    /\ pc[d] \in {"idle", "body", "dynamic"} => native[Original(d)] = "none"
    /\ pc[d] \in {"idle", "body", "dynamic", "allocated", "ready", "constructed", "transform"} =>
         native[Replacement(d)] = "none"

\* Whoever began an admission is still in it.
Admitter(d) ==
    \A t \in Lineage(d) : phase[t] = "Admitting" =>
        \E a \in {d, Driver} : call[a].type = t /\ call[a].stage = "admit"

Admitted(t) == native[t] = "enforced" \/ call[Driver].type = t \/ module = "Failed"
SealedOrDead(t) == phase[t] = "Sealed" \/ native[t] = "dead"

\* What complete_class has delivered when it returns.
Result(d) ==
    /\ call[d].stage = "ok" /\ call[d].finalize => phase[Final(d)] = "Sealed"
    /\ call[d].stage \in {"ok", "seal"} \/ (call[d].stage = "adopt" /\ ~call[d].pending) => Admitted(Final(d))
    /\ pc[d] = "unregister" => Admitted(Final(d))
    /\ \A t \in Lineage(d) : call[Driver].type = t /\ call[Driver].stage = "ok" => phase[t] = "Sealed"
    /\ pc[d] = "done" =>
         /\ Admitted(Final(d)) \/ native[Final(d)] = "dead"
         /\ module = "Sealed" \/ lane = "interpreter" => SealedOrDead(Final(d))

\* A type that is not sealed yet has a record, or the import has taken it.
Waits(d) == \/ pc[d] \in {"admit", "unregister", "done"}
            \/ kind[d] # "slots" /\ pc[d] \in {"constructed", "transform", "returned", "completing", "selected"}
Awaited(d) ==
    lane = "retained" /\ Waits(d) =>
        SealedOrDead(Final(d)) \/ Registered(Final(d)) \/ call[Driver].type = Final(d) \/ module = "Failed"

\* While the module lives nobody takes an interpreted construction away from its
\* statement, which leaves no record behind when it completes.
Interpreting(d) ==
    /\ kind[d] # "plain" /\ pc[d] \in {"body", "allocated"} => invocation[d] # "none"
    /\ kind[d] # "plain" /\ pc[d] = "allocated" => plan[Original(d)] # "none"
    /\ lane = "interpreter" /\ Live =>
         /\ pc[d] \in {"ready", "constructed"} =>
              /\ native[Original(d)] = "pending" /\ phase[Original(d)] = "Pending"
              /\ kind[d] # "plain" => plan[Original(d)] = "Bound" /\ invocation[d] = "Bound"
         /\ pc[d] = "store" => Constructed(Final(d))
         /\ pc[d] # "foreign"
         /\ pc[d] = "done" => \A t \in Lineage(d) : ~Registered(t)

\* Who closed a lineage for good.
OwnFailure(d) ==
    \A t \in Lineage(d) : native[t] = "failed" =>
        \/ pc[d] = "raised" \/ call[d].stage = "error" \/ CallOf[d] \in exited
        \/ module = "Failed" \/ call[Driver].stage = "error"

\* A failed application has raised and left no record.
Forgets(d) ==
    d \in applied => /\ pc[d] = "raised"
                     /\ lane = "retained" /\ Live => \A t \in Lineage(d) : ~Registered(t)

StatementInv(d) ==
    Activation(d) /\ Born(d) /\ Admitter(d) /\ Result(d) /\ Awaited(d) /\ Interpreting(d) /\ OwnFailure(d) /\ Forgets(d)

LifeInv == LifeTyped /\ DriverCall /\ OneAtATime /\ \A d \in Defs : StatementInv(d)

-----------------------------------------------------------------------------
(* The registry.                                                           *)

\* An actor outside any activation.
LEMMA NoCallIdle ==
    NoCall.type = None /\ NoCall.stage = "none" /\ NoCall.finalize = FALSE /\ NoCall.pending = FALSE
BY SMTT(20) DEF NoCall

\* The registered types are the elements of the registry.
LEMMA RegisteredElements ==
    ASSUME records \in Seq(Types), records' \in Seq(Types)
    PROVE  \A t : (Registered(t)' <=> t \in Elements(records')) /\ (Registered(t) <=> t \in Elements(records))
BY SMTT(20) DEF Registered, Elements

\* Remove takes the records it names.
LEMMA RemoveFacts ==
    ASSUME NEW recs \in Seq(Types), NEW ts
    PROVE  Remove(recs, ts) \in Seq(Types) /\ Elements(Remove(recs, ts)) = Elements(recs) \ ts
<1>1. Elements(recs) \subseteq Types
  BY SMTT(20) DEF Elements
<1>2. Keep(recs, Types \ ts) \in Seq(Types) /\ Elements(Keep(recs, Types \ ts)) = Elements(recs) \cap (Types \ ts)
  BY KeepFacts
<1> QED  BY <1>1, <1>2 DEF Remove

\* The replacement goes in front of the original and takes nothing away.
LEMMA InsertFacts ==
    ASSUME NEW recs \in Seq(Types), NEW new \in Types, NEW old \in Elements(recs)
    PROVE  /\ InsertBefore(recs, new, old) \in Seq(Types)
           /\ Elements(InsertBefore(recs, new, old)) = Elements(recs) \union {new}
<1> DEFINE i == CHOOSE j \in DOMAIN recs : recs[j] = old
<1>1. i \in 1..Len(recs)
  BY SMTT(20) DEF Elements
<1>2. InsertBefore(recs, new, old) = InsertAt(recs, i, new)
  BY DEF InsertBefore, InsertAt
<1> HIDE DEF i
<1> QED  BY <1>1, <1>2, InsertAtElements, SMTT(20)

-----------------------------------------------------------------------------
(* A step that is not about the statement.                                 *)

\* The step leaves the statement d and its types alone, and if the import moves
\* it is with another type.
Untouched(d) ==
    /\ lane' = lane /\ kind'[d] = kind[d] /\ pc'[d] = pc[d] /\ invocation'[d] = invocation[d] /\ call'[d] = call[d]
    /\ \A t \in Lineage(d) : native'[t] = native[t] /\ phase'[t] = phase[t] /\ plan'[t] = plan[t]
    /\ \A t \in Lineage(d) : Registered(t)' <=> Registered(t)
    /\ d \in applied' <=> d \in applied
    /\ exited \subseteq exited'
    /\ \A t \in Lineage(d) : call[Driver].type = t \/ call'[Driver].type = t => call'[Driver] = call[Driver]
    /\ call[Driver].stage = "error" => call'[Driver].stage = "error" \/ module' = "Failed"
    /\ module' = module \/ module' = "Failed" \/ (module = "Initializing" /\ module' = "Sealing")

\* Then what holds of d still does.
LEMMA UntouchedStep ==
    ASSUME NEW d \in Defs, StatementInv(d), Untouched(d) PROVE StatementInv(d)'
<1>1. Final(d)' = Final(d) /\ Final(d) \in Lineage(d)
  BY DEF Untouched, Final, Lineage
<1>2. Live' => Live
  BY DEF Untouched, Live
<1>3. Original(d) \in Lineage(d) /\ Replacement(d) \in Lineage(d)
  BY DEF Lineage
<1>4. Activation(d)'
  BY <1>1 DEF StatementInv, Untouched, Activation
<1>5. Born(d)'
  BY <1>3 DEF StatementInv, Untouched, Born
<1>6. Admitter(d)'
  <2>1. Admitter(d)
    BY DEF StatementInv
  <2> QED  BY <2>1, SMTT(20) DEF Untouched, Admitter
<1>7. Admitted(Final(d)) => Admitted(Final(d))'
  BY <1>1 DEF Untouched, Admitted
<1>8. Result(d)'
  BY <1>1, <1>7 DEF StatementInv, Untouched, Result, Admitted, SealedOrDead
<1>9. Awaited(d)'
  <2>1. Waits(d)' => Waits(d)
    BY DEF Untouched, Waits
  <2>2. Registered(Final(d)) => Registered(Final(d))'
    BY <1>1 DEF Untouched
  <2> QED  BY <1>1, <2>1, <2>2 DEF StatementInv, Untouched, Awaited, SealedOrDead
<1>10. Interpreting(d)'
  <2>1. Interpreting(d)
    BY DEF StatementInv
  <2> QED  BY <1>1, <1>2, <1>3, <2>1, SMTT(20) DEF Untouched, Interpreting, Constructed
<1>11. OwnFailure(d)'
  BY DEF StatementInv, Untouched, OwnFailure
<1>12. Forgets(d)'
  BY <1>2 DEF StatementInv, Untouched, Forgets
<1> QED  BY <1>4, <1>5, <1>6, <1>8, <1>9, <1>10, <1>11, <1>12 DEF StatementInv

-----------------------------------------------------------------------------
(* The statement's own steps.                                              *)

\* A lineage that is being closed: nothing is opened or begun.
Fades(d) ==
    \A t \in Lineage(d) :
        /\ native'[t] = native[t] \/ (native[t] \in {"pending", "admitting"} /\ native'[t] = "failed")
        /\ phase'[t] = phase[t] \/ (phase[t] \in {"Pending", "Admitting"} /\ phase'[t] = "Terminal")

\* The statement moves and the import does not.
Moves(d) ==
    /\ lane' = lane /\ kind' = kind /\ module' = module /\ exited' = exited
    /\ call'[Driver] = call[Driver]

\* A type under admission keeps its activation.
LEMMA AdmitterKept ==
    ASSUME NEW d \in Defs, Admitter(d), Moves(d), call'[d] = call[d] \/ call[d].stage # "admit",
           \A t \in Lineage(d) : phase'[t] = "Admitting" => phase[t] = "Admitting"
    PROVE  Admitter(d)'
BY DEF Admitter, Moves

\* A statement outside complete_class, and before its end, has nothing to deliver.
LEMMA ResultAtRest ==
    ASSUME NEW d \in Defs, Result(d), Moves(d), call'[d] = NoCall, pc'[d] \notin {"unregister", "done"},
           \A t \in Lineage(d) : phase[t] = "Sealed" => phase'[t] = "Sealed"
    PROVE  Result(d)'
<1>1. \A t \in Lineage(d) : call'[Driver].type = t /\ call'[Driver].stage = "ok" => phase'[t] = "Sealed"
  BY DEF Result, Moves
<1>2. call'[d].stage = "none"
  BY NoCallIdle
<1> QED  BY <1>1, <1>2 DEF Result

\* A statement that raises leaves nothing half done.
LEMMA RaiseStep ==
    ASSUME NEW d \in Defs, StatementInv(d), Moves(d), Fades(d),
           pc'[d] = "raised", call'[d] = NoCall, call[d].stage # "admit",
           d \in applied' /\ lane = "retained" /\ Live => \A t \in Lineage(d) : ~Registered(t)'
    PROVE  StatementInv(d)'
<1>1. Activation(d)' /\ Awaited(d)' /\ Interpreting(d)' /\ OwnFailure(d)'
  BY DEF Activation, Awaited, Waits, Interpreting, OwnFailure
<1>2. Born(d)'
  BY DEF StatementInv, Born, Fades
<1>3. Admitter(d)'
  BY AdmitterKept DEF StatementInv, Fades
<1>4. Result(d)'
  BY ResultAtRest DEF StatementInv, Fades, Moves
<1>5. Forgets(d)'
  BY DEF Forgets, Moves, Live
<1> QED  BY <1>1, <1>2, <1>3, <1>4, <1>5 DEF StatementInv

\* The types of the statement stay as they are.
Still(d) == \A t \in Lineage(d) : native'[t] = native[t] /\ phase'[t] = phase[t]

\* What complete_class finds when it starts: a sealed type, or one that is admitted
\* or in the hands of the import unless it is still to be admitted.
LEMMA StartFacts ==
    ASSUME NEW d \in Defs, IInv, StatementInv(d), call[d].stage # "admit", NEW f \in BOOLEAN,
           StartComplete(d, Final(d), f)
    PROVE  /\ call'[d].type = Final(d) /\ call'[d].stage \in {"error", "ok", "adopt"} /\ call'[d].finalize = f
           /\ call'[d].stage = "ok" => phase[Final(d)] = "Sealed" /\ native[Final(d)] = "enforced"
           /\ call'[d].stage = "adopt" /\ ~call'[d].pending => Admitted(Final(d))
           /\ \A a \in Actors \ {d} : call'[a] = call[a]
<1> DEFINE t == Final(d)
<1>0. d \in Actors /\ t \in Types /\ t \in Lineage(d) /\ call \in [Actors -> Calls]
  BY FinalTyped DEF Actors, IInv, Typed, Final, Lineage
<1>1. PICK first \in FirstStages(t, f) :
        call' = [call EXCEPT ![d] = [type |-> t, stage |-> first, finalize |-> f, pending |-> phase[t] = "Pending"]]
  BY DEF StartComplete
<1> HIDE DEF t
<1>2. /\ call'[d] = [type |-> t, stage |-> first, finalize |-> f, pending |-> phase[t] = "Pending"]
      /\ \A a \in Actors \ {d} : call'[a] = call[a]
  BY <1>0, <1>1
<1>3. call'[d].type = t /\ call'[d].stage = first /\ call'[d].finalize = f
  BY <1>2, SMTT(20)
<1>4. call'[d].pending = (phase[t] = "Pending")
  BY <1>2, SMTT(20)
<1>5. first \in {"error", "ok", "adopt"} /\ (first # "error" => Constructed(t))
      /\ (first = "ok" => phase[t] = "Sealed")
  BY <1>1 DEF FirstStages
<1>6. phase[t] \in {"Bound", "Sealed"} => native[t] = "enforced"
  BY <1>0 DEF StatementInv, Born
<1>7. ASSUME Constructed(t), phase[t] # "Pending" PROVE Admitted(t)
  <2>1. CASE phase[t] = "Admitting"
    <3>1. call[Driver].type = t
      BY <1>0, <2>1 DEF StatementInv, Admitter
    <3> QED  BY <3>1 DEF Admitted
  <2>2. CASE phase[t] # "Admitting"
    BY <1>6, <1>7, <2>2 DEF Constructed, Admitted
  <2> QED  BY <2>1, <2>2
<1>8. ASSUME first = "adopt", ~call'[d].pending PROVE Admitted(t)
  <2>1. phase[t] # "Pending"
    BY <1>4, <1>8
  <2> QED  BY <1>5, <1>7, <1>8, <2>1
<1> QED  BY <1>2, <1>3, <1>5, <1>6, <1>8 DEF t

\* The step is the statement's own: it touches no other statement and no other
\* lineage, and it does not set out beside another execution of its call.
OwnStep(d) ==
    /\ Moves(d)
    /\ \A e \in Defs \ {d} : /\ pc'[e] = pc[e] /\ invocation'[e] = invocation[e] /\ call'[e] = call[e]
                             /\ e \in applied' <=> e \in applied
    /\ \A t \in Types : t[1] # d => /\ native'[t] = native[t] /\ phase'[t] = phase[t] /\ plan'[t] = plan[t]
                                    /\ Registered(t)' <=> Registered(t)
    /\ pc[d] \in AtRest /\ pc'[d] \notin AtRest => \A e \in Defs : CallOf[e] = CallOf[d] => pc[e] \in AtRest

\* An own step that keeps the statement's invariant keeps them all.
LEMMA OwnStepKeeps ==
    ASSUME NEW d \in Defs, LifeInv, OwnStep(d), LifeTyped', StatementInv(d)' PROVE LifeInv'
<1>1. ASSUME NEW e \in Defs \ {d} PROVE StatementInv(e)'
  <2>1. \A t \in Lineage(e) : t \in Types /\ t[1] # d
    BY Lineages DEF Lineage
  <2>2. Untouched(e)
    BY <2>1 DEF OwnStep, Moves, Untouched
  <2> QED  BY <2>2, UntouchedStep DEF LifeInv
<1>2. DriverCall'
  BY DEF LifeInv, DriverCall, OwnStep, Moves
<1>3. OneAtATime'
  BY DEF LifeInv, LifeTyped, OneAtATime, OwnStep
<1> QED  BY <1>1, <1>2, <1>3 DEF LifeInv

\* The statement moves on outside complete_class and its types stay as they are.
LEMMA PassStep ==
    ASSUME NEW d \in Defs, StatementInv(d), Moves(d), Still(d), call'[d] = call[d], applied' = applied,
           pc[d] \notin {"admit", "finalize", "raised"}, pc'[d] \notin {"admit", "finalize", "done", "unregister"}
    PROVE  Activation(d)' /\ Admitter(d)' /\ Result(d)' /\ OwnFailure(d)' /\ Forgets(d)'
<1>1. Activation(d)'
  BY DEF StatementInv, Activation
<1>2. Admitter(d)'
  BY AdmitterKept DEF StatementInv, Still
<1>3. call[d].stage = "none"
  BY NoCallIdle DEF StatementInv, Activation
<1>4. Result(d)'
  BY <1>3 DEF StatementInv, Result, Still, Moves
<1>5. OwnFailure(d)'
  BY DEF StatementInv, OwnFailure, Still, Moves
<1>6. Forgets(d)'
  BY DEF StatementInv, Forgets
<1> QED  BY <1>1, <1>2, <1>4, <1>5, <1>6

\* Closing the lineage of a statement closes nothing else.
LEMMA FailOwnLineage ==
    ASSUME NEW d \in Defs, IInv, native' = FailLineages(native, {d})
    PROVE  \A t \in Types : /\ t[1] # d => native'[t] = native[t]
                            /\ \/ native'[t] = native[t]
                               \/ native[t] \in {"pending", "admitting"} /\ native'[t] = "failed"
BY DEF FailLineages, IInv, Typed

\* So does fail_unfinished_type.
LEMMA FailUnfinishedFades ==
    ASSUME NEW d \in Defs, IInv, NEW u \in Lineage(d), FailUnfinished(u)
    PROVE  /\ Fades(d)
           /\ \A t \in Types : t[1] # d => native'[t] = native[t] /\ phase'[t] = phase[t]
<1>0. u \in Types /\ u[1] = d /\ \A t \in Lineage(d) : t \in Types
  BY Lineages DEF Lineage
<1>1. CASE phase[u] \in {"Pending", "Admitting"}
  <2>1. native' = FailLineages(native, {d}) /\ phase' = [phase EXCEPT ![u] = "Terminal"]
    BY <1>0, <1>1 DEF FailUnfinished
  <2>2. \A t \in Types : t # u => phase'[t] = phase[t]
    BY <2>1 DEF IInv, Typed
  <2>3. phase'[u] = "Terminal"
    BY <1>0, <2>1 DEF IInv, Typed
  <2> QED  BY <1>0, <1>1, <2>1, <2>2, <2>3, FailOwnLineage DEF Fades
<1>2. CASE phase[u] \notin {"Pending", "Admitting"}
  BY <1>2 DEF FailUnfinished, Fades
<1> QED  BY <1>1, <1>2

\* The statement up to the constructed type: preparing, declining, allocating.
LEMMA PrepareLife ==
    ASSUME IInv, LifeInv, NEW d \in Defs, Prepare(d) \/ Decline(d) PROVE LifeInv'
<1>0. StatementInv(d) /\ LifeTyped /\ d \in Actors
  BY DEF LifeInv, Actors
<1>1. LifeTyped'
  BY <1>0 DEF Prepare, Decline, Goto, LifeTyped, InvocationPhases, Pcs, AtRest
<1>2. OwnStep(d)
  BY <1>0 DEF Prepare, Decline, Goto, LifeTyped, OwnStep, Moves, Registered, AtRest
<1>3. Moves(d) /\ Still(d) /\ Fades(d) /\ call'[d] = call[d] /\ applied' = applied
  BY <1>2 DEF Prepare, Decline, OwnStep, Still, Fades
<1>4. CASE Prepare(d)
  <2>1. pc[d] = "idle" /\ pc'[d] = "body" /\ invocation'[d] = (IF kind[d] = "plain" THEN "none" ELSE "Prepared")
    BY <1>0, <1>4 DEF Prepare, Goto, LifeTyped
  <2>2. Born(d)'
    BY <1>0, <1>3, <2>1 DEF StatementInv, Born, Still, Lineage
  <2>3. Awaited(d)' /\ Interpreting(d)'
    BY <2>1, <1>3 DEF Awaited, Waits, Interpreting, Moves
  <2>4. StatementInv(d)'
    BY <1>0, <1>3, <2>1, <2>2, <2>3, PassStep DEF StatementInv
  <2> QED  BY <1>1, <1>2, <2>4, OwnStepKeeps
<1>5. CASE Decline(d) /\ pc'[d] = "raised"
  <2>1. pc[d] = "body" /\ call[d] = NoCall
    BY <1>0, <1>5 DEF Decline, StatementInv, Activation
  <2>2. d \notin applied
    BY <1>0, <2>1 DEF StatementInv, Forgets
  <2>3. call'[d] = NoCall /\ call[d].stage # "admit" /\ d \notin applied'
    BY <1>3, <2>1, <2>2, NoCallIdle
  <2>4. StatementInv(d)'
    BY <1>0, <1>3, <1>5, <2>3, RaiseStep
  <2> QED  BY <1>1, <1>2, <2>4, OwnStepKeeps
<1>6. CASE Decline(d) /\ pc'[d] # "raised"
  <2>1. pc[d] = "body" /\ pc'[d] = "dynamic"
    BY <1>0, <1>6, SMTT(20) DEF Decline, Goto, LifeTyped
  <2>2. Born(d)'
    BY <1>0, <1>3, <2>1 DEF StatementInv, Born, Still, Lineage
  <2>3. Awaited(d)' /\ Interpreting(d)'
    BY <2>1 DEF Awaited, Waits, Interpreting
  <2>4. StatementInv(d)'
    BY <1>0, <1>3, <2>1, <2>2, <2>3, PassStep DEF StatementInv
  <2> QED  BY <1>1, <1>2, <2>4, OwnStepKeeps
<1> QED  BY <1>4, <1>5, <1>6

\* Allocating and binding the type.
LEMMA ConstructLife ==
    ASSUME IInv, LifeInv, NEW d \in Defs, Allocate(d) \/ Bind(d) PROVE LifeInv'
<1> DEFINE o == Original(d)
<1>0. /\ StatementInv(d) /\ LifeTyped /\ Typed /\ d \in Actors /\ o \in Types /\ o[1] = d
      /\ Lineage(d) = {o, Replacement(d)} /\ Replacement(d) \in Types /\ o # Replacement(d)
  BY Lineages DEF LifeInv, IInv, Actors, Lineage
<1>d. pc[d] \notin {"raised"} /\ d \notin applied /\ call[d] = NoCall
  BY <1>0 DEF Allocate, Bind, StatementInv, Forgets, Activation
<1>1. records' \in Seq(Types) /\ \A t : t # o => (Registered(t)' <=> Registered(t))
  <2>1. CASE records' = records
    BY <1>0, <2>1 DEF LifeTyped, Registered
  <2>2. CASE records' = Append(records, o)
    <3>1. records' \in Seq(Types) /\ Elements(records') = Elements(records) \union {o} /\ records \in Seq(Types)
      BY <1>0, <2>2, AppendElements, SMTT(20) DEF LifeTyped
    <3>2. \A t : (Registered(t)' <=> t \in Elements(records')) /\ (Registered(t) <=> t \in Elements(records))
      BY <3>1, RegisteredElements
    <3> QED  BY <3>1, <3>2
  <2> QED  BY <2>1, <2>2 DEF Allocate, Bind
<1>2. LifeTyped'
  BY <1>0, <1>1 DEF Allocate, Bind, Goto, LifeTyped, InvocationPhases, Pcs
<1>3. OwnStep(d)
  <2>1. Moves(d) /\ \A e \in Defs \ {d} : pc'[e] = pc[e] /\ invocation'[e] = invocation[e] /\ call'[e] = call[e] /\ (e \in applied' <=> e \in applied)
    BY <1>0 DEF Allocate, Bind, Goto, LifeTyped, Moves
  <2>2. ASSUME NEW t \in Types, t[1] # d
        PROVE  native'[t] = native[t] /\ phase'[t] = phase[t] /\ plan'[t] = plan[t] /\ (Registered(t)' <=> Registered(t))
    <3>1. t # o
      BY <1>0, <2>2
    <3> HIDE DEF o
    <3>2. native'[t] = native[t] /\ phase'[t] = phase[t] /\ plan'[t] = plan[t]
      BY <1>0, <3>1 DEF Allocate, Bind, Typed, o
    <3> QED  BY <1>1, <3>1, <3>2
  <2>3. pc[d] \notin AtRest
    BY DEF Allocate, Bind, AtRest
  <2> QED  BY <2>1, <2>2, <2>3 DEF OwnStep
<1>m. Moves(d) /\ call'[d] = call[d] /\ applied' = applied
  BY <1>3 DEF OwnStep, Allocate, Bind
<1>4. CASE Allocate(d)
  <2>1. /\ pc[d] = "body" /\ pc'[d] = "allocated"
        /\ native'[o] = "pending" /\ native'[Replacement(d)] = native[Replacement(d)] /\ phase' = phase
        /\ kind[d] # "plain" => plan'[o] = "Prepared"
        /\ invocation[d] # "none" => invocation'[d] = "Construction"
    BY <1>0, <1>4 DEF Allocate, Goto, LifeTyped, Typed
  <2>2. native[o] = "none" /\ phase[o] = "Prepared" /\ native[Replacement(d)] = "none" /\ phase[Replacement(d)] = "Prepared"
    BY <1>0, <2>1 DEF StatementInv, Born
  <2> HIDE DEF o
  <2>3. Activation(d)' /\ Awaited(d)'
    BY <1>d, <1>m, <2>1 DEF Activation, Awaited, Waits, Moves
  <2>4. Born(d)' /\ Admitter(d)' /\ OwnFailure(d)'
    BY <1>0, <2>1, <2>2 DEF Born, Admitter, OwnFailure, o
  <2>5. Result(d)'
    BY <1>0, <1>d, <1>m, <2>1, <2>2, ResultAtRest DEF StatementInv, Moves
  <2>6. Interpreting(d)'
    BY <1>0, <1>m, <2>1 DEF StatementInv, Interpreting, Moves, o
  <2>7. Forgets(d)'
    BY <1>d, <1>m DEF Forgets
  <2>8. StatementInv(d)'
    BY <2>3, <2>4, <2>5, <2>6, <2>7 DEF StatementInv
  <2> QED  BY <1>2, <1>3, <2>8, OwnStepKeeps
<1>5. CASE Bind(d)
  <2>1. /\ pc[d] = "allocated" /\ pc'[d] = "ready" /\ native' = native
        /\ phase[o] = "Prepared" /\ phase'[o] = "Pending" /\ phase'[Replacement(d)] = phase[Replacement(d)]
        /\ native[o] = "pending"
        /\ plan[o] # "none" => plan'[o] = "Bound"
        /\ invocation[d] # "none" => invocation'[d] = "Bound"
    BY <1>0, <1>5 DEF Bind, MayBind, Goto, LifeTyped, Typed
  <2> HIDE DEF o
  <2>3. Activation(d)' /\ Awaited(d)'
    BY <1>d, <1>m, <2>1 DEF Activation, Awaited, Waits, Moves
  <2>4. Born(d)'
    BY <1>0, <2>1 DEF StatementInv, Born, o
  <2>5. Admitter(d)'
    BY <1>0, <1>m, <2>1, AdmitterKept DEF StatementInv
  <2>6. OwnFailure(d)'
    BY <1>0, <1>m, <2>1 DEF StatementInv, OwnFailure, Moves
  <2>7. Result(d)'
    BY <1>0, <1>d, <1>m, <2>1, ResultAtRest DEF StatementInv, Moves
  <2>8. Interpreting(d)'
    BY <1>0, <1>m, <2>1 DEF StatementInv, Interpreting, Moves, o
  <2>9. Forgets(d)'
    BY <1>d, <1>m DEF Forgets
  <2>10. StatementInv(d)'
    BY <2>3, <2>4, <2>5, <2>6, <2>7, <2>8, <2>9 DEF StatementInv
  <2> QED  BY <1>2, <1>3, <2>10, OwnStepKeeps
<1> QED  BY <1>4, <1>5

\* The construction or the registration fails.
LEMMA ConstructFailsLife ==
    ASSUME IInv, LifeInv, NEW d \in Defs, ConstructionFails(d) \/ RegisterFails(d) PROVE LifeInv'
<1> DEFINE o == Original(d)
<1>0. /\ StatementInv(d) /\ LifeTyped /\ Typed /\ d \in Actors /\ o \in Types /\ o[1] = d
      /\ Lineage(d) = {o, Replacement(d)} /\ \A t \in Lineage(d) : t \in Types /\ t[1] = d
  BY Lineages DEF LifeInv, IInv, Actors, Lineage
<1>1. pc[d] \in {"allocated", "ready", "constructed"} /\ pc'[d] = "raised" /\ applied' = applied /\ call' = call /\ records' = records
  BY <1>0 DEF ConstructionFails, RegisterFails, Goto, LifeTyped
<1>2. call[d] = NoCall /\ d \notin applied
  BY <1>0, <1>1 DEF StatementInv, Activation, Forgets
<1>3. Fades(d) /\ \A t \in Types : t[1] # d => native'[t] = native[t] /\ phase'[t] = phase[t]
  <2>1. CASE ConstructionFails(d)
    <3>1. native' = FailLineages(native, {d}) /\ phase' = phase
      BY <2>1 DEF ConstructionFails
    <3> QED  BY <1>0, <3>1, FailOwnLineage DEF Fades
  <2>2. CASE RegisterFails(d)
    <3>1. FailUnfinished(o) /\ o \in Lineage(d)
      BY <1>0, <2>2 DEF RegisterFails
    <3> HIDE DEF o
    <3> QED  BY <3>1, FailUnfinishedFades
  <2> QED  BY <2>1, <2>2
<1>4. /\ invocation' \in [Defs -> InvocationPhases] /\ \A e \in Defs \ {d} : invocation'[e] = invocation[e]
      /\ \A t \in Types : t[1] # d => plan'[t] = plan[t]
  <2>1. DiscardAdapter(d) \/ UNCHANGED <<invocation, plan>>
    BY DEF ConstructionFails, RegisterFails
  <2>2. CASE DiscardAdapter(d)
    BY <1>0, <2>2 DEF DiscardAdapter, Typed, LifeTyped, InvocationPhases
  <2>3. CASE UNCHANGED <<invocation, plan>>
    BY <1>0, <2>3 DEF LifeTyped
  <2> QED  BY <2>1, <2>2, <2>3
<1>5. LifeTyped'
  BY <1>0, <1>1, <1>4, SMTT(20) DEF ConstructionFails, RegisterFails, Goto, LifeTyped, Pcs, AtRest
<1>6. Moves(d)
  BY DEF ConstructionFails, RegisterFails, Moves
<1>7. OwnStep(d)
  <2>1. \A e \in Defs \ {d} : pc'[e] = pc[e]
    BY <1>0 DEF ConstructionFails, RegisterFails, Goto, LifeTyped
  <2> QED  BY <1>1, <1>3, <1>4, <1>6, <2>1 DEF OwnStep, Registered, AtRest
<1>8. call'[d] = NoCall /\ call[d].stage # "admit" /\ d \notin applied'
  BY <1>1, <1>2, NoCallIdle
<1>9. StatementInv(d)'
  BY <1>0, <1>1, <1>3, <1>6, <1>8, RaiseStep
<1> QED  BY <1>5, <1>7, <1>9, OwnStepKeeps

\* The statement enters complete_class.
LEMMA EnterStep ==
    ASSUME NEW d \in Defs, IInv, StatementInv(d), Moves(d), Still(d), applied' = applied,
           NEW f \in BOOLEAN, StartComplete(d, Final(d), f), call[d].stage \notin {"admit", "error"},
           pc[d] # "raised", pc'[d] \in {"admit", "finalize"}, pc'[d] = "finalize" => f, Awaited(d)'
    PROVE  StatementInv(d)'
<1>1. /\ call'[d].type = Final(d) /\ call'[d].stage \in {"error", "ok", "adopt"} /\ call'[d].finalize = f
      /\ call'[d].stage = "ok" => phase[Final(d)] = "Sealed" /\ native[Final(d)] = "enforced"
      /\ call'[d].stage = "adopt" /\ ~call'[d].pending => Admitted(Final(d))
  BY StartFacts
<1>2. Final(d)' = Final(d) /\ Final(d) \in Lineage(d)
  BY DEF Moves, Final, Lineage
<1>3. Activation(d)'
  BY <1>1, <1>2 DEF Activation
<1>4. Born(d)'
  BY DEF StatementInv, Born, Still
<1>5. Admitter(d)'
  BY AdmitterKept DEF StatementInv, Still
<1>6. Admitted(Final(d)) => Admitted(Final(d))'
  BY <1>2 DEF Admitted, Still, Moves
<1>7. Result(d)'
  <2>1. Result(d)
    BY DEF StatementInv
  <2> QED  BY <1>1, <1>2, <1>6, <2>1, SMTT(20) DEF Result, Still, Moves, Admitted
<1>8. Interpreting(d)'
  BY DEF Interpreting
<1>9. OwnFailure(d)'
  BY DEF StatementInv, OwnFailure, Still, Moves
<1>10. Forgets(d)'
  BY DEF StatementInv, Forgets
<1> QED  BY <1>3, <1>4, <1>5, <1>7, <1>8, <1>9, <1>10 DEF StatementInv

\* The statement completes.
LEMMA DoneStep ==
    ASSUME NEW d \in Defs, IInv, StatementInv(d), Moves(d), Still(d), applied' = applied,
           call'[d] = NoCall, call[d].stage \notin {"admit", "error"}, pc[d] # "raised", pc'[d] = "done",
           Admitted(Final(d)), module = "Sealed" \/ lane = "interpreter" => phase[Final(d)] = "Sealed",
           Awaited(d)', lane = "interpreter" => \A t \in Lineage(d) : ~Registered(t)'
    PROVE  StatementInv(d)'
<1>2. Final(d)' = Final(d) /\ Final(d) \in Lineage(d)
  BY DEF Moves, Final, Lineage
<1>3. Activation(d)'
  BY DEF Activation
<1>4. Born(d)'
  BY DEF StatementInv, Born, Still
<1>5. Admitter(d)'
  BY AdmitterKept DEF StatementInv, Still
<1>6. Admitted(Final(d))'
  BY <1>2 DEF Admitted, Still, Moves
<1>7. Result(d)'
  BY <1>2, <1>6, NoCallIdle DEF StatementInv, Result, Still, Moves, SealedOrDead
<1>8. Interpreting(d)'
  BY DEF Interpreting, Moves
<1>9. OwnFailure(d)'
  BY DEF StatementInv, OwnFailure, Still, Moves
<1>10. Forgets(d)'
  BY DEF StatementInv, Forgets
<1> QED  BY <1>3, <1>4, <1>5, <1>7, <1>8, <1>9, <1>10 DEF StatementInv

\* A record is enough.
LEMMA AwaitedKept ==
    ASSUME NEW d \in Defs, Moves(d), Still(d),
           \/ Registered(Final(d))'
           \/ phase[Final(d)] = "Sealed"
           \/ Awaited(d) /\ Waits(d) /\ (Registered(Final(d)) => Registered(Final(d))')
    PROVE  Awaited(d)'
<1>1. Final(d)' = Final(d) /\ Final(d) \in Lineage(d)
  BY DEF Moves, Final, Lineage
<1> QED  BY <1>1 DEF Awaited, SealedOrDead, Still, Moves

\* Leaving complete_class.
LEMMA LeaveFacts ==
    ASSUME IInv, NEW d \in Defs, call' = [call EXCEPT ![d] = NoCall]
    PROVE  call'[d] = NoCall /\ \A a \in Actors \ {d} : call'[a] = call[a]
BY DEF IInv, Typed, Actors

\* The import is no execution.
LEMMA DriverApart == Driver \in Actors /\ \A d \in Defs : d \in Actors /\ Driver # d
BY ClassAdmissionAssumption DEF Actors, Driver

\* Registering the constructed type.
LEMMA RegisterLife ==
    ASSUME IInv, LifeInv, NEW d \in Defs, Register(d) PROVE LifeInv'
<1> DEFINE o == Original(d)
<1>0. /\ StatementInv(d) /\ LifeTyped /\ Typed /\ o \in Types /\ o[1] = d
      /\ \A t \in Lineage(d) : t \in Types /\ t[1] = d
  BY Lineages DEF LifeInv, IInv, Lineage
<1>1. /\ pc[d] = "ready" /\ lane = "retained" /\ applied' = applied /\ records' = Append(records, o)
      /\ Still(d) /\ UNCHANGED <<lane, kind, module, exited, invocation, native, phase, plan>>
  BY DEF Register, Still
<1>2. call[d] = NoCall /\ d \notin applied /\ call[d].stage = "none"
  BY <1>0, <1>1, NoCallIdle DEF StatementInv, Activation, Forgets
<1>3. records' \in Seq(Types) /\ Registered(o)' /\ \A t : t # o => (Registered(t)' <=> Registered(t))
  <2>1. records' \in Seq(Types) /\ Elements(records') = Elements(records) \union {o} /\ records \in Seq(Types)
    BY <1>0, <1>1, AppendElements, SMTT(20) DEF LifeTyped
  <2>2. \A t : (Registered(t)' <=> t \in Elements(records')) /\ (Registered(t) <=> t \in Elements(records))
    BY <2>1, RegisteredElements
  <2> QED  BY <2>1, <2>2
<1>4. \A a \in Actors \ {d} : call'[a] = call[a]
  <2>1. CASE kind[d] = "plain"
    BY <1>0, <2>1, DriverApart DEF Register, StartComplete, Typed
  <2>2. CASE kind[d] # "plain"
    BY <2>2 DEF Register
  <2> QED  BY <2>1, <2>2
<1>5. pc' \in [Defs -> Pcs] /\ (\A e \in Defs \ {d} : pc'[e] = pc[e])
      /\ pc'[d] = (IF kind[d] = "plain" THEN "admit" ELSE "constructed")
  BY <1>0 DEF Register, Goto, LifeTyped, Pcs
<1>6. LifeTyped'
  BY <1>0, <1>1, <1>3, <1>5 DEF LifeTyped
<1>7. Moves(d)
  BY <1>1, <1>4, DriverApart DEF Moves
<1> HIDE DEF o
<1>8. OwnStep(d)
  <2>1. \A e \in Defs \ {d} : call'[e] = call[e]
    BY <1>4, DriverApart
  <2>2. \A t \in Types : t[1] # d => t # o
    BY <1>0
  <2> QED  BY <1>1, <1>3, <1>5, <1>7, <2>1, <2>2 DEF OwnStep, AtRest
<1>9. CASE kind[d] = "plain"
  <2>1. Final(d) = o /\ Final(d)' = o
    BY <1>1, <1>9 DEF Final, o
  <2>2. StartComplete(d, Final(d), FALSE)
    BY <1>9, <2>1 DEF Register, o
  <2>3. Awaited(d)'
    BY <1>3, <1>7, <1>1, <2>1, AwaitedKept
  <2>4. StatementInv(d)'
    BY <1>0, <1>1, <1>2, <1>5, <1>7, <1>9, <2>2, <2>3, EnterStep
  <2> QED  BY <1>6, <1>8, <2>4, OwnStepKeeps
<1>10. CASE kind[d] # "plain"
  <2>1. call'[d] = call[d] /\ pc'[d] = "constructed"
    BY <1>5, <1>10 DEF Register
  <2>2. Activation(d)' /\ Admitter(d)' /\ Result(d)' /\ OwnFailure(d)' /\ Forgets(d)'
    BY <1>0, <1>1, <1>7, <2>1, PassStep
  <2>3. Born(d)'
    BY <1>0, <1>1, <2>1 DEF StatementInv, Born
  <2>4. Interpreting(d)'
    BY <1>1, <2>1 DEF Interpreting
  <2>5. Awaited(d)'
    <3>1. Waits(d)' => Final(d)' = o
      BY <1>1, <2>1 DEF Waits, Final, o
    <3> QED  BY <1>3, <3>1 DEF Awaited
  <2>6. StatementInv(d)'
    BY <2>2, <2>3, <2>4, <2>5 DEF StatementInv
  <2> QED  BY <1>6, <1>8, <2>6, OwnStepKeeps
<1> QED  BY <1>9, <1>10

\* A plain class was admitted, or the result of a ready module finalized.
LEMMA PlainLife ==
    ASSUME IInv, LifeInv, NEW d \in Defs, PlainAdmitted(d) \/ Finalized(d) PROVE LifeInv'
<1>0. /\ StatementInv(d) /\ LifeTyped /\ Typed /\ Final(d) \in Types /\ Final(d)[1] = d
      /\ Final(d) \in Lineage(d) /\ \A t \in Lineage(d) : t \in Types /\ t[1] = d
  BY Lineages, FinalTyped DEF LifeInv, IInv, Lineage, Final
<1>1. /\ pc[d] \in {"admit", "finalize"} /\ lane = "retained" /\ applied' = applied /\ call[d].stage = "ok"
      /\ Still(d) /\ UNCHANGED <<lane, kind, module, exited, invocation, native, phase, plan>>
  BY DEF PlainAdmitted, Finalized, Still, stateVars
<1>2. call[d].type = Final(d) /\ d \notin applied /\ Admitted(Final(d))
  BY <1>0, <1>1 DEF StatementInv, Activation, Forgets, Result
<1>3. \A a \in Actors \ {d} : call'[a] = call[a]
  BY <1>0, LeaveFacts, DriverApart DEF PlainAdmitted, Finalized, Leave, StartComplete, Typed
<1>4. pc' \in [Defs -> Pcs] /\ (\A e \in Defs \ {d} : pc'[e] = pc[e]) /\ pc'[d] \in {"done", "finalize"}
  BY <1>0 DEF PlainAdmitted, Finalized, Goto, LifeTyped, Pcs, AtRest
<1>5. Moves(d)
  BY <1>1, <1>3, DriverApart DEF Moves
<1>6. /\ records' \in Seq(Types) /\ \A t : t # Final(d) => (Registered(t)' <=> Registered(t))
      /\ PlainAdmitted(d) => (Registered(Final(d)) => Registered(Final(d))')
  <2>1. CASE PlainAdmitted(d)
    <3>1. records' = records /\ Final(d)' = Final(d)
      BY <1>1, <2>1 DEF PlainAdmitted, Final
    <3> QED  BY <1>0, <3>1 DEF LifeTyped, Registered
  <2>2. CASE Finalized(d) /\ ~PlainAdmitted(d)
    <3>0. records \in Seq(Types)
      BY <1>0 DEF LifeTyped
    <3>1. records' = Remove(records, {Final(d)})
      BY <2>2 DEF Finalized
    <3>2. records' \in Seq(Types) /\ Elements(records') = Elements(records) \ {Final(d)}
      BY <3>0, <3>1, RemoveFacts
    <3>3. \A t : (Registered(t)' <=> t \in Elements(records')) /\ (Registered(t) <=> t \in Elements(records))
      BY <3>0, <3>2, RegisteredElements
    <3> QED  BY <2>2, <3>2, <3>3
  <2> QED  BY <2>1, <2>2
<1>7. LifeTyped'
  BY <1>0, <1>1, <1>4, <1>6 DEF LifeTyped
<1>8. OwnStep(d)
  <2>1. \A e \in Defs \ {d} : call'[e] = call[e]
    BY <1>3, DriverApart
  <2>2. \A t \in Types : t[1] # d => t # Final(d)
    BY <1>0
  <2> QED  BY <1>1, <1>4, <1>5, <1>6, <2>1, <2>2 DEF OwnStep, AtRest
<1>9. CASE PlainAdmitted(d)
  <2>1. Awaited(d)'
    <3>1. Awaited(d) /\ Waits(d)
      BY <1>0, <1>9 DEF StatementInv, Waits, PlainAdmitted
    <3> QED  BY <1>1, <1>5, <1>6, <1>9, <3>1, AwaitedKept
  <2>2. CASE IsReady
    <3>1. StartComplete(d, Final(d), TRUE) /\ pc'[d] = "finalize"
      BY <1>0, <1>9, <2>2 DEF PlainAdmitted, Final, Goto, LifeTyped
    <3>2. StatementInv(d)'
      BY <1>0, <1>1, <1>5, <2>1, <3>1, EnterStep
    <3> QED  BY <1>7, <1>8, <3>2, OwnStepKeeps
  <2>3. CASE ~IsReady
    <3>1. call'[d] = NoCall /\ pc'[d] = "done"
      BY <1>0, <1>9, <2>3, LeaveFacts DEF PlainAdmitted, Goto, LifeTyped, Leave
    <3>2. StatementInv(d)'
      BY <1>0, <1>1, <1>2, <1>5, <2>1, <2>3, <3>1, DoneStep DEF IsReady
    <3> QED  BY <1>7, <1>8, <3>2, OwnStepKeeps
  <2> QED  BY <2>2, <2>3
<1>10. CASE Finalized(d)
  <2>1. call'[d] = NoCall /\ pc'[d] = "done" /\ pc[d] = "finalize"
    BY <1>0, <1>10, LeaveFacts DEF Finalized, Goto, LifeTyped, Leave
  <2>2. phase[Final(d)] = "Sealed"
    BY <1>0, <1>1, <2>1 DEF StatementInv, Activation, Result
  <2>3. Awaited(d)'
    BY <1>1, <1>5, <2>2, AwaitedKept
  <2>4. StatementInv(d)'
    BY <1>0, <1>1, <1>2, <1>5, <2>1, <2>2, <2>3, DoneStep
  <2> QED  BY <1>7, <1>8, <2>4, OwnStepKeeps
<1> QED  BY <1>9, <1>10

\* A plain class could not be completed, or its statement could not.
LEMMA PlainFailsLife ==
    ASSUME IInv, LifeInv, NEW d \in Defs, PlainFails(d) \/ StoreFails(d) PROVE LifeInv'
<1>0. /\ StatementInv(d) /\ LifeTyped /\ Typed /\ Original(d) \in Lineage(d) /\ \A t \in Lineage(d) : t \in Types /\ t[1] = d
  BY Lineages DEF LifeInv, IInv, Lineage
<1>1. /\ pc[d] \in {"admit", "finalize"} /\ applied' = applied /\ call[d].stage \in {"ok", "error"} /\ pc'[d] = "raised"
      /\ UNCHANGED <<lane, kind, module, exited, invocation, plan>>
  BY <1>0 DEF PlainFails, StoreFails, stateVars, Goto, LifeTyped
<1>2. d \notin applied
  BY <1>0, <1>1 DEF StatementInv, Forgets
<1>3. call'[d] = NoCall /\ \A a \in Actors \ {d} : call'[a] = call[a]
  BY LeaveFacts DEF PlainFails, StoreFails, Leave
<1>4. pc' \in [Defs -> Pcs] /\ (\A e \in Defs \ {d} : pc'[e] = pc[e])
  BY <1>0 DEF PlainFails, StoreFails, Goto, LifeTyped, Pcs, AtRest
<1>5. Moves(d)
  BY <1>1, <1>3, DriverApart DEF Moves
<1>6. Fades(d) /\ \A t \in Types : t[1] # d => native'[t] = native[t] /\ phase'[t] = phase[t]
  <2>1. CASE PlainFails(d)
    BY <1>0, <2>1, FailUnfinishedFades DEF PlainFails
  <2>2. CASE StoreFails(d)
    BY <2>2 DEF StoreFails, stateVars, Fades
  <2> QED  BY <2>1, <2>2
<1>r. records' \in Seq(Types) /\ \A t \in Types : t[1] # d => (Registered(t)' <=> Registered(t))
  <2>0. records \in Seq(Types)
    BY <1>0 DEF LifeTyped
  <2>1. records' = records \/ records' = Remove(records, {Original(d)})
    BY DEF PlainFails, StoreFails
  <2>2. CASE records' = records
    BY <2>0, <2>2 DEF Registered
  <2>3. CASE records' = Remove(records, {Original(d)})
    <3>1. records' \in Seq(Types) /\ Elements(records') = Elements(records) \ {Original(d)}
      BY <2>0, <2>3, RemoveFacts
    <3>2. \A t : (Registered(t)' <=> t \in Elements(records')) /\ (Registered(t) <=> t \in Elements(records))
      BY <2>0, <3>1, RegisteredElements
    <3>3. \A t \in Types : t[1] # d => t # Original(d)
      BY <1>0
    <3> QED  BY <3>1, <3>2, <3>3
  <2> QED  BY <2>1, <2>2, <2>3
<1>7. LifeTyped'
  BY <1>0, <1>1, <1>4, <1>r DEF LifeTyped
<1>8. OwnStep(d)
  BY <1>1, <1>3, <1>4, <1>5, <1>6, <1>r, DriverApart DEF OwnStep, AtRest
<1>9. StatementInv(d)'
  BY <1>0, <1>1, <1>2, <1>3, <1>5, <1>6, RaiseStep
<1> QED  BY <1>7, <1>8, <1>9, OwnStepKeeps

\* The clean-up of a failed application.
LEMMA FailApplicationLife ==
    ASSUME IInv, LifeInv, NEW d \in Defs, FailApplication(d), pc[d] \notin AtRest, call[d].stage # "admit" PROVE LifeInv'
<1>0. /\ StatementInv(d) /\ LifeTyped /\ Typed /\ \A t \in Lineage(d) : t \in Types /\ t[1] = d
  BY Lineages DEF LifeInv, IInv, Lineage
<1>1. /\ applied' = applied \union {d} /\ pc'[d] = "raised"
      /\ UNCHANGED <<lane, kind, module, exited>> /\ records' = Remove(records, Forgotten(d))
  BY <1>0 DEF FailApplication, Goto, LifeTyped
<1>2. call'[d] = NoCall /\ \A a \in Actors \ {d} : call'[a] = call[a]
  BY LeaveFacts DEF FailApplication, Leave
<1>3. pc' \in [Defs -> Pcs] /\ (\A e \in Defs \ {d} : pc'[e] = pc[e])
  BY <1>0 DEF FailApplication, Goto, LifeTyped, Pcs, AtRest
<1>4. Moves(d)
  BY <1>1, <1>2, DriverApart DEF Moves
<1>5. Fades(d) /\ \A t \in Types : t[1] # d => native'[t] = native[t] /\ phase'[t] = phase[t]
  <2>1. native' = native \/ native' = FailLineages(native, {d})
    BY DEF FailApplication, NativeAfterFailOwner
  <2>2. \A t \in Types : /\ t[1] # d => native'[t] = native[t]
                         /\ \/ native'[t] = native[t]
                            \/ native[t] \in {"pending", "admitting"} /\ native'[t] = "failed"
    <3>1. CASE native' = native
      BY <3>1
    <3>2. CASE native' = FailLineages(native, {d})
      BY <3>2, FailOwnLineage
    <3> QED  BY <2>1, <3>1, <3>2
  <2>3. \A t \in FirstUnfinished(d) : t \in Lineage(d) /\ phase[t] \in {"Pending", "Admitting"}
    BY DEF FirstUnfinished, Lineage
  <2>4. \A t \in Types : phase'[t] = phase[t] \/ (t \in FirstUnfinished(d) /\ phase'[t] = "Terminal")
    BY DEF FailApplication
  <2> HIDE DEF FirstUnfinished
  <2> QED  BY <1>0, <2>2, <2>3, <2>4 DEF Fades
<1>6. /\ invocation' \in [Defs -> InvocationPhases] /\ \A e \in Defs \ {d} : invocation'[e] = invocation[e]
      /\ \A t \in Types : t[1] # d => plan'[t] = plan[t]
  <2>1. FailOwner(d)
    BY DEF FailApplication
  <2> QED  BY <1>0, <2>1 DEF FailOwner, FailedPlans, Typed, LifeTyped, InvocationPhases
<1>7. /\ records' \in Seq(Types) /\ (lane = "retained" /\ Live => \A t \in Lineage(d) : ~Registered(t)')
      /\ \A t \in Types : t[1] # d => (Registered(t)' <=> Registered(t))
  <2>1. /\ Forgotten(d) \subseteq Lineage(d) /\ (lane = "retained" /\ Live => Forgotten(d) = Lineage(d))
    BY DEF Forgotten
  <2> DEFINE ts == Forgotten(d)
  <2>2. records' = Remove(records, ts) /\ records \in Seq(Types)
    BY <1>0, <1>1 DEF LifeTyped
  <2>a. ts \subseteq Lineage(d) /\ (lane = "retained" /\ Live => ts = Lineage(d))
    BY <2>1
  <2> HIDE DEF ts
  <2>3. records' \in Seq(Types) /\ Elements(records') = Elements(records) \ ts
    BY <2>2, RemoveFacts
  <2>4. \A t : (Registered(t)' <=> t \in Elements(records')) /\ (Registered(t) <=> t \in Elements(records))
    BY <2>2, <2>3, RegisteredElements
  <2> QED  BY <1>0, <2>a, <2>3, <2>4
<1>8. LifeTyped'
  BY <1>0, <1>1, <1>3, <1>6, <1>7 DEF LifeTyped
<1>9. OwnStep(d)
  BY <1>1, <1>2, <1>3, <1>4, <1>5, <1>6, <1>7, DriverApart DEF OwnStep
<1>10. StatementInv(d)'
  BY <1>0, <1>1, <1>2, <1>4, <1>5, <1>7, RaiseStep
<1> QED  BY <1>8, <1>9, <1>10, OwnStepKeeps

\* The application moves on; the types stay as they are.
LEMMA ApplyLife ==
    ASSUME IInv, LifeInv, NEW d \in Defs,
           BeginApply(d) \/ FinishApply(d) \/ CompleteApplication(d) \/ CommitApplication(d) \/ NativeReady(d)
    PROVE  LifeInv'
<1>0. /\ StatementInv(d) /\ LifeTyped /\ Typed /\ Final(d) \in Lineage(d)
      /\ Original(d) \in Lineage(d) /\ Replacement(d) \in Lineage(d)
  BY DEF LifeInv, IInv, Lineage, Final
<1> DEFINE A == {"ready", "constructed", "transform", "ready2", "returned", "completing"}
           B == {"constructed", "transform", "returned", "completing", "unpublished", "selected", "store"}
<1>1. /\ pc[d] \in A /\ pc'[d] \in B /\ pc' \in [Defs -> Pcs] /\ (\A e \in Defs \ {d} : pc'[e] = pc[e])
      /\ pc'[d] \in {"constructed", "transform"} => pc[d] \in {"ready", "constructed"}
      /\ UNCHANGED <<lane, kind, native, phase, module, exited, call, applied, records>>
  BY <1>0 DEF BeginApply, FinishApply, CompleteApplication, CommitApplication, NativeReady, Goto, LifeTyped, Pcs, stateVars
<1>2. /\ invocation' \in [Defs -> InvocationPhases] /\ \A e \in Defs \ {d} : invocation'[e] = invocation[e]
      /\ \A t \in Types : t[1] # d => plan'[t] = plan[t]
  BY <1>0 DEF BeginApply, FinishApply, CompleteApplication, CommitApplication, NativeReady, LifeTyped, Typed, InvocationPhases, stateVars
<1>3. LifeTyped'
  BY <1>0, <1>1, <1>2 DEF LifeTyped
<1>4. Moves(d) /\ Still(d)
  BY <1>1 DEF Moves, Still
<1>5. OwnStep(d)
  BY <1>1, <1>2, <1>4 DEF OwnStep, AtRest, Registered
<1>6. Activation(d)' /\ Admitter(d)' /\ Result(d)' /\ OwnFailure(d)' /\ Forgets(d)'
  BY <1>0, <1>1, <1>4, PassStep
<1>7. Born(d)'
  BY <1>0, <1>1 DEF StatementInv, Born
<1>8. Awaited(d)'
  <2>1. CASE lane = "retained" /\ Waits(d)'
    <3>1. Waits(d)
      BY <1>0, <1>1, <2>1 DEF Waits, BeginApply, FinishApply, CompleteApplication, CommitApplication, NativeReady
    <3>2. Final(d)' = Final(d)
      BY <1>1 DEF Final
    <3> QED  BY <1>0, <1>1, <3>1, <3>2 DEF StatementInv, Awaited, SealedOrDead, Registered
  <2>2. CASE ~(lane = "retained" /\ Waits(d)')
    BY <1>1, <2>2 DEF Awaited
  <2> QED  BY <2>1, <2>2
<1>9. Interpreting(d)'
  <2>0. Final(d)' = Final(d) /\ Live' = Live /\ Constructed(Final(d))' = Constructed(Final(d))
    BY <1>1 DEF Final, Live, Constructed
  <2>1. CASE pc'[d] \notin {"constructed", "store"}
    BY <1>1, <2>1 DEF Interpreting
  <2>2. CASE pc'[d] = "constructed"
    <3>1. pc[d] = "ready" /\ UNCHANGED <<plan, invocation>>
      BY <1>0, <2>2 DEF BeginApply, FinishApply, CompleteApplication, CommitApplication, NativeReady, Goto, LifeTyped, stateVars
    <3> QED  BY <1>0, <1>1, <2>0, <2>2, <3>1 DEF StatementInv, Interpreting
  <2>3. CASE pc'[d] = "store" /\ lane = "interpreter" /\ Live
    <3>1. CASE CommitApplication(d)
      <4>1. Constructed(Final(d))
        BY <3>1 DEF CommitApplication
      <4> QED  BY <2>0, <2>3, <4>1 DEF Interpreting
    <3>2. CASE NativeReady(d)
      <4>1. pc[d] = "ready" /\ kind[d] = "plain"
        <5>1. \/ pc[d] = "ready" /\ kind[d] = "plain"
              \/ pc[d] = "constructed" /\ kind[d] # "plain" /\ ~Selects(d)
          BY <1>0, <2>3, <3>2 DEF NativeReady, Goto, LifeTyped
        <5>2. pc[d] = "constructed" /\ kind[d] # "plain" => Selects(d)
          BY <1>0, <2>3 DEF StatementInv, Interpreting, Selects, Constructed
        <5> QED  BY <5>1, <5>2
      <4>2. Final(d) = Original(d)
        BY <4>1 DEF Final
      <4>3. Constructed(Final(d))
        BY <1>0, <2>3, <4>1, <4>2 DEF StatementInv, Interpreting, Constructed
      <4> QED  BY <2>0, <2>3, <4>3 DEF Interpreting
    <3>3. CASE BeginApply(d) \/ FinishApply(d) \/ CompleteApplication(d)
      BY <1>0, <2>3, <3>3 DEF BeginApply, FinishApply, CompleteApplication, Goto, LifeTyped
    <3> QED  BY <3>1, <3>2, <3>3
  <2>4. CASE pc'[d] = "store" /\ ~(lane = "interpreter" /\ Live)
    BY <1>1, <2>0, <2>4 DEF Interpreting
  <2> QED  BY <2>1, <2>2, <2>3, <2>4
<1>10. StatementInv(d)'
  BY <1>6, <1>7, <1>8, <1>9 DEF StatementInv
<1> QED  BY <1>3, <1>5, <1>10, OwnStepKeeps

\* The application fails or is refused.
LEMMA RefusedLife ==
    ASSUME IInv, LifeInv, NEW d \in Defs, ApplyRefused(d) \/ ApplicationFails(d) \/ ResultFails(d) PROVE LifeInv'
<1>0. /\ StatementInv(d) /\ LifeTyped /\ Typed /\ \A t \in Lineage(d) : t \in Types /\ t[1] = d
  BY Lineages DEF LifeInv, IInv, Lineage
<1>1. pc[d] \notin AtRest /\ call[d].stage # "admit"
  <2>1. pc[d] \notin AtRest
    BY DEF ApplyRefused, ApplicationFails, ResultFails, AtRest
  <2>2. CASE pc[d] \in {"admit", "finalize"}
    BY <2>1, <2>2 DEF ApplyRefused, ApplicationFails, ResultFails
  <2>3. CASE pc[d] \notin {"admit", "finalize"}
    BY <1>0, <2>1, <2>3, NoCallIdle DEF StatementInv, Activation
  <2> QED  BY <2>1, <2>2, <2>3
<1>2. CASE FailApplication(d)
  BY <1>1, <1>2, FailApplicationLife
<1>3. CASE ApplyRefused(d) /\ ~FailApplication(d)
  <2>1. /\ pc[d] = "constructed" /\ lane = "interpreter" /\ pc'[d] = "raised" /\ applied' = applied \union {d}
        /\ FailOwner(d) /\ native' = NativeAfterFailOwner(d)
        /\ UNCHANGED <<lane, kind, phase, module, exited, call, records>>
    BY <1>0, <1>3 DEF ApplyRefused, Goto, LifeTyped
  <2>2. pc' \in [Defs -> Pcs] /\ (\A e \in Defs \ {d} : pc'[e] = pc[e])
    BY <1>0, <1>3 DEF ApplyRefused, Goto, LifeTyped, Pcs, AtRest
  <2>3. /\ invocation' \in [Defs -> InvocationPhases] /\ \A e \in Defs \ {d} : invocation'[e] = invocation[e]
        /\ \A t \in Types : t[1] # d => plan'[t] = plan[t]
    BY <1>0, <2>1 DEF FailOwner, FailedPlans, Typed, LifeTyped, InvocationPhases
  <2>4. \A t \in Types : /\ t[1] # d => native'[t] = native[t]
                         /\ \/ native'[t] = native[t]
                            \/ native[t] \in {"pending", "admitting"} /\ native'[t] = "failed"
    <3>1. CASE native' = native
      BY <3>1
    <3>2. CASE native' = FailLineages(native, {d})
      BY <3>2, FailOwnLineage
    <3> QED  BY <2>1, <3>1, <3>2 DEF NativeAfterFailOwner
  <2>5. Moves(d) /\ Fades(d)
    BY <1>0, <2>1, <2>4 DEF Moves, Fades
  <2>6. LifeTyped'
    BY <1>0, <2>1, <2>2, <2>3 DEF LifeTyped
  <2>7. OwnStep(d)
    BY <1>1, <2>1, <2>2, <2>3, <2>4, <2>5 DEF OwnStep, Registered
  <2>8. call'[d] = NoCall
    BY <1>0, <2>1 DEF StatementInv, Activation
  <2>9. StatementInv(d)'
    BY <1>0, <1>1, <2>1, <2>5, <2>8, RaiseStep
  <2> QED  BY <2>6, <2>7, <2>9, OwnStepKeeps
<1> QED  BY <1>2, <1>3 DEF ApplicationFails, ResultFails

\* The second type of the lineage.
LEMMA ReplacementLife ==
    ASSUME IInv, LifeInv, NEW d \in Defs, AllocateReplacement(d) \/ BindReplacement(d) PROVE LifeInv'
<1> DEFINE r == Replacement(d)
<1>0. /\ StatementInv(d) /\ LifeTyped /\ Typed /\ d \in Actors /\ r \in Types /\ r[1] = d
      /\ Lineage(d) = {Original(d), r} /\ Original(d) \in Types /\ r # Original(d)
  BY Lineages DEF LifeInv, IInv, Actors, Lineage
<1>d. pc[d] # "raised" /\ d \notin applied /\ call[d] = NoCall
  BY <1>0 DEF AllocateReplacement, BindReplacement, StatementInv, Forgets, Activation
<1>1. records' \in Seq(Types) /\ \A t : t # r => (Registered(t)' <=> Registered(t))
  <2>1. CASE records' = records
    BY <1>0, <2>1 DEF LifeTyped, Registered
  <2>2. CASE records' = Append(records, r)
    <3>1. records' \in Seq(Types) /\ Elements(records') = Elements(records) \union {r} /\ records \in Seq(Types)
      BY <1>0, <2>2, AppendElements, SMTT(20) DEF LifeTyped
    <3>2. \A t : (Registered(t)' <=> t \in Elements(records')) /\ (Registered(t) <=> t \in Elements(records))
      BY <3>1, RegisteredElements
    <3> QED  BY <3>1, <3>2
  <2> QED  BY <2>1, <2>2 DEF AllocateReplacement, BindReplacement
<1>2. LifeTyped'
  BY <1>0, <1>1 DEF AllocateReplacement, BindReplacement, Goto, LifeTyped, Pcs
<1>3. OwnStep(d)
  <2>1. Moves(d) /\ \A e \in Defs \ {d} : pc'[e] = pc[e] /\ invocation'[e] = invocation[e] /\ call'[e] = call[e] /\ (e \in applied' <=> e \in applied)
    BY <1>0 DEF AllocateReplacement, BindReplacement, Goto, LifeTyped, Moves
  <2>2. ASSUME NEW t \in Types, t[1] # d
        PROVE  native'[t] = native[t] /\ phase'[t] = phase[t] /\ plan'[t] = plan[t] /\ (Registered(t)' <=> Registered(t))
    <3>1. t # r
      BY <1>0, <2>2
    <3> HIDE DEF r
    <3>2. native'[t] = native[t] /\ phase'[t] = phase[t] /\ plan'[t] = plan[t]
      BY <1>0, <3>1 DEF AllocateReplacement, BindReplacement, Typed, r
    <3> QED  BY <1>1, <3>1, <3>2
  <2>3. pc[d] \notin AtRest
    BY DEF AllocateReplacement, BindReplacement, AtRest
  <2> QED  BY <2>1, <2>2, <2>3 DEF OwnStep
<1>m. /\ Moves(d) /\ call'[d] = call[d] /\ applied' = applied
      /\ pc[d] \in {"transform", "allocated2"} /\ pc'[d] \in {"allocated2", "ready2"}
  BY <1>0, <1>3 DEF OwnStep, AllocateReplacement, BindReplacement, Goto, LifeTyped
<1>4. Activation(d)' /\ Awaited(d)' /\ Interpreting(d)' /\ Forgets(d)'
  BY <1>d, <1>m DEF Activation, Awaited, Waits, Interpreting, Forgets, Moves
<1>5. \/ /\ native[r] = "none" /\ phase[r] = "Prepared" /\ native'[r] = "pending" /\ phase' = phase
         /\ native'[Original(d)] = native[Original(d)]
      \/ /\ native' = native /\ phase[r] = "Prepared" /\ phase'[r] = "Pending" /\ native[r] = "pending"
         /\ phase'[Original(d)] = phase[Original(d)]
  <2>1. CASE AllocateReplacement(d)
    <3>1. native[r] = "none" /\ phase[r] = "Prepared"
      BY <1>0, <2>1 DEF StatementInv, Born, AllocateReplacement
    <3> QED  BY <1>0, <2>1, <3>1 DEF AllocateReplacement, Typed
  <2>2. CASE BindReplacement(d)
    BY <1>0, <2>2 DEF BindReplacement, MayBind, Typed
  <2> QED  BY <2>1, <2>2
<1> HIDE DEF r
<1>6. Born(d)'
  BY <1>0, <1>m, <1>5 DEF StatementInv, Born, r
<1>7. Admitter(d)'
  BY <1>0, <1>m, <1>5, AdmitterKept DEF StatementInv
<1>8. OwnFailure(d)'
  BY <1>0, <1>m, <1>5 DEF StatementInv, OwnFailure, Moves
<1>9. Result(d)'
  BY <1>0, <1>d, <1>m, <1>5, ResultAtRest DEF StatementInv, Moves
<1>10. StatementInv(d)'
  BY <1>4, <1>6, <1>7, <1>8, <1>9 DEF StatementInv
<1> QED  BY <1>2, <1>3, <1>10, OwnStepKeeps

\* The selected result is registered and handed to complete_class.
LEMMA SelectLife ==
    ASSUME IInv, LifeInv, NEW d \in Defs, Select(d) PROVE LifeInv'
<1>0. /\ StatementInv(d) /\ LifeTyped /\ Typed /\ Original(d) \in Types /\ Replacement(d) \in Types
      /\ Replacement(d)[1] = d /\ Replacement(d) \in Lineage(d)
  BY Lineages DEF LifeInv, IInv, Lineage
<1>1. /\ pc[d] = "selected" /\ applied' = applied /\ StartComplete(d, Final(d), FALSE)
      /\ Still(d) /\ UNCHANGED <<lane, kind, module, exited, invocation, native, phase, plan>>
  BY DEF Select, Still
<1>2. call[d] = NoCall /\ d \notin applied /\ call[d].stage = "none"
  BY <1>0, <1>1, NoCallIdle DEF StatementInv, Activation, Forgets
<1>3. \A a \in Actors \ {d} : call'[a] = call[a]
  BY <1>0, <1>1 DEF StartComplete, Typed
<1>4. pc' \in [Defs -> Pcs] /\ (\A e \in Defs \ {d} : pc'[e] = pc[e]) /\ pc'[d] = "admit"
  BY <1>0 DEF Select, Goto, LifeTyped, Pcs
<1>5. Moves(d)
  BY <1>1, <1>3, DriverApart DEF Moves
<1>6. /\ records' \in Seq(Types) /\ \A t : t # Replacement(d) => (Registered(t)' <=> Registered(t))
      /\ kind[d] = "slots" => Registered(Replacement(d))'
      /\ kind[d] # "slots" => records' = records
  <2>0. records \in Seq(Types)
    BY <1>0 DEF LifeTyped
  <2>1. CASE kind[d] = "slots"
    <3>1. records' = InsertBefore(records, Replacement(d), Original(d)) /\ Registered(Original(d))
      BY <2>1 DEF Select
    <3>2. Original(d) \in Elements(records)
      BY <2>0, <3>1, SMTT(20) DEF Registered, Elements
    <3>3. records' \in Seq(Types) /\ Elements(records') = Elements(records) \union {Replacement(d)}
      BY <1>0, <2>0, <3>1, <3>2, InsertFacts
    <3>4. \A t : (Registered(t)' <=> t \in Elements(records')) /\ (Registered(t) <=> t \in Elements(records))
      BY <2>0, <3>3, RegisteredElements
    <3> QED  BY <2>1, <3>3, <3>4
  <2>2. CASE kind[d] # "slots"
    <3>1. records' = records
      BY <2>2 DEF Select
    <3> QED  BY <2>0, <2>2, <3>1 DEF Registered
  <2> QED  BY <2>1, <2>2
<1>7. LifeTyped'
  BY <1>0, <1>1, <1>4, <1>6 DEF LifeTyped
<1>8. OwnStep(d)
  <2>1. \A e \in Defs \ {d} : call'[e] = call[e]
    BY <1>3, DriverApart
  <2>2. \A t \in Types : t[1] # d => t # Replacement(d)
    BY <1>0
  <2> QED  BY <1>1, <1>4, <1>5, <1>6, <2>1, <2>2 DEF OwnStep, AtRest
<1>9. Awaited(d)'
  <2>1. CASE kind[d] = "slots"
    <3>1. Final(d) = Replacement(d) /\ Final(d)' = Replacement(d)
      BY <1>1, <2>1 DEF Final
    <3> QED  BY <1>1, <1>5, <1>6, <2>1, <3>1, AwaitedKept
  <2>2. CASE kind[d] # "slots"
    <3>1. Awaited(d) /\ Waits(d) /\ Final(d)' = Final(d)
      BY <1>0, <1>1, <2>2 DEF StatementInv, Waits, Final
    <3>2. Registered(Final(d)) => Registered(Final(d))'
      BY <1>6, <2>2, <3>1 DEF Registered
    <3> QED  BY <1>1, <1>5, <3>1, <3>2, AwaitedKept
  <2> QED  BY <2>1, <2>2
<1>10. StatementInv(d)'
  BY <1>0, <1>1, <1>2, <1>4, <1>5, <1>9, EnterStep
<1> QED  BY <1>7, <1>8, <1>10, OwnStepKeeps

\* The original of an admitted replacement becomes an ordinary type.
LEMMA DisposeLife ==
    ASSUME IInv, LifeInv, NEW d \in Defs, DisposeOriginal(d) PROVE LifeInv'
<1> DEFINE o == Original(d)
           r == Replacement(d)
<1>0. /\ StatementInv(d) /\ LifeTyped /\ Typed /\ o \in Types /\ o[1] = d /\ Lineage(d) = {o, r} /\ o # r
      /\ r \in Types
  BY Lineages DEF LifeInv, IInv, Lineage
<1>1. /\ pc[d] = "admit" /\ lane = "retained" /\ kind[d] = "slots" /\ applied' = applied /\ call[d].stage = "ok"
      /\ UNCHANGED <<lane, kind, module, exited, invocation, plan, records>> /\ phase[o] = "Pending" /\ native[o] = "pending"
  BY DEF DisposeOriginal, MayDispose
<1>2. /\ native'[o] = "dynamic" /\ phase'[o] = "Discarded"
      /\ \A t \in Types : t # o => native'[t] = native[t] /\ phase'[t] = phase[t]
  BY <1>0 DEF DisposeOriginal, Typed
<1>3. call'[d] = NoCall /\ \A a \in Actors \ {d} : call'[a] = call[a]
  BY LeaveFacts DEF DisposeOriginal, Leave
<1>4. pc' \in [Defs -> Pcs] /\ (\A e \in Defs \ {d} : pc'[e] = pc[e]) /\ pc'[d] = "unregister"
  BY <1>0 DEF DisposeOriginal, Goto, LifeTyped, Pcs
<1>5. Moves(d)
  BY <1>1, <1>3, DriverApart DEF Moves
<1>6. Final(d) = r /\ Final(d)' = r
  BY <1>1 DEF Final
<1> HIDE DEF o, r
<1>7. LifeTyped'
  BY <1>0, <1>1, <1>4 DEF LifeTyped
<1>8. OwnStep(d)
  <2>1. \A e \in Defs \ {d} : call'[e] = call[e]
    BY <1>3, DriverApart
  <2>2. \A t \in Types : t[1] # d => t # o
    BY <1>0
  <2> QED  BY <1>1, <1>2, <1>4, <1>5, <2>1, <2>2 DEF OwnStep, AtRest, Registered
<1>9. Activation(d)' /\ Interpreting(d)'
  BY <1>1, <1>3, <1>4 DEF Activation, Interpreting
<1>10. Forgets(d)'
  BY <1>0, <1>1 DEF StatementInv, Forgets
<1>11. Born(d)'
  <2>1. Born(d)
    BY <1>0 DEF StatementInv
  <2> QED  BY <1>0, <1>1, <1>2, <1>4, <2>1, SMTT(20) DEF Born
<1>12. Admitter(d)'
  BY <1>0, <1>1, <1>2, <1>5, AdmitterKept DEF StatementInv
<1>13. OwnFailure(d)'
  BY <1>0, <1>1, <1>2, <1>5 DEF StatementInv, OwnFailure, Moves
<1>14. Result(d)'
  <2>1. Admitted(r)
    BY <1>0, <1>1, <1>6 DEF StatementInv, Result
  <2>2. Admitted(r)'
    BY <1>0, <1>2, <1>5, <2>1 DEF Admitted, Moves
  <2>3. \A t \in Lineage(d) : call'[Driver].type = t /\ call'[Driver].stage = "ok" => phase'[t] = "Sealed"
    BY <1>0, <1>1, <1>2, <1>5 DEF StatementInv, Result, Moves
  <2> QED  BY <1>3, <1>4, <1>6, <2>2, <2>3, NoCallIdle DEF Result
<1>15. Awaited(d)'
  <2>1. Waits(d)
    BY <1>1 DEF Waits
  <2> QED  BY <1>0, <1>1, <1>2, <1>5, <1>6, <2>1 DEF StatementInv, Awaited, SealedOrDead, Registered, Moves
<1>16. StatementInv(d)'
  BY <1>9, <1>10, <1>11, <1>12, <1>13, <1>14, <1>15 DEF StatementInv
<1> QED  BY <1>7, <1>8, <1>16, OwnStepKeeps

\* The admitted result completes the statement, or is finalized for a sealed module.
LEMMA ResultLife ==
    ASSUME IInv, LifeInv, NEW d \in Defs, ResultAdmitted(d) PROVE LifeInv'
<1> DEFINE o == Original(d)
<1>0. /\ StatementInv(d) /\ LifeTyped /\ Typed /\ o \in Types /\ o[1] = d /\ Final(d) \in Lineage(d)
      /\ kind[d] = "slots" => Final(d) # o
  BY Lineages DEF LifeInv, IInv, Lineage, Final
<1>1. /\ pc[d] \in {"admit", "unregister"} /\ lane = "retained" /\ applied' = applied
      /\ pc[d] = "admit" => call[d].stage = "ok"
      /\ Still(d) /\ UNCHANGED <<lane, kind, module, exited, invocation, native, phase, plan>>
  BY DEF ResultAdmitted, Still
<1>2. d \notin applied /\ Admitted(Final(d)) /\ call[d].stage \notin {"admit", "error"}
  BY <1>0, <1>1, NoCallIdle DEF StatementInv, Activation, Forgets, Result
<1>3. \A a \in Actors \ {d} : call'[a] = call[a]
  BY <1>0, LeaveFacts, DriverApart DEF ResultAdmitted, Leave, StartComplete, Typed
<1>4. pc' \in [Defs -> Pcs] /\ (\A e \in Defs \ {d} : pc'[e] = pc[e]) /\ pc'[d] \in {"done", "finalize"}
  BY <1>0 DEF ResultAdmitted, Goto, LifeTyped, Pcs, AtRest
<1>5. Moves(d)
  BY <1>1, <1>3, DriverApart DEF Moves
<1>6. /\ records' \in Seq(Types) /\ \A t : t # o => (Registered(t)' <=> Registered(t))
      /\ kind[d] # "slots" => records' = records
  <2>0. records \in Seq(Types)
    BY <1>0 DEF LifeTyped
  <2>1. CASE kind[d] = "slots"
    <3>1. records' = Remove(records, {o})
      BY <2>1 DEF ResultAdmitted
    <3>2. records' \in Seq(Types) /\ Elements(records') = Elements(records) \ {o}
      BY <2>0, <3>1, RemoveFacts
    <3>3. \A t : (Registered(t)' <=> t \in Elements(records')) /\ (Registered(t) <=> t \in Elements(records))
      BY <2>0, <3>2, RegisteredElements
    <3> QED  BY <2>1, <3>2, <3>3
  <2>2. CASE kind[d] # "slots"
    <3>1. records' = records
      BY <2>2 DEF ResultAdmitted
    <3> QED  BY <2>0, <3>1 DEF Registered
  <2> QED  BY <2>1, <2>2
<1>7. LifeTyped'
  BY <1>0, <1>1, <1>4, <1>6 DEF LifeTyped
<1>8. OwnStep(d)
  <2>1. \A e \in Defs \ {d} : call'[e] = call[e]
    BY <1>3, DriverApart
  <2> HIDE DEF o
  <2>2. \A t \in Types : t[1] # d => t # o
    BY <1>0
  <2> QED  BY <1>1, <1>4, <1>5, <1>6, <2>1, <2>2 DEF OwnStep, AtRest
<1>9. Awaited(d)'
  <2>1. Awaited(d) /\ Waits(d) /\ Final(d)' = Final(d)
    BY <1>0, <1>1 DEF StatementInv, Waits, Final
  <2>2. Registered(Final(d)) => Registered(Final(d))'
    <3>1. CASE kind[d] = "slots"
      <4>1. Final(d) # o
        BY <1>0, <3>1
      <4> QED  BY <1>6, <2>1, <4>1
    <3>2. CASE kind[d] # "slots"
      BY <1>6, <2>1, <3>2 DEF Registered
    <3> QED  BY <3>1, <3>2
  <2> QED  BY <1>1, <1>5, <2>1, <2>2, AwaitedKept
<1>10. CASE IsReady
  <2>1. StartComplete(d, Final(d), TRUE) /\ pc'[d] = "finalize"
    BY <1>0, <1>10 DEF ResultAdmitted, Goto, LifeTyped
  <2>2. StatementInv(d)'
    BY <1>0, <1>1, <1>2, <1>5, <1>9, <2>1, EnterStep
  <2> QED  BY <1>7, <1>8, <2>2, OwnStepKeeps
<1>11. CASE ~IsReady
  <2>1. call'[d] = NoCall /\ pc'[d] = "done"
    BY <1>0, <1>11, LeaveFacts DEF ResultAdmitted, Goto, LifeTyped, Leave
  <2>2. StatementInv(d)'
    BY <1>0, <1>1, <1>2, <1>5, <1>9, <1>11, <2>1, DoneStep DEF IsReady
  <2> QED  BY <1>7, <1>8, <2>2, OwnStepKeeps
<1> QED  BY <1>10, <1>11

\* The interpreter stores the definition.
LEMMA StoreLife ==
    ASSUME IInv, LifeInv, NEW d \in Defs, Store(d) PROVE LifeInv'
<1>0. StatementInv(d) /\ LifeTyped /\ Typed /\ Final(d) \in Lineage(d)
  BY DEF LifeInv, IInv, Lineage, Final
<1>1. /\ pc[d] = "store" /\ applied' = applied /\ records' = records
      /\ Still(d) /\ Fades(d) /\ UNCHANGED <<lane, kind, module, exited, invocation, native, phase, plan>>
  BY DEF Store, Still, Fades
<1>2. call[d] = NoCall /\ d \notin applied /\ call[d].stage = "none"
  BY <1>0, <1>1, NoCallIdle DEF StatementInv, Activation, Forgets
<1>3. \A a \in Actors \ {d} : call'[a] = call[a]
  BY <1>0 DEF Store, StartComplete, Typed
<1>4. pc' \in [Defs -> Pcs] /\ (\A e \in Defs \ {d} : pc'[e] = pc[e])
  BY <1>0 DEF Store, Goto, LifeTyped, Pcs, AtRest
<1>5. Moves(d)
  BY <1>1, <1>3, DriverApart DEF Moves
<1>6. LifeTyped'
  BY <1>0, <1>1, <1>4 DEF LifeTyped
<1>7. OwnStep(d)
  BY <1>1, <1>3, <1>4, <1>5, DriverApart DEF OwnStep, AtRest, Registered
<1>8. CASE ~Constructed(Final(d))
  <2>1. pc'[d] \in {"foreign", "raised"} /\ call'[d] = call[d]
    BY <1>0, <1>8 DEF Store, Goto, LifeTyped
  <2>2. ~(lane = "interpreter" /\ Live)
    BY <1>0, <1>1, <1>8 DEF StatementInv, Interpreting
  <2>3. Activation(d)' /\ Admitter(d)' /\ Result(d)' /\ OwnFailure(d)' /\ Forgets(d)'
    BY <1>0, <1>1, <1>5, <2>1, PassStep
  <2>4. Born(d)'
    BY <1>0, <1>1, <2>1 DEF StatementInv, Born
  <2>5. Interpreting(d)' /\ Awaited(d)'
    BY <1>1, <2>1, <2>2 DEF Interpreting, Awaited, Waits, Live
  <2>6. StatementInv(d)'
    BY <2>3, <2>4, <2>5 DEF StatementInv
  <2> QED  BY <1>6, <1>7, <2>6, OwnStepKeeps
<1>9. CASE Constructed(Final(d)) /\ PendingDataclass(Final(d))
  <2>1. pc'[d] = "raised" /\ call'[d] = NoCall
    BY <1>0, <1>2, <1>9 DEF Store, Goto, LifeTyped
  <2>2. StatementInv(d)'
    BY <1>0, <1>1, <1>2, <1>5, <2>1, RaiseStep
  <2> QED  BY <1>6, <1>7, <2>2, OwnStepKeeps
<1>10. CASE Constructed(Final(d)) /\ ~PendingDataclass(Final(d))
  <2>1. pc'[d] = "finalize" /\ StartComplete(d, Final(d), TRUE)
    BY <1>0, <1>10 DEF Store, Goto, LifeTyped
  <2>2. Awaited(d)'
    BY <2>1 DEF Awaited, Waits
  <2>3. StatementInv(d)'
    BY <1>0, <1>1, <1>2, <1>5, <2>1, <2>2, EnterStep
  <2> QED  BY <1>6, <1>7, <2>3, OwnStepKeeps
<1> QED  BY <1>8, <1>9, <1>10

-----------------------------------------------------------------------------
(* complete_class.                                                         *)

\* What a step of the activation of a may do to its type t and its lineage.
Works(a, t) ==
    /\ UNCHANGED <<lane, kind, pc, plan, invocation, applied, records, module, exited>>
    /\ \A b \in Actors \ {a} : call'[b] = call[b]
    /\ call'[a].type = t /\ call'[a].finalize = call[a].finalize /\ call'[a].pending = call[a].pending
    /\ \A u \in Types :
         \/ native'[u] = native[u]
         \/ /\ u[1] = t[1] /\ native[u] \in {"pending", "admitting"} /\ native'[u] = "failed"
            /\ call'[a].stage = "error"
         \/ u = t /\ native[u] = "pending" /\ native'[u] = "admitting"
         \/ u = t /\ native[u] = "admitting" /\ native'[u] = "enforced"
    /\ \A u \in Types :
         \/ phase'[u] = phase[u]
         \/ u = t /\ phase[u] \in {"Pending", "Admitting"} /\ phase'[u] = "Terminal"
         \/ u = t /\ phase[u] = "Pending" /\ phase'[u] = "Admitting" /\ call'[a].stage = "admit"
         \/ u = t /\ phase[u] = "Admitting" /\ phase'[u] = "Bound" /\ native'[u] = "enforced"
         \/ u = t /\ phase[u] = "Bound" /\ phase'[u] = "Sealed"
    /\ call[a].stage \in {"adopt", "admit", "seal"} /\ call'[a].stage \in {"admit", "seal", "ok", "error"}
    /\ call[a].stage = "admit" => phase'[t] # "Admitting"
    /\ call'[a].stage = "ok" /\ call[a].finalize => phase'[t] = "Sealed"
    /\ call'[a].stage \in {"ok", "seal"} =>
         native'[t] = "enforced" \/ call[a].stage = "seal" \/ (call[a].stage = "adopt" /\ ~call[a].pending)

\* And that is what the steps of complete_class do.
LEMMA WorksStep ==
    ASSUME IInv, NEW a \in Actors, CompleteClass(a), NEW t \in Types, call[a].type = t PROVE Works(a, t)
<1>0. /\ call \in [Actors -> Calls] /\ native \in [Types -> NativePhases] /\ phase \in [Types -> Phases]
      /\ t[1] \in Defs
  BY Lineages DEF IInv, Typed
<1>1. ASSUME NEW s, call' = [call EXCEPT ![a].stage = s]
      PROVE  /\ call'[a].type = t /\ call'[a].finalize = call[a].finalize /\ call'[a].pending = call[a].pending
             /\ call'[a].stage = s /\ \A b \in Actors \ {a} : call'[b] = call[b]
  BY <1>0, <1>1 DEF Calls
<1>2. CASE Adopt(a)
  <2>1. CASE call[a].pending /\ MayBeginAdmission(t) /\ phase' = [phase EXCEPT ![t] = "Admitting"]
             /\ native' = [native EXCEPT ![t] = "admitting"] /\ call' = [call EXCEPT ![a].stage = "admit"]
    <3>1. /\ call[a].stage = "adopt" /\ phase[t] = "Pending" /\ native[t] = "pending"
          /\ UNCHANGED <<lane, kind, pc, plan, invocation, applied, records, module, exited>>
      BY <1>2, <2>1 DEF Adopt, MayBeginAdmission
    <3>2. /\ phase'[t] = "Admitting" /\ native'[t] = "admitting"
          /\ \A u \in Types : u # t => phase'[u] = phase[u] /\ native'[u] = native[u]
      BY <1>0, <2>1
    <3>3. /\ call'[a].type = t /\ call'[a].finalize = call[a].finalize /\ call'[a].pending = call[a].pending
          /\ call'[a].stage = "admit" /\ \A b \in Actors \ {a} : call'[b] = call[b]
      BY <1>1, <2>1
    <3> QED  BY <3>1, <3>2, <3>3 DEF Works
  <2>2. CASE ~call[a].pending /\ call' = [call EXCEPT ![a].stage = IF call[a].finalize THEN "seal" ELSE "ok"]
             /\ UNCHANGED <<phase, native>>
    BY <1>0, <1>1, <1>2, <2>2, SMTT(20) DEF Adopt, Works
  <2> QED  BY <1>2, <2>1, <2>2 DEF Adopt
<1>3. CASE AdoptFails(a)
  BY <1>0, <1>1, <1>3, SMTT(20) DEF AdoptFails, stateVars, Works
<1>4. CASE Commit(a)
  <2>1. /\ phase[t] = "Admitting" /\ native[t] = "admitting" /\ phase' = [phase EXCEPT ![t] = "Bound"]
        /\ native' = [native EXCEPT ![t] = "enforced"] /\ call[a].stage = "admit"
        /\ call' = [call EXCEPT ![a].stage = IF call[a].finalize THEN "seal" ELSE "ok"]
        /\ UNCHANGED <<lane, kind, pc, plan, invocation, applied, records, module, exited>>
    BY <1>4 DEF Commit, MayCommit
  <2> QED  BY <1>0, <1>1, <2>1, SMTT(20) DEF Works
<1>5. CASE AdmissionFails(a)
  <2>1. /\ FailUnfinished(t) /\ call[a].stage = "admit" /\ call' = [call EXCEPT ![a].stage = "error"]
        /\ UNCHANGED <<lane, kind, pc, plan, invocation, applied, records, module, exited>>
    BY <1>5 DEF AdmissionFails
  <2>2. CASE phase[t] \in {"Pending", "Admitting"}
    <3>1. native' = FailLineages(native, {t[1]}) /\ phase' = [phase EXCEPT ![t] = "Terminal"]
      BY <2>1, <2>2 DEF FailUnfinished
    <3>2. \A u \in Types : \/ native'[u] = native[u]
                           \/ u[1] = t[1] /\ native[u] \in {"pending", "admitting"} /\ native'[u] = "failed"
      BY <3>1 DEF FailLineages
    <3>3. phase'[t] = "Terminal" /\ \A u \in Types : u # t => phase'[u] = phase[u]
      BY <1>0, <3>1
    <3>4. /\ call'[a].type = t /\ call'[a].finalize = call[a].finalize /\ call'[a].pending = call[a].pending
          /\ call'[a].stage = "error" /\ \A b \in Actors \ {a} : call'[b] = call[b]
      BY <1>1, <2>1
    <3> QED  BY <2>1, <2>2, <3>2, <3>3, <3>4 DEF Works
  <2>3. CASE phase[t] \notin {"Pending", "Admitting"}
    BY <1>0, <1>1, <2>1, <2>3, SMTT(20) DEF FailUnfinished, Works
  <2> QED  BY <2>2, <2>3
<1>6. CASE Seal(a)
  <2>1. PICK last \in {"ok", "error"} :
           /\ phase' = IF MaySeal(t) THEN [phase EXCEPT ![t] = "Sealed"] ELSE phase
           /\ native' = native /\ call[a].stage = "seal" /\ (~MaySeal(t) => last = "error")
           /\ call' = [call EXCEPT ![a].stage = last]
           /\ UNCHANGED <<lane, kind, pc, plan, invocation, applied, records, module, exited>>
    BY <1>6 DEF Seal
  <2>2. MaySeal(t) => phase[t] \in {"Sealed", "Bound"}
    BY DEF MaySeal
  <2>3. CASE MaySeal(t)
    BY <1>0, <1>1, <2>1, <2>2, <2>3 DEF Works
  <2>4. CASE ~MaySeal(t)
    BY <1>0, <1>1, <2>1, <2>4, SMTT(20) DEF Works
  <2> QED  BY <2>3, <2>4
<1> QED  BY <1>2, <1>3, <1>4, <1>5, <1>6 DEF CompleteClass

\* Nobody takes back what an admission delivered.
LEMMA WorksLasts ==
    ASSUME NEW a, NEW t \in Types, NEW u \in Types, Works(a, t)
    PROVE  /\ native[u] = "enforced" => native'[u] = "enforced"
           /\ native[u] = "dead" => native'[u] = "dead"
           /\ native[u] = "none" <=> native'[u] = "none"
           /\ phase[u] = "Sealed" => phase'[u] = "Sealed"
           /\ SealedOrDead(u) => SealedOrDead(u)'
BY DEF Works, SealedOrDead

\* Born survives a step of either.
LEMMA WorksBorn ==
    ASSUME NEW a, NEW t \in Types, NEW d \in Defs, Works(a, t), Born(d) PROVE Born(d)'
<1>1. \A u \in Lineage(d) : u \in Types
  BY Lineages DEF Lineage
<1>2. Original(d) \in Lineage(d) /\ Replacement(d) \in Lineage(d)
  BY DEF Lineage
<1>3. ASSUME NEW u \in Lineage(d), native'[u] = "none" PROVE phase'[u] = "Prepared"
  BY <1>1, <1>3, SMTT(20) DEF Born, Works
<1>4. ASSUME NEW u \in Lineage(d), phase'[u] \in {"Bound", "Sealed"} PROVE native'[u] = "enforced"
  BY <1>1, <1>4, SMTT(20) DEF Born, Works
<1>5. pc' = pc
  BY DEF Works
<1> QED  BY <1>1, <1>2, <1>3, <1>4, <1>5, WorksLasts DEF Born

\* A statement's own activation.
LEMMA OwnWorkLife ==
    ASSUME IInv, LifeInv, NEW d \in Defs, CompleteClass(d) PROVE LifeInv'
<1>t. PICK t : t = Final(d)
  OBVIOUS
<1>0. /\ StatementInv(d) /\ LifeTyped /\ Typed /\ t \in Lineage(d) /\ t \in Types /\ t[1] = d
      /\ \A u \in Lineage(d) : u \in Types
  BY <1>t, Lineages, FinalTyped DEF LifeInv, IInv, Lineage, Final
<1>1. pc[d] \in {"admit", "finalize"} /\ call[d].type = t
  <2>1. call[d].stage # "none"
    BY DEF CompleteClass, Adopt, AdoptFails, Commit, AdmissionFails, Seal
  <2> QED  BY <1>0, <1>t, <2>1, NoCallIdle DEF StatementInv, Activation
<1>2. Final(d)' = t
  BY <1>t DEF CompleteClass, Adopt, AdoptFails, Commit, AdmissionFails, Seal, Final
<1>3. Works(d, t)
  BY <1>0, <1>1, DriverApart, WorksStep
<1>4. Moves(d) /\ (\A e \in Defs \ {d} : call'[e] = call[e]) /\ call'[Driver] = call[Driver]
  BY <1>3, DriverApart DEF Works, Moves
<1>5. LifeTyped'
  BY <1>0, <1>3 DEF LifeTyped, Works
<1>6. OwnStep(d)
  <2>1. \A u \in Types : u[1] # d => native'[u] = native[u] /\ phase'[u] = phase[u]
    BY <1>0, <1>3 DEF Works
  <2> QED  BY <1>1, <1>3, <1>4, <2>1 DEF OwnStep, Works, AtRest, Registered
<1>7. Activation(d)'
  BY <1>0, <1>1, <1>2, <1>3 DEF StatementInv, Activation, Works
<1>8. Born(d)'
  BY <1>0, <1>3, WorksBorn DEF StatementInv
<1>9. Admitter(d)'
  <2> SUFFICES ASSUME NEW u \in Lineage(d), phase'[u] = "Admitting"
               PROVE  \E b \in {d, Driver} : call'[b].type = u /\ call'[b].stage = "admit"
    BY DEF Admitter
  <2>1. CASE phase[u] # "Admitting"
    BY <1>0, <1>3, <2>1 DEF Works
  <2>2. CASE phase[u] = "Admitting"
    <3>1. PICK b \in {d, Driver} : call[b].type = u /\ call[b].stage = "admit"
      BY <1>0, <2>2 DEF StatementInv, Admitter
    <3>2. b # d
      BY <1>1, <1>3, <3>1 DEF Works
    <3> QED  BY <1>4, <3>1, <3>2
  <2> QED  BY <2>1, <2>2
<1>10. Result(d)'
  <2>1. Admitted(t) => Admitted(t)'
    BY <1>0, <1>3, <1>4, WorksLasts DEF Admitted, Works
  <2>2. call'[d].stage \in {"ok", "seal"} => Admitted(t)'
    <3>1. ASSUME call'[d].stage \in {"ok", "seal"}, native'[t] # "enforced" PROVE Admitted(t)
      BY <1>0, <1>t, <1>1, <1>3, <3>1 DEF StatementInv, Result, Works
    <3> QED  BY <2>1, <3>1 DEF Admitted
  <2>3. call'[d].stage # "adopt" /\ pc' = pc
    BY <1>3 DEF Works
  <2>4. call'[d].stage = "ok" /\ call'[d].finalize => phase'[t] = "Sealed"
    BY <1>3 DEF Works
  <2>5. \A u \in Lineage(d) : call'[Driver].type = u /\ call'[Driver].stage = "ok" => phase'[u] = "Sealed"
    <3>1. Result(d)
      BY <1>0 DEF StatementInv
    <3> QED  BY <1>0, <1>3, <1>4, <3>1, WorksLasts, SMTT(20) DEF Result
  <2> QED  BY <1>1, <1>2, <2>2, <2>3, <2>4, <2>5 DEF Result
<1>11. Awaited(d)'
  <2>1. Waits(d)' => Waits(d)
    BY <1>3 DEF Works, Waits
  <2>2. Registered(t)' <=> Registered(t)
    BY <1>3 DEF Works, Registered
  <2>3. SealedOrDead(t) => SealedOrDead(t)'
    BY <1>0, <1>3, WorksLasts
  <2>4. Awaited(d) /\ Final(d) = t
    BY <1>0, <1>t DEF StatementInv
  <2> QED  BY <1>2, <1>3, <1>4, <2>1, <2>2, <2>3, <2>4 DEF Awaited, Works
<1>12. Interpreting(d)'
  BY <1>1, <1>3 DEF Interpreting, Works
<1>13. OwnFailure(d)'
  <2>1. OwnFailure(d)
    BY <1>0 DEF StatementInv
  <2> QED  BY <1>0, <1>3, <1>4, <2>1, SMTT(20) DEF OwnFailure, Works
<1>14. Forgets(d)'
  BY <1>0, <1>1, <1>3 DEF StatementInv, Forgets, Works
<1>15. StatementInv(d)'
  BY <1>7, <1>8, <1>9, <1>10, <1>11, <1>12, <1>13, <1>14 DEF StatementInv
<1> QED  BY <1>5, <1>6, <1>15, OwnStepKeeps

-----------------------------------------------------------------------------
(* The import.                                                             *)

\* The import's own activation.
LEMMA DriverWorkLife ==
    ASSUME IInv, LifeInv, CompleteClass(Driver) PROVE LifeInv'
<1>t. PICK t : t = call[Driver].type
  OBVIOUS
<1>1. t \in Types /\ lane = "retained" /\ call[Driver].finalize /\ t[1] \in Defs
  <2>1. call[Driver].stage # "none"
    BY DEF CompleteClass, Adopt, AdoptFails, Commit, AdmissionFails, Seal
  <2> QED  BY <1>t, <2>1, Lineages, NoCallIdle DEF LifeInv, DriverCall
<1>2. Works(Driver, t)
  BY <1>t, <1>1, DriverApart, WorksStep
<1>3. /\ \A e \in Defs : call'[e] = call[e] /\ Final(e)' = Final(e)
      /\ UNCHANGED <<lane, kind, pc, plan, invocation, applied, records, module, exited>>
  BY <1>2, DriverApart DEF Works, Final
<1>4. LifeTyped' /\ OneAtATime'
  BY <1>3 DEF LifeInv, LifeTyped, OneAtATime
<1>5. DriverCall'
  BY <1>1, <1>2, <1>3 DEF Works, DriverCall
<1>6. ASSUME NEW d \in Defs PROVE StatementInv(d)'
  <2>0. StatementInv(d) /\ \A u \in Lineage(d) : u \in Types /\ u[1] = d
    BY Lineages DEF LifeInv, Lineage
  <2>f. PICK f : f = Final(d)
    OBVIOUS
  <2>g. f \in Lineage(d) /\ Final(d)' = f
    BY <1>3, <2>f DEF Final, Lineage
  <2>1. Activation(d)' /\ Forgets(d)'
    BY <1>3, <2>0, <2>f, <2>g DEF StatementInv, Activation, Forgets, Live, Registered
  <2>2. Born(d)'
    BY <1>1, <1>2, <2>0, WorksBorn DEF StatementInv
  <2>3. Admitter(d)'
    <3> SUFFICES ASSUME NEW u \in Lineage(d), phase'[u] = "Admitting"
                 PROVE  \E b \in {d, Driver} : call'[b].type = u /\ call'[b].stage = "admit"
      BY DEF Admitter
    <3>1. CASE phase[u] # "Admitting"
      BY <1>2, <2>0, <3>1 DEF Works
    <3>2. CASE phase[u] = "Admitting"
      <4>1. PICK b \in {d, Driver} : call[b].type = u /\ call[b].stage = "admit"
        BY <2>0, <3>2 DEF StatementInv, Admitter
      <4>2. b # Driver
        BY <1>t, <1>2, <4>1 DEF Works
      <4> QED  BY <1>3, <4>1, <4>2
    <3> QED  BY <3>1, <3>2
  <2>4. Result(d)'
    <3>0. /\ native[f] = "enforced" => native'[f] = "enforced"
          /\ call'[Driver].type = call[Driver].type
      BY <1>t, <1>1, <1>2, <2>0, <2>g, WorksLasts DEF Works
    <3>1. Admitted(f) => Admitted(f)'
      BY <1>3, <3>0 DEF Admitted
    <3>2. \A u \in Lineage(d) : call'[Driver].type = u /\ call'[Driver].stage = "ok" => phase'[u] = "Sealed"
      BY <1>1, <1>2 DEF Works
    <3>3. /\ native[f] = "dead" => native'[f] = "dead"
          /\ phase[f] = "Sealed" => phase'[f] = "Sealed"
          /\ SealedOrDead(f) => SealedOrDead(f)'
      BY <1>1, <1>2, <2>0, <2>g, WorksLasts
    <3> QED  BY <1>3, <2>0, <2>f, <2>g, <3>1, <3>2, <3>3 DEF StatementInv, Result
  <2>5. Awaited(d)'
    <3>1. (Waits(d)' <=> Waits(d)) /\ (Registered(f)' <=> Registered(f))
      BY <1>3 DEF Waits, Registered
    <3>2. SealedOrDead(f) => SealedOrDead(f)'
      BY <1>1, <1>2, <2>0, <2>g, WorksLasts
    <3>3. call'[Driver].type = call[Driver].type
      BY <1>t, <1>2 DEF Works
    <3> QED  BY <1>3, <2>0, <2>f, <2>g, <3>1, <3>2, <3>3 DEF StatementInv, Awaited
  <2>6. Interpreting(d)'
    BY <1>1, <1>3, <2>0 DEF StatementInv, Interpreting
  <2>7. OwnFailure(d)'
    BY <1>2, <1>3, <2>0 DEF StatementInv, OwnFailure, Works
  <2> QED  BY <2>1, <2>2, <2>3, <2>4, <2>5, <2>6, <2>7 DEF StatementInv
<1> QED  BY <1>4, <1>5, <1>6 DEF LifeInv

\* While the import has no activation its call names no type.
LEMMA DriverIdle ==
    ASSUME LifeInv, call[Driver].stage = "none" \/ lane # "retained"
    PROVE  call[Driver] = NoCall /\ call[Driver].type \notin Types /\ call[Driver].stage = "none"
BY Lineages, NoCallIdle DEF LifeInv, DriverCall

\* The import takes the next record.
LEMMA DrainTakeLife ==
    ASSUME IInv, LifeInv, DrainTake PROVE LifeInv'
<1>t. PICK t \in Types : t = Head(records) /\ StartComplete(Driver, t, TRUE)
  BY DEF DrainTake
<1>1. /\ UNCHANGED <<lane, kind, pc, native, phase, plan, invocation, applied, module, exited>>
      /\ lane = "retained" /\ records # <<>> /\ records' = Tail(records)
  BY DEF DrainTake
<1>2. call[Driver] = NoCall /\ call[Driver].type \notin Types /\ call[Driver].stage = "none"
  BY DriverIdle DEF DrainTake
<1>s. PICK first \in FirstStages(t, TRUE) :
        call' = [call EXCEPT ![Driver] = [type |-> t, stage |-> first, finalize |-> TRUE,
                                          pending |-> phase[t] = "Pending"]]
  BY <1>t DEF StartComplete
<1>3. /\ call'[Driver].type = t /\ call'[Driver].stage = first /\ call'[Driver].finalize
      /\ \A e \in Defs : call'[e] = call[e] /\ Final(e)' = Final(e)
  BY <1>s, <1>1, DriverApart DEF IInv, Typed, Final
<1>4. first \in {"error", "ok", "adopt"} /\ (first = "ok" => phase[t] = "Sealed")
  BY <1>s DEF FirstStages
<1>5. /\ records \in Seq(Types) /\ records' \in Seq(Types)
      /\ Elements(records) = Elements(records') \cup {t}
  BY <1>t, <1>1, TailElements DEF LifeInv, LifeTyped
<1>6. \A u : (Registered(u)' => Registered(u)) /\ (u # t => (Registered(u)' <=> Registered(u)))
  <2>1. \A u : (Registered(u)' <=> u \in Elements(records')) /\ (Registered(u) <=> u \in Elements(records))
    BY <1>5, RegisteredElements
  <2> QED  BY <1>5, <2>1
<1>7. LifeTyped' /\ OneAtATime' /\ DriverCall'
  BY <1>1, <1>3, <1>4, <1>5 DEF LifeInv, LifeTyped, OneAtATime, DriverCall
<1>8. ASSUME NEW d \in Defs PROVE StatementInv(d)'
  <2>0. StatementInv(d) /\ \A u \in Lineage(d) : u \in Types /\ u[1] = d
    BY Lineages DEF LifeInv, Lineage
  <2>f. PICK f : f = Final(d)
    OBVIOUS
  <2>g. f \in Lineage(d) /\ Final(d)' = f
    BY <1>3, <2>f DEF Final, Lineage
  <2>1. Activation(d)' /\ Born(d)' /\ Interpreting(d)' /\ OwnFailure(d)'
    <3>1. Activation(d)'
      BY <1>1, <1>3, <2>0, <2>f, <2>g DEF StatementInv, Activation
    <3>2. Born(d)'
      BY <1>1, <2>0 DEF StatementInv, Born
    <3>3. Interpreting(d)'
      BY <1>1, <2>0 DEF StatementInv, Interpreting
    <3>4. OwnFailure(d)'
      BY <1>1, <1>2, <1>3, <2>0 DEF StatementInv, OwnFailure
    <3> QED  BY <3>1, <3>2, <3>3, <3>4
  <2>2. Admitter(d)'
    <3>1. Admitter(d)
      BY <2>0 DEF StatementInv
    <3> QED  BY <1>1, <1>2, <1>3, <2>0, <3>1, SMTT(20) DEF Admitter
  <2>3. Result(d)'
    BY <1>1, <1>2, <1>3, <1>4, <2>0, <2>f, <2>g DEF StatementInv, Result, Admitted, SealedOrDead
  <2>4. Awaited(d)'
    <3>1. Waits(d)' <=> Waits(d)
      BY <1>1 DEF Waits
    <3>2. f = t \/ (Registered(f)' <=> Registered(f))
      BY <1>6
    <3> QED  BY <1>1, <1>2, <1>3, <2>0, <2>f, <2>g, <3>1, <3>2 DEF StatementInv, Awaited, SealedOrDead
  <2>5. Forgets(d)'
    BY <1>1, <1>6, <2>0 DEF StatementInv, Forgets, Live
  <2> QED  BY <2>1, <2>2, <2>3, <2>4, <2>5 DEF StatementInv
<1> QED  BY <1>7, <1>8 DEF LifeInv

\* The import is done with a type, or fails with it.
LEMMA DrainNextLife ==
    ASSUME IInv, LifeInv, DrainNext PROVE LifeInv'
<1>1. /\ UNCHANGED <<lane, kind, pc, native, phase, plan, invocation, applied, records, exited>>
      /\ call[Driver].stage \in {"ok", "error"} /\ call[Driver].type \in Types /\ lane = "retained"
      /\ module' = IF call[Driver].stage = "ok" THEN module ELSE "Failed"
  BY NoCallIdle DEF DrainNext, stateVars, LifeInv, DriverCall
<1>2. /\ call'[Driver] = NoCall /\ \A e \in Defs : call'[e] = call[e] /\ Final(e)' = Final(e)
  BY <1>1, DriverApart DEF DrainNext, Leave, IInv, Typed, Final
<1>3. call'[Driver].type \notin Types /\ call'[Driver].stage = "none"
  BY <1>2, Lineages, NoCallIdle
<1>4. LifeTyped' /\ OneAtATime' /\ DriverCall'
  BY <1>1, <1>2 DEF LifeInv, LifeTyped, OneAtATime, DriverCall
<1>5. ASSUME NEW d \in Defs PROVE StatementInv(d)'
  <2>0. StatementInv(d) /\ \A u \in Lineage(d) : u \in Types /\ u[1] = d
    BY Lineages DEF LifeInv, Lineage
  <2>f. PICK f : f = Final(d)
    OBVIOUS
  <2>g. f \in Lineage(d) /\ Final(d)' = f
    BY <1>2, <2>f DEF Final, Lineage
  <2>1. Activation(d)'
    BY <1>1, <1>2, <2>0, <2>f, <2>g DEF StatementInv, Activation
  <2>2. Born(d)'
    BY <1>1, <2>0 DEF StatementInv, Born
  <2>3. Interpreting(d)'
    BY <1>1, <2>0 DEF StatementInv, Interpreting
  <2>4. OwnFailure(d)'
    BY <1>1, <1>2, <2>0 DEF StatementInv, OwnFailure
  <2>5. Admitter(d)'
    BY <1>1, <1>2, <2>0 DEF StatementInv, Admitter
  <2>6. Forgets(d)'
    BY <1>1, <2>0 DEF StatementInv, Forgets, Live, Registered
  <2>7. call[Driver].type = f => module' = "Failed" \/ (phase[f] = "Sealed" /\ native[f] = "enforced")
    BY <1>1, <2>0, <2>g DEF StatementInv, Result, Born
  <2>8. Result(d)'
    BY <1>1, <1>2, <1>3, <2>0, <2>f, <2>g, <2>7 DEF StatementInv, Result, Admitted, SealedOrDead
  <2>9. Awaited(d)'
    <3>1. (Waits(d)' <=> Waits(d)) /\ (Registered(f)' <=> Registered(f))
      BY <1>1 DEF Waits, Registered
    <3> QED  BY <1>1, <2>0, <2>f, <2>g, <2>7, <3>1 DEF StatementInv, Awaited, SealedOrDead
  <2> QED  BY <2>1, <2>2, <2>3, <2>4, <2>5, <2>6, <2>8, <2>9 DEF StatementInv
<1> QED  BY <1>4, <1>5 DEF LifeInv

\* The module is sealed: every class that completed is.
LEMMA FinishSealingLife ==
    ASSUME IInv, LifeInv, FinishSealing PROVE LifeInv'
<1>1. /\ UNCHANGED <<lane, kind, pc, native, phase, plan, invocation, applied, records, exited, call>>
      /\ module = "Sealing" /\ module' = "Sealed" /\ \A u : ~Registered(u)
  BY SMTT(20) DEF FinishSealing, stateVars, Registered
<1>2. call[Driver] = NoCall /\ call[Driver].type \notin Types
  BY DriverIdle DEF FinishSealing
<1>3. LifeTyped' /\ OneAtATime' /\ DriverCall'
  BY <1>1 DEF LifeInv, LifeTyped, OneAtATime, DriverCall
<1>4. ASSUME NEW d \in Defs PROVE StatementInv(d)'
  <2>0. StatementInv(d) /\ \A u \in Lineage(d) : u \in Types
    BY Lineages DEF LifeInv, Lineage
  <2>f. PICK f : f = Final(d)
    OBVIOUS
  <2>g. f \in Lineage(d) /\ Final(d)' = f /\ Live /\ Live'
    BY <1>1, <2>f DEF Final, Lineage, Live
  <2>1. Activation(d)'
    BY <1>1, <2>0, <2>f, <2>g DEF StatementInv, Activation
  <2>2. Born(d)' /\ Admitter(d)'
    BY <1>1, <2>0 DEF StatementInv, Born, Admitter
  <2>3. Interpreting(d)'
    BY <1>1, <2>0, <2>f, <2>g DEF StatementInv, Interpreting, Constructed, Registered
  <2>4. OwnFailure(d)'
    BY <1>1, <2>0 DEF StatementInv, OwnFailure
  <2>6. Forgets(d)'
    BY <1>1, <2>0, <2>g DEF StatementInv, Forgets, Registered
  <2>7. pc[d] = "done" => SealedOrDead(f)
    <3>1. lane = "retained" \/ lane = "interpreter"
      BY ClassAdmissionAssumption DEF LifeInv, LifeTyped
    <3>2. CASE lane = "retained" /\ pc[d] = "done"
      <4>1. Waits(d) /\ Awaited(d)
        BY <2>0, <3>2 DEF Waits, StatementInv
      <4> QED  BY <1>1, <1>2, <2>0, <2>f, <2>g, <3>2, <4>1 DEF Awaited
    <3>3. CASE lane = "interpreter"
      BY <2>0, <2>f, <3>3 DEF StatementInv, Result
    <3> QED  BY <3>1, <3>2, <3>3
  <2>8. Result(d)'
    BY <1>1, <2>0, <2>f, <2>g, <2>7 DEF StatementInv, Result, Admitted, SealedOrDead
  <2>9. Awaited(d)'
    BY <1>1, <1>2, <2>0, <2>f, <2>g DEF StatementInv, Awaited, Waits, SealedOrDead, Registered
  <2> QED  BY <2>1, <2>2, <2>3, <2>4, <2>6, <2>8, <2>9 DEF StatementInv
<1> QED  BY <1>3, <1>4 DEF LifeInv

\* Steps that concern no statement.
LEMMA IdleLife ==
    ASSUME IInv, LifeInv, BeginSealing \/ (\E t \in Types : Spoil(t)) \/ UNCHANGED vars PROVE LifeInv'
<1>1. /\ UNCHANGED <<lane, kind, pc, native, phase, plan, invocation, applied, records, exited, call>>
      /\ module' = module \/ (module = "Initializing" /\ module' = "Sealing")
  BY DEF BeginSealing, Spoil, vars, stateVars
<1>2. LifeTyped' /\ OneAtATime' /\ DriverCall'
  BY <1>1 DEF LifeInv, LifeTyped, OneAtATime, DriverCall
<1>3. ASSUME NEW d \in Defs PROVE Untouched(d)
  BY <1>1 DEF Untouched, Registered
<1> QED  BY <1>2, <1>3, UntouchedStep DEF LifeInv

\* A record that nobody is working on dies with its type.
LEMMA DieLife ==
    ASSUME IInv, LifeInv, NEW t \in Types, Die(t) PROVE LifeInv'
<1>d. PICK d \in Defs : d = t[1]
  BY Lineages
<1>0. StatementInv(d) /\ LifeTyped /\ Typed /\ t \in Lineage(d) /\ \A u \in Lineage(d) : u \in Types /\ u[1] = d
  BY <1>d, Lineages DEF LifeInv, Lineage, IInv
<1>1. /\ UNCHANGED <<lane, kind, pc, invocation, applied, exited, call, module>> /\ native[t] \notin {"none", "dead"}
      /\ \A a \in Actors : call[a].type # t
      /\ \/ pc[d] \in AtRest
         \/ /\ lane = "interpreter" /\ t # Final(d) /\ t = Original(d)
            /\ pc[d] \in {"returned", "completing", "unpublished", "store", "finalize"}
  BY <1>d DEF Die, Pinned
<1>2. /\ native'[t] = "dead" /\ phase'[t] = "Terminal" /\ (plan'[t] = "none" => plan[t] = "none")
      /\ \A u \in Types : u # t => native'[u] = native[u] /\ phase'[u] = phase[u] /\ plan'[u] = plan[u]
  BY <1>0 DEF Die, Typed
<1>3. records' \in Seq(Types) /\ \A u : (Registered(u)' <=> Registered(u) /\ u # t)
  <2>1. records \in Seq(Types) /\ records' = Remove(records, {t})
    BY <1>0 DEF LifeTyped, Die
  <2>2. records' \in Seq(Types) /\ Elements(records') = Elements(records) \ {t}
    BY <2>1, RemoveFacts
  <2>3. \A u : (Registered(u)' <=> u \in Elements(records')) /\ (Registered(u) <=> u \in Elements(records))
    <3>1. records \in Seq(Types) /\ records' \in Seq(Types)
      BY <2>1, <2>2
    <3> QED  BY <3>1, RegisteredElements
  <2> QED  BY <2>2, <2>3
<1>4. LifeTyped' /\ OneAtATime' /\ DriverCall'
  BY <1>1, <1>3 DEF LifeInv, LifeTyped, OneAtATime, DriverCall
<1>5. ASSUME NEW e \in Defs, e # d PROVE StatementInv(e)'
  <2>1. \A u \in Lineage(e) : u \in Types /\ u # t
    BY <1>d, <1>5, Lineages DEF Lineage
  <2>2. Untouched(e)
    BY <1>1, <1>2, <1>3, <2>1 DEF Untouched
  <2> QED  BY <2>2, UntouchedStep DEF LifeInv
<1>6. StatementInv(d)'
  <2>f. PICK f : f = Final(d)
    OBVIOUS
  <2>g. f \in Lineage(d) /\ Final(d)' = f /\ Original(d) \in Lineage(d) /\ Replacement(d) \in Lineage(d)
    BY <1>1, <2>f DEF Final, Lineage
  <2>a. d \in Actors /\ Driver \in Actors
    BY DriverApart
  <2>1. Activation(d)'
    BY <1>0, <1>1, <2>f, <2>g DEF StatementInv, Activation
  <2>2. Born(d)'
    <3>1. ASSUME NEW u \in Lineage(d)
          PROVE  /\ native'[u] = "none" => native[u] = "none" /\ phase'[u] = phase[u]
                 /\ native[u] = "none" => native'[u] = "none"
                 /\ phase'[u] \in {"Bound", "Sealed"} => phase'[u] = phase[u] /\ native'[u] = native[u]
      BY <1>0, <1>1, <1>2
    <3> QED  BY <1>0, <1>1, <2>g, <3>1 DEF StatementInv, Born
  <2>3. Admitter(d)'
    BY <1>0, <1>1, <1>2 DEF StatementInv, Admitter
  <2>4. Result(d)'
    <3>1. call[d].stage # "none" => f # t
      BY <1>0, <1>1, <2>a, <2>f, NoCallIdle DEF StatementInv, Activation
    <3>2. pc[d] # "unregister"
      BY <1>1 DEF AtRest
    <3>3. f # t => native'[f] = native[f] /\ phase'[f] = phase[f]
      BY <1>0, <1>2, <2>g
    <3>4. \A u \in Lineage(d) : call[Driver].type = u => phase'[u] = phase[u]
      BY <1>0, <1>1, <1>2, <2>a
    <3>5. f # t /\ Admitted(f) => Admitted(f)'
      BY <1>1, <3>3 DEF Admitted
    <3>6. Admitted(f) \/ native[f] = "dead" => Admitted(f)' \/ native'[f] = "dead"
      BY <1>2, <3>3, <3>5
    <3>7. SealedOrDead(f) => SealedOrDead(f)'
      BY <1>2, <3>3 DEF SealedOrDead
    <3>8. Result(d)
      BY <1>0 DEF StatementInv
    <3> QED  BY <1>1, <2>f, <2>g, <3>1, <3>2, <3>3, <3>4, <3>5, <3>6, <3>7, <3>8 DEF Result
  <2>5. Awaited(d)'
    <3>1. Waits(d)' <=> Waits(d)
      BY <1>1 DEF Waits
    <3> QED  BY <1>0, <1>1, <1>2, <1>3, <2>f, <2>g, <3>1 DEF StatementInv, Awaited, SealedOrDead
  <2>6. Interpreting(d)'
    <3>1. pc[d] \notin {"ready", "constructed", "body", "allocated"}
      BY <1>1 DEF AtRest
    <3>2. pc[d] = "store" => f # t
      BY <1>1, <2>f DEF AtRest
    <3>3. pc[d] = "store" => (Constructed(f)' <=> Constructed(f))
      BY <1>0, <1>1, <1>2, <2>g, <3>2 DEF Constructed, Live
    <3>4. Live' <=> Live
      BY <1>1 DEF Live
    <3> QED  BY <1>0, <1>1, <1>3, <2>f, <2>g, <3>1, <3>3, <3>4 DEF StatementInv, Interpreting
  <2>7. OwnFailure(d)'
    BY <1>0, <1>1, <1>2 DEF StatementInv, OwnFailure
  <2>8. Forgets(d)'
    BY <1>0, <1>1, <1>3 DEF StatementInv, Forgets, Live
  <2> QED  BY <2>1, <2>2, <2>3, <2>4, <2>5, <2>6, <2>7, <2>8 DEF StatementInv
<1> QED  BY <1>4, <1>5, <1>6 DEF LifeInv

-----------------------------------------------------------------------------
(* Settling what the interpreter left over.                                *)

\* A type that was passed over is closed or released; an admitted one is left alone.
Settling(u) ==
    /\ \/ native'[u] = native[u]
       \/ native[u] \in {"pending", "admitting"} /\ native'[u] \in {"failed", "dynamic"}
    /\ \/ phase'[u] = phase[u]
       \/ phase[u] \in {"Pending", "Admitting"} /\ phase'[u] \in {"Terminal", "Discarded"}

\* So what was delivered stays.
LEMMA SettlingLasts ==
    ASSUME NEW u, Settling(u)
    PROVE  /\ native[u] = "enforced" => native'[u] = "enforced"
           /\ native[u] = "dead" => native'[u] = "dead"
           /\ native[u] = "none" <=> native'[u] = "none"
           /\ phase[u] = "Sealed" => phase'[u] = "Sealed"
           /\ SealedOrDead(u) => SealedOrDead(u)'
           /\ phase'[u] = "Admitting" => phase[u] = "Admitting"
           /\ phase'[u] \in {"Bound", "Sealed"} => phase'[u] = phase[u]
           /\ phase[u] = "Prepared" => phase'[u] = "Prepared"
BY DEF Settling, SealedOrDead

\* A statement whose types are settled while it rests, or as it ends.
LEMMA SettledRest ==
    ASSUME NEW d \in Defs, StatementInv(d), \A u \in Lineage(d) : Settling(u),
           lane = "interpreter", UNCHANGED <<lane, kind, invocation, plan, applied>>,
           call[Driver] = NoCall, call'[Driver] = NoCall, call'[d] = NoCall,
           pc[d] \in AtRest \/ call[d].stage = "ok",
           \/ pc'[d] = pc[d] /\ pc[d] \in AtRest
           \/ pc'[d] \in {"raised", "done"} /\ pc[d] \notin AtRest,
           module' = module \/ module' = "Failed",
           pc'[d] = "done" /\ pc[d] # "done" => phase[Final(d)] = "Sealed",
           pc'[d] = "done" /\ Live' => \A u \in Lineage(d) : ~Registered(u)',
           OwnFailure(d)'
    PROVE  StatementInv(d)'
<1>f. PICK f : f = Final(d)
  OBVIOUS
<1>g. f \in Lineage(d) /\ Final(d)' = f /\ Original(d) \in Lineage(d) /\ Replacement(d) \in Lineage(d)
  BY <1>f DEF Final, Lineage
<1>1. Activation(d)' /\ Awaited(d)'
  BY DEF Activation, AtRest, Awaited
<1>2. Born(d)'
  <2>1. pc'[d] \in {"idle", "body", "dynamic", "allocated", "ready", "constructed", "transform"} => pc'[d] = pc[d]
    BY DEF AtRest
  <2>2. Born(d)
    BY DEF StatementInv
  <2>3. ASSUME NEW u \in Lineage(d)
        PROVE  (native'[u] = "none" => phase'[u] = "Prepared") /\ (phase'[u] \in {"Bound", "Sealed"} => native'[u] = "enforced")
    <3>1. Settling(u)
      OBVIOUS
    <3> QED  BY <2>2, <3>1, SettlingLasts DEF Born
  <2> QED  BY <1>g, <2>1, <2>2, <2>3, SettlingLasts DEF Born
<1>3. Admitter(d)'
  <2>1. call[d].stage # "admit" /\ call[Driver].stage # "admit"
    BY NoCallIdle DEF StatementInv, Activation, AtRest
  <2> QED  BY <2>1, SettlingLasts DEF StatementInv, Admitter
<1>4. Result(d)'
  <2>1. pc'[d] # "unregister"
    BY DEF AtRest
  <2>2. ASSUME pc'[d] = "done" PROVE (Admitted(f)' \/ native'[f] = "dead") /\ SealedOrDead(f)'
    <3>1. CASE pc[d] = "done"
      <4>1. (Admitted(f) \/ native[f] = "dead") /\ SealedOrDead(f)
        BY <1>f, <3>1 DEF StatementInv, Result
      <4>2. Admitted(f) => Admitted(f)'
        BY <1>g, SettlingLasts DEF Admitted
      <4> QED  BY <1>g, <4>1, <4>2, SettlingLasts
    <3>2. CASE pc[d] # "done"
      <4>1. phase[f] = "Sealed" /\ native[f] = "enforced"
        BY <1>f, <1>g, <2>2, <3>2 DEF StatementInv, Born
      <4> QED  BY <1>g, <4>1, SettlingLasts DEF Admitted, SealedOrDead
    <3> QED  BY <3>1, <3>2
  <2> QED  BY <1>g, <2>1, <2>2, NoCallIdle DEF Result
<1>5. Interpreting(d)'
  BY DEF StatementInv, Interpreting, Live, AtRest
<1>6. Forgets(d)'
  BY DEF StatementInv, Forgets, AtRest
<1> QED  BY <1>1, <1>2, <1>3, <1>4, <1>5, <1>6 DEF StatementInv

\* The interpreter's drain: the type is settled, or the import fails with it.
LEMMA DrainInterpreterLife ==
    ASSUME IInv, LifeInv, DrainInterpreter PROVE LifeInv'
<1>t. PICK t \in Types :
         /\ t = Head(records)
         /\ module' = IF Settles(t) THEN module ELSE "Failed"
         /\ LET refuse == ~Settles(t) /\ Constructed(t) /\ phase[t] \in {"Pending", "Admitting"}
            IN
            /\ native' = IF MayDispose(t) THEN [native EXCEPT ![t] = "dynamic"]
                         ELSE IF refuse THEN FailLineages(native, {t[1]}) ELSE native
            /\ phase' = [phase EXCEPT ![t] = IF MayDispose(t) THEN "Discarded"
                                             ELSE IF refuse THEN "Terminal" ELSE @]
  BY DEF DrainInterpreter
<1>d. PICK d \in Defs : d = t[1]
  BY Lineages
<1>0. StatementInv(d) /\ LifeTyped /\ Typed /\ t \in Lineage(d) /\ \A u \in Lineage(d) : u \in Types /\ u[1] = d
  BY <1>d, Lineages DEF LifeInv, Lineage, IInv
<1>1. /\ UNCHANGED <<lane, kind, pc, plan, invocation, applied, exited, call>> /\ lane = "interpreter" /\ Live
      /\ records # <<>> /\ records' = Tail(records) /\ (module' = module \/ module' = "Failed")
  BY <1>t DEF DrainInterpreter, Live
<1>2. call[Driver] = NoCall /\ call[Driver].type \notin Types /\ call[Driver].stage = "none"
  BY <1>1, DriverIdle
<1>3. /\ records \in Seq(Types) /\ records' \in Seq(Types)
      /\ \A u : (Registered(u)' => Registered(u)) /\ (u # t => (Registered(u)' <=> Registered(u)))
  <2>1. /\ records \in Seq(Types) /\ records' \in Seq(Types)
        /\ Elements(records) = Elements(records') \cup {t}
    <3>1. records \in Seq(Types) /\ records # <<>> /\ records' = Tail(records) /\ t = Head(records)
      BY <1>0, <1>t, <1>1 DEF LifeTyped
    <3> QED  BY <3>1, TailElements
  <2>2. \A u : (Registered(u)' <=> u \in Elements(records')) /\ (Registered(u) <=> u \in Elements(records))
    BY <2>1, RegisteredElements
  <2> QED  BY <2>1, <2>2
<1>4. /\ \A u \in Types : u[1] # d => native'[u] = native[u] /\ phase'[u] = phase[u]
      /\ \A u \in Types : Settling(u)
      /\ module' # "Failed" => \A u \in Types : \/ native'[u] = native[u] /\ phase'[u] = phase[u]
                                                \/ u = t /\ MayDispose(t) /\ native'[u] = "dynamic" /\ phase'[u] = "Discarded"
  <2>1. CASE MayDispose(t)
    <3>1. phase[t] = "Pending" /\ native[t] = "pending" /\ phase' = [phase EXCEPT ![t] = "Discarded"]
          /\ native' = [native EXCEPT ![t] = "dynamic"]
      BY <1>t, <2>1 DEF MayDispose
    <3> QED  BY <1>0, <1>d, <2>1, <3>1 DEF Typed, Settling
  <2>2. CASE ~MayDispose(t) /\ ~Settles(t) /\ Constructed(t) /\ phase[t] \in {"Pending", "Admitting"}
    <3>1. native' = FailLineages(native, {t[1]}) /\ phase' = [phase EXCEPT ![t] = "Terminal"] /\ module' = "Failed"
      BY <1>t, <2>2
    <3>2. \A u \in Types : \/ native'[u] = native[u]
                           \/ u[1] = t[1] /\ native[u] \in {"pending", "admitting"} /\ native'[u] = "failed"
      BY <3>1 DEF FailLineages
    <3> QED  BY <1>0, <1>d, <2>2, <3>1, <3>2 DEF Typed, Settling
  <2>3. CASE ~MayDispose(t) /\ ~(~Settles(t) /\ Constructed(t) /\ phase[t] \in {"Pending", "Admitting"})
    <3>1. native' = native /\ phase' = [phase EXCEPT ![t] = phase[t]]
      BY <1>t, <2>3
    <3> QED  BY <1>0, <3>1 DEF Typed, Settling
  <2> QED  BY <2>1, <2>2, <2>3
<1>5. LifeTyped' /\ OneAtATime' /\ DriverCall'
  BY <1>1, <1>3 DEF LifeInv, LifeTyped, OneAtATime, DriverCall
<1>6. ASSUME NEW e \in Defs, e # d PROVE StatementInv(e)'
  <2>1. \A u \in Lineage(e) : u \in Types /\ u # t /\ u[1] # d
    BY <1>d, <1>6, Lineages DEF Lineage
  <2>2. Untouched(e)
    BY <1>1, <1>2, <1>3, <1>4, <2>1 DEF Untouched
  <2> QED  BY <2>2, UntouchedStep DEF LifeInv
<1>7. StatementInv(d)'
  <2>f. PICK f : f = Final(d)
    OBVIOUS
  <2>g. f \in Lineage(d) /\ Final(d)' = f /\ Original(d) \in Lineage(d) /\ Replacement(d) \in Lineage(d)
    BY <1>1, <2>f DEF Final, Lineage
  <2>1. Activation(d)' /\ Awaited(d)'
    BY <1>0, <1>1, <2>f, <2>g DEF StatementInv, Activation, Awaited
  <2>2. Born(d)'
    <3>1. ASSUME NEW u \in Lineage(d)
          PROVE  (native'[u] = "none" => phase'[u] = "Prepared") /\ (phase'[u] \in {"Bound", "Sealed"} => native'[u] = "enforced")
                 /\ (native[u] = "none" => native'[u] = "none")
      <4>1. Settling(u)
        BY <1>0, <1>4
      <4> QED  BY <1>0, <4>1, SettlingLasts DEF StatementInv, Born
    <3> QED  BY <1>0, <1>1, <2>g, <3>1 DEF StatementInv, Born
  <2>3. Admitter(d)'
    BY <1>0, <1>1, <1>4, SettlingLasts DEF StatementInv, Admitter
  <2>4. Result(d)'
    <3>1. Settling(f)
      BY <1>0, <1>4, <2>g
    <3>2. Admitted(f) => Admitted(f)'
      BY <1>1, <3>1, SettlingLasts DEF Admitted
    <3>3. /\ native[f] = "dead" => native'[f] = "dead"
          /\ phase[f] = "Sealed" => phase'[f] = "Sealed"
          /\ SealedOrDead(f) => SealedOrDead(f)'
      BY <3>1, SettlingLasts
    <3>4. Result(d)
      BY <1>0 DEF StatementInv
    <3> QED  BY <1>0, <1>1, <1>2, <2>f, <2>g, <3>2, <3>3, <3>4 DEF Result
  <2>5. OwnFailure(d)'
    BY <1>0, <1>1, <1>4 DEF StatementInv, OwnFailure
  <2>6. Forgets(d)'
    BY <1>0, <1>1 DEF StatementInv, Forgets
  <2>7. Interpreting(d)'
    <3>1. CASE module' = "Failed"
      BY <1>0, <1>1, <3>1 DEF StatementInv, Interpreting, Live
    <3>2. CASE module' # "Failed"
      <4>1. MayDispose(t) => t # f /\ native[f] # "none"
        BY <1>d, <2>f DEF MayDispose, Resolved, IInv, FinalOnly
      <4>2. MayDispose(t) /\ t = Original(d) => f = Replacement(d)
        BY <2>f, <4>1 DEF Final
      <4>3. pc[d] \in {"ready", "constructed"} => ~(MayDispose(t) /\ t = Original(d))
        BY <1>0, <4>1, <4>2 DEF StatementInv, Born
      <4>4. pc[d] \in {"ready", "constructed"} =>
              native'[Original(d)] = native[Original(d)] /\ phase'[Original(d)] = phase[Original(d)]
        BY <1>0, <1>4, <2>g, <3>2, <4>3
      <4>5. native'[f] = native[f] /\ phase'[f] = phase[f]
        BY <1>0, <1>4, <2>g, <3>2, <4>1
      <4>6. Constructed(f) => Constructed(f)'
        BY <3>2, <4>5 DEF Constructed, Live
      <4>7. Interpreting(d)
        BY <1>0 DEF StatementInv
      <4> QED  BY <1>1, <1>3, <2>f, <2>g, <4>4, <4>6, <4>7 DEF Interpreting
    <3> QED  BY <3>1, <3>2
  <2> QED  BY <2>1, <2>2, <2>3, <2>4, <2>5, <2>6, <2>7 DEF StatementInv
<1> QED  BY <1>5, <1>6, <1>7 DEF LifeInv

\* complete_remaining_classes settles types of its own call, and closes only the
\* lineage of a live recorded construction.
LEMMA RemainingFacts ==
    ASSUME IInv, NEW v, NEW recs \in Seq(Types), CompleteRemaining(v, recs), NEW ts,
           records \in Seq(Types), Elements(recs) = Elements(records) \ ts
    PROVE  /\ \A u \in Types : Settling(u)
           /\ \A u \in Types : CallOf[u[1]] # v => native'[u] = native[u] /\ phase'[u] = phase[u]
           /\ \A u \in Types : native'[u] = "failed" /\ native[u] # "failed" =>
                \E w \in Refused(v, recs) : w[1] = u[1]
           /\ \A w \in Refused(v, recs) : w \in Types /\ CallOf[w[1]] = v /\ Constructed(w) /\ Registered(w)
           /\ records' \in Seq(Types)
           /\ \A u \in Types : Registered(u)' <=> (Registered(u) /\ u \notin ts /\ CallOf[u[1]] # v)
<1> DEFINE disposed == {t \in Settled(v, recs) : phase[t] # "Sealed"}
           refused == Refused(v, recs)
           n == [t \in Types |-> IF t \in disposed THEN "dynamic" ELSE native[t]]
<1>1. /\ native' = FailLineages(n, {t[1] : t \in refused})
      /\ phase' = [t \in Types |-> IF t \in disposed THEN "Discarded"
                                   ELSE IF t \in refused THEN "Terminal" ELSE phase[t]]
      /\ records' = Remove(recs, Remaining(v, recs))
  BY DEF CompleteRemaining
<1>2. \A t \in disposed : t \in Types /\ CallOf[t[1]] = v /\ phase[t] = "Pending" /\ native[t] = "pending"
  BY DEF Settled, Remaining, Settles, MayDispose
<1>3. \A t \in refused : /\ t \in Types /\ CallOf[t[1]] = v /\ Constructed(t) /\ t \in Elements(recs)
                         /\ phase[t] \in {"Pending", "Admitting"}
  BY SMTT(20) DEF Refused, Remaining, Elements
<1>4. \A u : (u \in Remaining(v, recs)) <=> (u \in Types /\ CallOf[u[1]] = v /\ u \in Elements(recs))
  BY SMTT(20) DEF Remaining, Elements
<1>5. \A u \in Types : native'[u] = IF u[1] \in {t[1] : t \in refused} /\ n[u] \in {"pending", "admitting"}
                                    THEN "failed" ELSE n[u]
  BY <1>1 DEF FailLineages
<1>6. \A u \in Types : n[u] = IF u \in disposed THEN "dynamic" ELSE native[u]
  OBVIOUS
<1>7. \A u \in Types : phase'[u] = IF u \in disposed THEN "Discarded"
                                   ELSE IF u \in refused THEN "Terminal" ELSE phase[u]
  BY <1>1
<1> HIDE DEF disposed, refused, n
<1>8. \A u \in Types : u[1] \in {t[1] : t \in refused} <=> \E w \in refused : w[1] = u[1]
  OBVIOUS
<1>9. \A u \in Types : \/ native'[u] = native[u]
                       \/ native[u] \in {"pending", "admitting"} /\ native'[u] = "dynamic" /\ CallOf[u[1]] = v
                       \/ /\ native[u] \in {"pending", "admitting"} /\ native'[u] = "failed" /\ CallOf[u[1]] = v
                          /\ \E w \in refused : w[1] = u[1]
  BY <1>2, <1>3, <1>5, <1>6, <1>8, SMTT(20)
<1>10. \A u \in Types : \/ phase'[u] = phase[u]
                        \/ /\ phase[u] \in {"Pending", "Admitting"} /\ phase'[u] \in {"Terminal", "Discarded"}
                           /\ CallOf[u[1]] = v
  BY <1>2, <1>3, <1>7
<1>11. \A u \in Types : Settling(u)
  BY <1>9, <1>10 DEF Settling
<1>12. \A u \in Types : CallOf[u[1]] # v => native'[u] = native[u] /\ phase'[u] = phase[u]
  BY <1>9, <1>10
<1>13. \A u \in Types : native'[u] = "failed" /\ native[u] # "failed" => \E w \in refused : w[1] = u[1]
  BY <1>9
<1>14. records' \in Seq(Types) /\ Elements(records') = Elements(recs) \ Remaining(v, recs)
  <2> DEFINE R == Remaining(v, recs)
  <2>1. records' = Remove(recs, R)
    BY <1>1
  <2> HIDE DEF R
  <2>2. records' \in Seq(Types) /\ Elements(records') = Elements(recs) \ R
    BY <2>1, RemoveFacts
  <2> QED  BY <2>2 DEF R
<1>15. \A u : (Registered(u)' <=> u \in Elements(records')) /\ (Registered(u) <=> u \in Elements(records))
  BY <1>14, RegisteredElements
<1>16. \A w \in refused : w \in Types /\ CallOf[w[1]] = v /\ Constructed(w) /\ Registered(w)
  BY <1>3, <1>15
<1>17. \A u \in Types : Registered(u)' <=> (Registered(u) /\ u \notin ts /\ CallOf[u[1]] # v)
  BY <1>4, <1>14, <1>15
<1> QED  BY <1>11, <1>12, <1>13, <1>14, <1>16, <1>17 DEF refused

\* A call returns: what it left is settled.
LEMMA ReturnLife ==
    ASSUME IInv, LifeInv, NEW v, Return(v) PROVE LifeInv'
<1>1. /\ UNCHANGED <<lane, kind, pc, plan, invocation, applied, module, call>> /\ lane = "interpreter"
      /\ exited' = exited \union {v} /\ CompleteRemaining(v, records)
      /\ \A d \in Defs : CallOf[d] = v => pc[d] \in AtRest
  BY DEF Return
<1>2. call[Driver] = NoCall /\ call[Driver].type \notin Types /\ call[Driver].stage = "none"
  BY <1>1, DriverIdle
<1>3. /\ \A u \in Types : Settling(u)
      /\ \A u \in Types : CallOf[u[1]] # v => native'[u] = native[u] /\ phase'[u] = phase[u]
      /\ records' \in Seq(Types)
      /\ \A u \in Types : Registered(u)' <=> (Registered(u) /\ CallOf[u[1]] # v)
  <2>t. PICK ts : ts = {}
    OBVIOUS
  <2>r. PICK recs : recs = records
    OBVIOUS
  <2>1. /\ records \in Seq(Types) /\ recs \in Seq(Types) /\ Elements(recs) = Elements(records) \ ts
        /\ CompleteRemaining(v, recs)
    BY <1>1, <2>t, <2>r DEF LifeInv, LifeTyped
  <2>2. /\ \A u \in Types : Settling(u)
        /\ \A u \in Types : CallOf[u[1]] # v => native'[u] = native[u] /\ phase'[u] = phase[u]
        /\ \A u \in Types : native'[u] = "failed" /\ native[u] # "failed" =>
             \E w \in Refused(v, recs) : w[1] = u[1]
        /\ \A w \in Refused(v, recs) : w \in Types /\ CallOf[w[1]] = v /\ Constructed(w) /\ Registered(w)
        /\ records' \in Seq(Types)
        /\ \A u \in Types : Registered(u)' <=> (Registered(u) /\ u \notin ts /\ CallOf[u[1]] # v)
    BY <2>1, RemainingFacts
  <2> QED  BY <2>t, <2>2
<1>4. LifeTyped' /\ OneAtATime' /\ DriverCall'
  BY <1>1, <1>3 DEF LifeInv, LifeTyped, OneAtATime, DriverCall
<1>5. ASSUME NEW d \in Defs PROVE StatementInv(d)'
  <2>0. StatementInv(d) /\ \A u \in Lineage(d) : u \in Types /\ u[1] = d
    BY Lineages DEF LifeInv, Lineage
  <2>1. CASE CallOf[d] # v
    <3>1. Untouched(d)
      BY <1>1, <1>3, <2>0, <2>1 DEF Untouched
    <3> QED  BY <2>0, <3>1, UntouchedStep
  <2>2. CASE CallOf[d] = v
    <3>1. pc[d] \in AtRest /\ call[d] = NoCall
      BY <1>1, <2>0, <2>2 DEF StatementInv, Activation, AtRest
    <3>2. OwnFailure(d)'
      BY <1>1, <2>2 DEF OwnFailure
    <3>3. \A u \in Lineage(d) : Settling(u) /\ ~Registered(u)'
      BY <1>3, <2>0, <2>2
    <3> QED  BY <1>1, <1>2, <2>0, <3>1, <3>2, <3>3, SettledRest
  <2> QED  BY <2>1, <2>2
<1> QED  BY <1>4, <1>5 DEF LifeInv

\* A definition is stored: its class is final, and what the call left is settled.
LEMMA StoreCompletesLife ==
    ASSUME IInv, LifeInv, NEW d \in Defs, StoreCompletes(d) PROVE LifeInv'
<1>f. PICK f : f = Final(d)
  OBVIOUS
<1>v. PICK v : v = CallOf[d]
  OBVIOUS
<1>r. PICK recs : recs = Remove(records, {f})
  OBVIOUS
<1>0. /\ StatementInv(d) /\ LifeTyped /\ Typed /\ f \in Lineage(d)
      /\ \A u \in Lineage(d) : u \in Types /\ u[1] = d
  BY <1>f, Lineages DEF LifeInv, IInv, Lineage, Final
<1>1. /\ UNCHANGED <<lane, kind, plan, invocation, applied, module, exited>> /\ lane = "interpreter"
      /\ pc[d] = "finalize" /\ call[d].stage = "ok" /\ CompleteRemaining(v, recs)
      /\ Goto(d, IF Settled(v, recs) = Remaining(v, recs) THEN "done" ELSE "raised") /\ Leave(d)
  BY <1>f, <1>v, <1>r DEF StoreCompletes
<1>2. call[Driver] = NoCall /\ call[Driver].type \notin Types /\ call[Driver].stage = "none"
  BY <1>1, DriverIdle
<1>3. call'[d] = NoCall /\ (\A e \in Defs \ {d} : call'[e] = call[e]) /\ call'[Driver] = call[Driver]
  BY <1>1, LeaveFacts, DriverApart DEF Leave
<1>4. /\ pc' \in [Defs -> Pcs] /\ (\A e \in Defs \ {d} : pc'[e] = pc[e]) /\ pc'[d] \in {"done", "raised"}
      /\ pc'[d] = "done" => Settled(v, recs) = Remaining(v, recs)
  <2>1. pc \in [Defs -> Pcs] /\ {"done", "raised"} \subseteq Pcs
    BY <1>0 DEF LifeTyped, Pcs, AtRest
  <2>2. CASE Settled(v, recs) = Remaining(v, recs)
    <3>1. pc' = [pc EXCEPT ![d] = "done"]
      BY <1>1, <2>2 DEF Goto
    <3> QED  BY <2>1, <2>2, <3>1
  <2>3. CASE Settled(v, recs) # Remaining(v, recs)
    <3>1. pc' = [pc EXCEPT ![d] = "raised"]
      BY <1>1, <2>3 DEF Goto
    <3> QED  BY <2>1, <3>1
  <2> QED  BY <2>2, <2>3
<1>5. /\ \A u \in Types : Settling(u)
      /\ \A u \in Types : CallOf[u[1]] # v => native'[u] = native[u] /\ phase'[u] = phase[u]
      /\ \A u \in Types : native'[u] = "failed" /\ native[u] # "failed" => \E w \in Refused(v, recs) : w[1] = u[1]
      /\ \A w \in Refused(v, recs) : w \in Types /\ CallOf[w[1]] = v /\ Constructed(w) /\ Registered(w)
      /\ records' \in Seq(Types)
      /\ \A u \in Types : Registered(u)' <=> (Registered(u) /\ u \notin {f} /\ CallOf[u[1]] # v)
  <2>1. records \in Seq(Types)
    BY <1>0 DEF LifeTyped
  <2>2. recs \in Seq(Types) /\ Elements(recs) = Elements(records) \ {f}
    BY <1>r, <2>1, RemoveFacts
  <2> QED  BY <1>1, <2>1, <2>2, RemainingFacts
<1>6. \A u \in Types : CallOf[u[1]] # v => u # f
  BY <1>0, <1>v
<1>7. LifeTyped' /\ DriverCall'
  BY <1>0, <1>1, <1>3, <1>4, <1>5 DEF LifeInv, LifeTyped, DriverCall
<1>8. OneAtATime'
  <2>1. pc'[d] \in AtRest
    BY <1>4 DEF AtRest
  <2> QED  BY <1>4, <2>1 DEF LifeInv, OneAtATime
<1>9. StatementInv(d)'
  <2>1. phase[f] = "Sealed"
    BY <1>0, <1>1, <1>f DEF StatementInv, Activation, Result
  <2>2. pc'[d] = "done" => Refused(v, recs) = {}
    BY <1>4 DEF Refused
  <2>3. OwnFailure(d)'
    BY <1>0, <1>1, <1>2, <1>4, <1>5, <2>2 DEF StatementInv, OwnFailure
  <2>4. \A u \in Lineage(d) : Settling(u) /\ ~Registered(u)'
    BY <1>0, <1>5, <1>v
  <2>5. pc[d] \notin AtRest
    BY <1>1 DEF AtRest
  <2> QED  BY <1>0, <1>1, <1>2, <1>3, <1>4, <1>f, <2>1, <2>3, <2>4, <2>5, SettledRest
<1>10. ASSUME NEW e \in Defs, e # d PROVE StatementInv(e)'
  <2>0. StatementInv(e) /\ \A u \in Lineage(e) : u \in Types /\ u[1] = e
    BY Lineages DEF LifeInv, Lineage
  <2>1. CASE CallOf[e] # v
    <3>1. Untouched(e)
      BY <1>1, <1>3, <1>4, <1>5, <1>6, <1>10, <2>0, <2>1 DEF Untouched
    <3> QED  BY <2>0, <3>1, UntouchedStep
  <2>2. CASE CallOf[e] = v
    <3>1. pc[e] \in AtRest /\ pc'[e] = pc[e]
      BY <1>1, <1>4, <1>10, <1>v, <2>2 DEF LifeInv, OneAtATime, AtRest
    <3>2. call[e] = NoCall /\ call'[e] = NoCall
      BY <1>3, <1>10, <2>0, <3>1 DEF StatementInv, Activation, AtRest
    <3>3. ASSUME NEW w \in Refused(v, recs), w[1] = e PROVE pc[e] = "raised"
      <4>1. w \in Lineage(e) /\ Constructed(w) /\ Registered(w) /\ Live
        BY <1>5, <3>3, Lineages DEF Lineage, Constructed, Refused
      <4>2. native[w] # "none"
        BY <4>1 DEF Constructed
      <4>3. pc[e] \notin {"idle", "dynamic"}
        BY <2>0, <4>1, <4>2 DEF StatementInv, Born, Lineage
      <4>4. pc[e] \notin {"foreign", "done"}
        BY <1>1, <2>0, <4>1 DEF StatementInv, Interpreting
      <4> QED  BY <3>1, <4>3, <4>4 DEF AtRest
    <3>4. OwnFailure(e)'
      <4> SUFFICES ASSUME NEW u \in Lineage(e), native'[u] = "failed", pc[e] # "raised"
                   PROVE  CallOf[e] \in exited \/ module = "Failed"
        BY <1>1, <3>1 DEF OwnFailure
      <4>1. native[u] = "failed"
        BY <1>5, <2>0, <3>3, SMTT(20)
      <4> QED  BY <1>2, <2>0, <3>2, <4>1 DEF StatementInv, OwnFailure, NoCall
    <3>5. \A u \in Lineage(e) : Settling(u) /\ ~Registered(u)'
      BY <1>5, <2>0, <2>2, SMTT(20)
    <3> QED  BY <1>1, <1>2, <1>3, <2>0, <3>1, <3>2, <3>4, <3>5, SettledRest
  <2> QED  BY <2>1, <2>2
<1> QED  BY <1>7, <1>8, <1>9, <1>10 DEF LifeInv

-----------------------------------------------------------------------------
\* What becomes of the statements is inductive next to IInv.
LEMMA LifeInductive ==
    /\ Init => LifeInv
    /\ IInv /\ LifeInv /\ [Next]_vars => LifeInv'
<1>1. ASSUME Init PROVE LifeInv
  <2>1. LifeTyped /\ OneAtATime /\ DriverCall
    BY <1>1, DriverApart, SMTT(20) DEF Init, LifeTyped, OneAtATime, DriverCall, InvocationPhases, Pcs, AtRest
  <2>2. ASSUME NEW d \in Defs PROVE StatementInv(d)
    <3>1. /\ pc[d] = "idle" /\ call[d] = NoCall /\ call[Driver] = NoCall /\ applied = {} /\ records = <<>>
          /\ \A t \in Lineage(d) : native[t] = "none" /\ phase[t] = "Prepared" /\ t \in Types
          /\ Original(d) \in Lineage(d) /\ Replacement(d) \in Lineage(d)
      BY <1>1, DriverApart, Lineages DEF Init, Lineage
    <3>2. Activation(d) /\ Born(d) /\ Admitter(d) /\ OwnFailure(d) /\ Forgets(d)
      BY <3>1 DEF Activation, Born, Admitter, OwnFailure, Forgets
    <3>3. Result(d) /\ Awaited(d) /\ Interpreting(d)
      BY <3>1, Lineages, NoCallIdle DEF Result, Awaited, Waits, Interpreting
    <3> QED  BY <3>2, <3>3 DEF StatementInv
  <2> QED  BY <2>1, <2>2 DEF LifeInv
<1>2. ASSUME IInv, LifeInv, [Next]_vars PROVE LifeInv'
  <2>1. ASSUME NEW d \in Defs, Statement(d) PROVE LifeInv'
    BY <1>2, <2>1, PrepareLife, ConstructLife, ConstructFailsLife, RegisterLife, PlainLife, PlainFailsLife DEF Statement
  <2>2. ASSUME NEW d \in Defs, Application(d) PROVE LifeInv'
    BY <1>2, <2>2, ApplyLife, RefusedLife, ReplacementLife, SelectLife, DisposeLife, ResultLife DEF Application
  <2>3. ASSUME NEW d \in Defs, Interpreted(d) PROVE LifeInv'
    BY <1>2, <2>3, ApplyLife, StoreLife, StoreCompletesLife, PlainFailsLife DEF Interpreted
  <2>4. ASSUME NEW a \in Actors, CompleteClass(a) PROVE LifeInv'
    BY <1>2, <2>4, OwnWorkLife, DriverWorkLife DEF Actors
  <2>5. ASSUME NEW v, Return(v) PROVE LifeInv'
    BY <1>2, <2>5, ReturnLife
  <2>6. ASSUME Import PROVE LifeInv'
    BY <1>2, <2>6, IdleLife, DrainTakeLife, DrainNextLife, DrainInterpreterLife, FinishSealingLife DEF Import
  <2>7. ASSUME \E t \in Types : Spoil(t) \/ Die(t) PROVE LifeInv'
    BY <1>2, <2>7, IdleLife, DieLife
  <2>8. ASSUME UNCHANGED vars PROVE LifeInv'
    BY <1>2, <2>8, IdleLife
  <2> QED  BY <1>2, <2>1, <2>2, <2>3, <2>4, <2>5, <2>6, <2>7, <2>8 DEF Next, Terminated
<1> QED  BY <1>1, <1>2

\* Whoever completes a class, in whatever order the statements, the returns and the
\* import interleave, a type opens only as the selected result with its requirements
\* bound to it and its namespace unchanged, or as a provisional whose lineage has
\* selected another (commit_pending_type, dispose_unselected_provisional).
THEOREM SelectedOnly == Spec => []OpenIsSelected
<1>1. IInv => OpenIsSelected
  BY DEF IInv
<1> QED
  BY <1>1, Inductive, PTL DEF Spec

\* Whatever interleaving of statements, returns, deaths and drains: a statement that
\* completed delivered an admitted type, and a sealed module has sealed it
\* (construct_class, complete_definition, the drain of the module).
THEOREM CompletedIsFinalHolds == Spec => []CompletedIsFinal
<1>1. LifeInv => CompletedIsFinal
  BY DEF LifeInv, StatementInv, Result, Admitted, SealedOrDead, CompletedIsFinal
<1> QED  BY <1>1, Inductive, LifeInductive, PTL DEF Spec

\* A lineage is closed only by its own statement, by the return of its own call or by a
\* failing import (next_interpreter_pending_class, forget_failed_dataclass).
THEOREM FailureIsOwnHolds == Spec => []FailureIsOwn
<1>1. LifeInv => FailureIsOwn
  <2>1. \A t \in Types : t[1] \in Defs /\ t \in Lineage(t[1])
    BY Lineages DEF Lineage
  <2> QED  BY <2>1 DEF LifeInv, StatementInv, OwnFailure, FailureIsOwn
<1> QED  BY <1>1, Inductive, LifeInductive, PTL DEF Spec

\* A caught failure of a decorator leaves no record for a later drain of compiled code
\* (apply_class_decorator, forget_failed_dataclass).
THEOREM ApplicationForgottenHolds == Spec => []ApplicationForgotten
<1>1. LifeInv => ApplicationForgotten
  <2>1. \A t \in Types : t[1] \in Defs /\ t \in Lineage(t[1])
    BY Lineages DEF Lineage
  <2> QED  BY <2>1 DEF LifeInv, StatementInv, Forgets, ApplicationForgotten
<1> QED  BY <1>1, Inductive, LifeInductive, PTL DEF Spec
=============================================================================
