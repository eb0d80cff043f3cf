--------------------------- MODULE ModuleImportProofs ---------------------------
(***************************************************************************)
(* Proofs about ModuleImport for any number of exec_module calls and any   *)
(* definitions: an executed module is settled when no call is running, a   *)
(* publication leaves nothing unsettled, and the two drivers implement the *)
(* strict namespace.                                                       *)
(***************************************************************************)
EXTENDS ModuleImport, SequenceLemmas

USE ZenonT(30)

\* Where a call is between its entry and its end.
Claiming == {"taken", "entering", "begun"}
Draining == {"drain", "finalize", "publish", "bind", "owners"}
Working == Claiming \cup {"body", "returned"} \cup Draining

\* What may become of an object.
Lives == {"unborn", "open", "final", "declined", "disposed", "refused", "leased", "dead"}

\* What the variables hold.
TypeInv ==
    /\ backend \in {"soac", "cpython"}
    /\ phase \in {"Discovered", "Initializing", "Sealing", "Sealed", "Failed", "Terminal"}
    /\ handle \in {"absent", "installing", "held", "released"}
    /\ queue \in Seq(Objects) /\ caps \in Seq(Objects)
    /\ life \in [Objects -> Lives]
    /\ pc \in [Calls -> Working \cup Resting \cup {"failing"}]
    /\ target \in [Calls -> Objects \cup {Nothing}]
    /\ \A c \in Calls : pc[c] \in {"finalize", "bind"} => target[c] \in Objects

\* The phase is open only while the module state is held and its owner lives, and
\* no call starts before the installation is over.
HandleInv ==
    /\ handle \in {"absent", "installing"} =>
         phase \in {"Discovered", "Terminal"} /\ \A c \in Calls : pc[c] = "idle"
    /\ phase \in {"Initializing", "Sealing"} => handle = "held"
    /\ phase = "Discovered" => handle \in {"absent", "installing"}
    /\ ~ownerLive => phase = "Terminal"

\* The one execution is claimed in the policy (SOAC) or by taking the root code
\* (interpreter), so at most one call is at work.
Claimed == IF backend = "soac" THEN started = TRUE ELSE rootCode = FALSE

ClaimInv ==
    /\ \A c \in Calls : pc[c] \in Working => Claimed
    /\ \A c, d \in Calls : pc[c] \in Working /\ pc[d] \in Working => c = d
    /\ \A c \in Calls : /\ pc[c] \in {"taken", "entering"} => backend = "cpython"
                        /\ pc[c] = "begun" => backend = "soac"
    /\ backend = "cpython" /\ rootCode = FALSE => \E c \in Calls : pc[c] # "idle"

\* Before the body is entered nothing is declared, and before it returns nothing
\* is sealed.
EntryInv ==
    /\ \A c \in Calls : pc[c] \in Claiming => entered = FALSE
    /\ entered = TRUE => Claimed
    /\ \A c \in Calls : pc[c] \in {"entering", "begun", "body", "returned"} => started = TRUE
    /\ \A c \in Calls : pc[c] \in Claiming \cup {"body", "returned"} => phase \notin {"Sealing", "Sealed"}
    /\ phase \in {"Sealing", "Sealed"} => Claimed
    /\ started \in BOOLEAN /\ entered \in BOOLEAN /\ rootCode \in BOOLEAN /\ ownerLive \in BOOLEAN

\* An executed module that is neither published nor closed has a call at work.
RestInv ==
    phase \in {"Initializing", "Sealing"} /\ (\E c \in Calls : pc[c] # "idle")
    => \E c \in Calls : pc[c] \notin Resting

\* Nothing is born before the body is entered, and what the registries or a call
\* hold has been born.
BornInv ==
    /\ entered = FALSE => \A o \in Objects : life[o] = "unborn"
    /\ \A o \in Elements(queue) \cup Elements(caps) : life[o] # "unborn"
    /\ \A c \in Calls : target[c] \in Objects => life[target[c]] # "unborn"

\* While the executing call is on its way, an open definition is in the queue or
\* in its hands.
OpenInv ==
    \A c \in Calls : pc[c] \in {"body", "returned"} \cup Draining =>
        \A o \in Objects : life[o] = "open" =>
            o \in Elements(queue) \/ (pc[c] = "finalize" /\ target[c] = o)

IInv == TypeInv /\ HandleInv /\ ClaimInv /\ EntryInv /\ RestInv /\ BornInv /\ OpenInv

--------------------------------------------------------------------------------
\* What SubSeq leaves of a sequence whose first i elements are taken away.
LEMMA SuffixElements ==
    ASSUME NEW S, NEW s \in Seq(S), NEW i \in 1..Len(s)
    PROVE  /\ SubSeq(s, i + 1, Len(s)) \in Seq(S)
           /\ Elements(SubSeq(s, i + 1, Len(s))) \subseteq Elements(s)
           /\ \A j \in 1..Len(s) : j <= i \/ s[j] \in Elements(SubSeq(s, i + 1, Len(s)))
<1> DEFINE r == SubSeq(s, i + 1, Len(s))
<1>0. Len(s) \in Nat /\ \A j \in 1..Len(s) : s[j] \in S
  BY SMTT(20)
<1>1. r \in Seq(S) /\ Len(r) = Len(s) - i /\ \A j \in 1..(Len(s) - i) : r[j] = s[i + j]
  BY <1>0, SMTT(20)
<1> HIDE DEF r
<1>2. ASSUME NEW j \in 1..Len(r) PROVE r[j] \in Elements(s)
  <2>1. i + j \in 1..Len(s) /\ r[j] = s[i + j]
    BY <1>0, <1>1, SMTT(20)
  <2> QED
    BY <2>1 DEF Elements
<1>3. ASSUME NEW j \in 1..Len(s), ~(j <= i) PROVE s[j] \in Elements(r)
  <2>1. j - i \in 1..Len(r) /\ r[j - i] = s[j]
    BY <1>0, <1>1, <1>3, SMTT(20)
  <2> QED
    BY <2>1 DEF Elements
<1>4. Elements(r) \subseteq Elements(s)
  BY <1>2 DEF Elements
<1> QED
  BY <1>1, <1>3, <1>4 DEF r

\* The positions of a sequence are the numbers up to its length.
LEMMA Positions ==
    ASSUME NEW S, NEW s \in Seq(S)
    PROVE  /\ DOMAIN s = 1..Len(s)
           /\ \A i \in 1..Len(s) : s[i] \in S /\ s[i] \in Elements(s)
           /\ Elements(<<>>) = {} /\ <<>> \in Seq(S)
           /\ \A o \in Elements(s) : o \in S
BY SMTT(20) DEF Elements

--------------------------------------------------------------------------------
\* A call that changes its place leaves the others where they are.
LEMMA Moved ==
    ASSUME TypeInv, NEW c \in Calls, NEW l \in Working \cup Resting \cup {"failing"},
           pc' = [pc EXCEPT ![c] = l]
    PROVE  /\ pc' \in [Calls -> Working \cup Resting \cup {"failing"}]
           /\ pc'[c] = l /\ \A d \in Calls : d # c => pc'[d] = pc[d]
BY SMTT(20) DEF TypeInv

\* A call that moves without a target of its own keeps the types of the calls.
LEMMA GoToTypes ==
    ASSUME TypeInv, NEW c \in Calls, NEW l \in Working \cup Resting \cup {"failing"},
           GoTo(c, l), l \notin {"finalize", "bind"}
    PROVE  /\ pc' \in [Calls -> Working \cup Resting \cup {"failing"}]
           /\ target' \in [Calls -> Objects \cup {Nothing}]
           /\ \A d \in Calls : pc'[d] \in {"finalize", "bind"} => target'[d] \in Objects
<1>1. /\ pc' \in [Calls -> Working \cup Resting \cup {"failing"}]
      /\ pc'[c] = l /\ \A d \in Calls : d # c => pc'[d] = pc[d]
  BY Moved DEF GoTo
<1> QED
  BY <1>1 DEF GoTo, TypeInv

\* So does a call that releases its target.
LEMMA DropTypes ==
    ASSUME TypeInv, NEW c \in Calls, NEW l \in {"drain", "publish", "failing"}, Drop(c, l)
    PROVE  /\ pc' \in [Calls -> Working \cup Resting \cup {"failing"}]
           /\ target' \in [Calls -> Objects \cup {Nothing}]
           /\ \A d \in Calls : pc'[d] \in {"finalize", "bind"} => target'[d] \in Objects
<1>1. /\ pc' \in [Calls -> Working \cup Resting \cup {"failing"}]
      /\ pc'[c] = l /\ \A d \in Calls : d # c => pc'[d] = pc[d]
  BY Moved DEF Drop, Working, Draining
<1>2. target' \in [Calls -> Objects \cup {Nothing}] /\ \A d \in Calls : d # c => target'[d] = target[d]
  BY SMTT(20) DEF Drop, TypeInv
<1> QED
  BY <1>1, <1>2 DEF TypeInv

\* And a call that upgrades an object of a registry.
LEMMA TakeTypes ==
    ASSUME TypeInv, NEW c \in Calls, NEW l \in {"finalize", "bind"}, NEW o \in Objects,
           pc' = [pc EXCEPT ![c] = l], target' = [target EXCEPT ![c] = o]
    PROVE  /\ pc' \in [Calls -> Working \cup Resting \cup {"failing"}]
           /\ target' \in [Calls -> Objects \cup {Nothing}]
           /\ target'[c] = o /\ \A d \in Calls : d # c => target'[d] = target[d]
           /\ \A d \in Calls : pc'[d] \in {"finalize", "bind"} => target'[d] \in Objects
<1>1. /\ pc' \in [Calls -> Working \cup Resting \cup {"failing"}]
      /\ pc'[c] = l /\ \A d \in Calls : d # c => pc'[d] = pc[d]
  BY Moved DEF Working, Draining
<1>2. /\ target' \in [Calls -> Objects \cup {Nothing}]
      /\ target'[c] = o /\ \A d \in Calls : d # c => target'[d] = target[d]
  BY SMTT(20) DEF TypeInv
<1> QED
  BY <1>1, <1>2 DEF TypeInv

\* What becomes of one object leaves the others alone, and nothing is unborn again.
LEMMA Settled ==
    ASSUME TypeInv, NEW o \in Objects, NEW l \in Lives \ {"unborn", "open"},
           life' = [life EXCEPT ![o] = l] \/ Becomes(o, l)
    PROVE  /\ life' \in [Objects -> Lives]
           /\ \A p \in Objects : p # o => life'[p] = life[p]
           /\ life'[o] \notin {"unborn", "open"}
<1>1. life \in [Objects -> Lives]
  BY DEF TypeInv
<1>2. ASSUME NEW x \in Lives \ {"unborn", "open"}, life' = [life EXCEPT ![o] = x]
      PROVE  /\ life' \in [Objects -> Lives]
             /\ \A p \in Objects : p # o => life'[p] = life[p]
             /\ life'[o] \notin {"unborn", "open"}
  BY <1>1, <1>2, SMTT(20)
<1>3. ASSUME Becomes(o, l)
      PROVE  \E x \in Lives \ {"unborn", "open"} : life' = [life EXCEPT ![o] = x]
  BY <1>3, <1>1 DEF Becomes, Lives
<1> QED
  BY <1>2, <1>3

--------------------------------------------------------------------------------
\* What a driver may move to by GoTo, and the actions that do nothing else to calls
\* and objects.
Places == (Working \cup Resting \cup {"failing"}) \ {"finalize", "bind"}

\* The places named by the actions are places.
LEMMA PlaceNames ==
    /\ {"taken", "entering", "begun", "body", "returned", "drain", "publish", "owners",
        "failing", "done", "error"} \subseteq Places
    /\ Places \subseteq Working \cup Resting \cup {"failing"}
    /\ Places \cap {"finalize", "bind"} = {}
BY DEF Places, Working, Claiming, Draining, Resting

\* The steps in which one call moves by GoTo.
GoingTo(c) ==
    \/ ExecSoac(c) \/ ExecInterpreter(c) \/ ExecCleared(c) \/ RootBegin(c) \/ RootEnter(c)
    \/ EnterInitializer(c) \/ BodyEnds(c) \/ BeginSealing(c) \/ DrainRefused(c) \/ Repeat(c)
    \/ Quiescent(c) \/ FinishSealing(c) \/ OwnersFail(c) \/ Failing(c)

\* They leave the objects and the registries alone.
LEMMA GoingToMoves ==
    ASSUME NEW c \in Calls, GoingTo(c)
    PROVE  UNCHANGED objectVars /\ UNCHANGED backend /\ \E l \in Places : GoTo(c, l)
<1>0. ASSUME NEW l \in {"taken", "entering", "begun", "body", "returned", "drain", "publish",
                        "owners", "failing", "done", "error"}
      PROVE  l \in Places
  BY PlaceNames
<1>1. CASE ExecSoac(c)
  BY <1>0, <1>1 DEF ExecSoac
<1>2. CASE ExecInterpreter(c)
  BY <1>0, <1>2 DEF ExecInterpreter
<1>3. CASE ExecCleared(c)
  BY <1>0, <1>3 DEF ExecCleared
<1>4. CASE RootBegin(c)
  BY <1>0, <1>4 DEF RootBegin
<1>5. CASE RootEnter(c)
  BY <1>0, <1>5 DEF RootEnter
<1>6. CASE EnterInitializer(c)
  BY <1>0, <1>6 DEF EnterInitializer
<1>7. CASE BodyEnds(c)
  BY <1>0, <1>7 DEF BodyEnds
<1>8. CASE BeginSealing(c)
  BY <1>0, <1>8 DEF BeginSealing
<1>9. CASE DrainRefused(c) \/ Repeat(c)
  BY <1>0, <1>9 DEF DrainRefused, Repeat
<1>10. CASE Quiescent(c) \/ OwnersFail(c)
  BY <1>0, <1>10 DEF Quiescent, OwnersFail
<1>11. CASE FinishSealing(c)
  BY <1>0, <1>11 DEF FinishSealing
<1>12. CASE Failing(c)
  BY <1>0, <1>12 DEF Failing
<1> QED
  BY <1>1, <1>2, <1>3, <1>4, <1>5, <1>6, <1>7, <1>8, <1>9, <1>10, <1>11, <1>12 DEF GoingTo

\* The steps of the module state and of the policy owner, which no call takes.
Lifecycle == Install \/ FinishInstall \/ AbortInstall \/ ReleaseHandle \/ OwnerTeardown

\* They leave calls and objects alone.
LEMMA LifecycleKeeps ==
    ASSUME Lifecycle
    PROVE  UNCHANGED <<queue, caps, life, pc, target, backend, root, rootCode, started, entered>>
BY DEF Lifecycle, Install, FinishInstall, AbortInstall, ReleaseHandle, OwnerTeardown, objectVars, callVars

\* The steps in which a call works on the registries, and those in which the
\* program does.
Registry(c) ==
    \/ SkipDead(c) \/ DrainNext(c) \/ PublishNext(c) \/ Bind(c)
    \/ FinalizeSoac(c) \/ FinalizeInterpreter(c)

Program(o) ==
    \/ Birth(o) \/ CompleteDefinition(o) \/ FailDataclass(o) \/ RemoveReceipt(o)
    \/ LeaseChild(o) \/ SettleChild(o) \/ Die(o)

\* They leave the policy alone.
LEMMA RegistryKeeps ==
    ASSUME NEW c, Registry(c)
    PROVE  UNCHANGED <<backend, root, rootCode, phase, started, entered, handle, ownerLive>>
BY DEF Registry, SkipDead, DrainNext, PublishNext, Bind, FinalizeSoac, FinalizeInterpreter, policyVars

\* The program also leaves the calls alone.
LEMMA ProgramKeeps ==
    ASSUME NEW o, Program(o)
    PROVE  UNCHANGED <<backend, root, rootCode, phase, started, entered, handle, ownerLive, pc, target>>
BY DEF Program, Birth, CompleteDefinition, FailDataclass, RemoveReceipt, LeaseChild, SettleChild, Die,
   policyVars, callVars

\* Every step is of one of these kinds.
LEMMA StepKinds ==
    ASSUME Next
    PROVE  \/ Lifecycle
           \/ \E c \in Calls : GoingTo(c) \/ Registry(c)
           \/ \E o \in Objects : Program(o)
BY DEF Next, Environment, Completion, Lifecycle, GoingTo, Registry, Program

--------------------------------------------------------------------------------
\* An open definition is in the queue or in the hands of call c.
Reached(c, o) == o \in Elements(queue) \/ (pc[c] = "finalize" /\ target[c] = o)

\* What a call may do to the objects and to itself while it works on the registries.
RegistryEffect(c) ==
    /\ queue' \in Seq(Objects) /\ caps' \in Seq(Objects) /\ life' \in [Objects -> Lives]
    /\ pc' \in [Calls -> Working \cup Resting \cup {"failing"}]
    /\ target' \in [Calls -> Objects \cup {Nothing}]
    /\ \A d \in Calls : pc'[d] \in {"finalize", "bind"} => target'[d] \in Objects
    /\ \A o \in Objects : life'[o] = "unborn" <=> life[o] = "unborn"
    /\ \A o \in Objects : life'[o] = "open" => life[o] = "open"
    /\ Elements(queue') \subseteq Elements(queue)
    /\ \/ Elements(caps') \subseteq Elements(caps)
       \/ UNCHANGED queue /\ target[c] \in Objects /\ Elements(caps') = Elements(caps) \cup {target[c]}
    /\ Usable \/ UNCHANGED <<queue, caps>>
    /\ pc[c] \in Draining /\ pc'[c] \in Draining \cup {"failing"}
    /\ \A d \in Calls : d # c => pc'[d] = pc[d] /\ target'[d] = target[d]
    /\ target'[c] \in Elements(queue) \cup Elements(caps) \cup {Nothing, target[c]}
    /\ pc'[c] # "failing" =>
         \A o \in Objects : life'[o] = "open" /\ Reached(c, o) => Reached(c, o)'

\* Dropping dead records.
LEMMA SkipDeadEffect ==
    ASSUME TypeInv, NEW c \in Calls, SkipDead(c)
    PROVE  RegistryEffect(c)
<1>1. /\ UNCHANGED <<life, pc, target>> /\ pc[c] \in Draining /\ Usable
      /\ pc[c] # "finalize" /\ queue \in Seq(Objects) /\ caps \in Seq(Objects)
  BY DEF SkipDead, callVars, Publishing, Draining, TypeInv
<1>2. CASE NoneAlive(queue) /\ queue' = <<>> /\ UNCHANGED caps
  <2>1. \A o \in Elements(queue) : life[o] = "dead"
    <3>1. DOMAIN queue = 1..Len(queue)
      BY <1>1, Positions
    <3> QED
      BY <1>2, <3>1 DEF NoneAlive, Alive, Elements
  <2>2. queue' \in Seq(Objects) /\ Elements(queue') = {}
    BY <1>1, <1>2, Positions
  <2>3. \A o \in Objects : ~(life'[o] = "open" /\ Reached(c, o))
    <3> SUFFICES ASSUME NEW o \in Objects, life[o] = "open", o \in Elements(queue) PROVE FALSE
      BY <1>1 DEF Reached
    <3> QED
      BY <2>1
  <2> QED
    BY <1>1, <1>2, <2>2, <2>3 DEF RegistryEffect, TypeInv
<1>3. CASE caps' = <<>> /\ UNCHANGED queue
  <2>1. caps' \in Seq(Objects) /\ Elements(caps') = {}
    BY <1>1, <1>3, Positions
  <2>2. \A o \in Objects : Reached(c, o) => Reached(c, o)'
    BY <1>1, <1>3 DEF Reached
  <2> QED
    BY <1>1, <1>3, <2>1, <2>2 DEF RegistryEffect, TypeInv
<1> QED
  BY <1>2, <1>3 DEF SkipDead

\* Upgrading the first live record of the queue.
LEMMA DrainNextEffect ==
    ASSUME TypeInv, NEW c \in Calls, DrainNext(c)
    PROVE  RegistryEffect(c)
<1>1. queue \in Seq(Objects) /\ caps \in Seq(Objects)
  BY DEF TypeInv
<1>2. DOMAIN queue = 1..Len(queue) /\ \A j \in 1..Len(queue) : queue[j] \in Objects /\ queue[j] \in Elements(queue)
  BY <1>1, Positions
<1>3. PICK i \in 1..Len(queue) : /\ FirstAlive(queue, i)
                                 /\ queue' = SubSeq(queue, i + 1, Len(queue))
                                 /\ target' = [target EXCEPT ![c] = queue[i]]
  BY <1>2 DEF DrainNext
<1>4. /\ queue' \in Seq(Objects) /\ Elements(queue') \subseteq Elements(queue)
      /\ \A j \in 1..Len(queue) : j <= i \/ queue[j] \in Elements(queue')
  BY <1>1, <1>3, SuffixElements
<1>5. /\ pc' = [pc EXCEPT ![c] = "finalize"] /\ pc[c] = "drain" /\ Usable /\ UNCHANGED <<caps, life>>
  BY DEF DrainNext
<1>6. /\ pc' \in [Calls -> Working \cup Resting \cup {"failing"}]
      /\ target' \in [Calls -> Objects \cup {Nothing}]
      /\ target'[c] = queue[i] /\ \A d \in Calls : d # c => target'[d] = target[d]
      /\ \A d \in Calls : pc'[d] \in {"finalize", "bind"} => target'[d] \in Objects
  BY <1>2, <1>3, <1>5, TakeTypes
<1>7. pc'[c] = "finalize" /\ \A d \in Calls : d # c => pc'[d] = pc[d]
  BY <1>5, Moved DEF Working, Draining
<1>8. ASSUME NEW o \in Objects, life[o] = "open", Reached(c, o) PROVE Reached(c, o)'
  <2>1. PICK j \in 1..Len(queue) : queue[j] = o
    BY <1>5, <1>8 DEF Reached, Elements
  <2>2. CASE j = i
    BY <1>6, <1>7, <2>1, <2>2 DEF Reached
  <2>3. CASE ~(j <= i)
    BY <1>4, <2>1, <2>3 DEF Reached
  <2>4. ~(j \in 1..(i - 1))
    <3>1. life[queue[j]] # "dead"
      BY <1>8, <2>1
    <3> QED
      BY <1>3, <3>1 DEF FirstAlive, Alive
  <2>5. j = i \/ ~(j <= i) \/ j \in 1..(i - 1)
    BY SMTT(20)
  <2> QED
    BY <2>2, <2>3, <2>4, <2>5
<1> QED
  BY <1>1, <1>2, <1>3, <1>4, <1>5, <1>6, <1>7, <1>8 DEF RegistryEffect, TypeInv, Draining

\* Upgrading the first live capability.
LEMMA PublishNextEffect ==
    ASSUME TypeInv, NEW c \in Calls, PublishNext(c)
    PROVE  RegistryEffect(c)
<1>1. queue \in Seq(Objects) /\ caps \in Seq(Objects)
  BY DEF TypeInv
<1>2. DOMAIN caps = 1..Len(caps) /\ \A j \in 1..Len(caps) : caps[j] \in Objects /\ caps[j] \in Elements(caps)
  BY <1>1, Positions
<1>3. PICK i \in 1..Len(caps) : /\ caps' = SubSeq(caps, i + 1, Len(caps))
                                /\ target' = [target EXCEPT ![c] = caps[i]]
  BY <1>2 DEF PublishNext
<1>4. caps' \in Seq(Objects) /\ Elements(caps') \subseteq Elements(caps)
  BY <1>1, <1>3, SuffixElements
<1>5. /\ pc' = [pc EXCEPT ![c] = "bind"] /\ pc[c] \in {"drain", "publish"} /\ Usable /\ UNCHANGED <<queue, life>>
  BY DEF PublishNext, Publishing
<1>6. /\ pc' \in [Calls -> Working \cup Resting \cup {"failing"}]
      /\ target' \in [Calls -> Objects \cup {Nothing}]
      /\ target'[c] = caps[i] /\ \A d \in Calls : d # c => target'[d] = target[d]
      /\ \A d \in Calls : pc'[d] \in {"finalize", "bind"} => target'[d] \in Objects
  BY <1>2, <1>3, <1>5, TakeTypes
<1>7. pc'[c] = "bind" /\ \A d \in Calls : d # c => pc'[d] = pc[d]
  BY <1>5, Moved DEF Working, Draining
<1>8. \A o \in Objects : Reached(c, o) => Reached(c, o)'
  BY <1>5 DEF Reached
<1> QED
  BY <1>1, <1>2, <1>3, <1>4, <1>5, <1>6, <1>7, <1>8 DEF RegistryEffect, TypeInv, Draining

\* Ending the work on a target, which is settled unless the call fails.
LEMMA DropEffect ==
    ASSUME TypeInv, NEW c \in Calls, pc[c] \in {"finalize", "bind"},
           NEW l \in {"drain", "publish", "failing"}, Drop(c, l), UNCHANGED queue,
           UNCHANGED caps \/ (Usable /\ caps' = Append(caps, target[c])),
           \/ UNCHANGED life /\ (l = "failing" \/ pc[c] = "bind")
           \/ \E x \in Lives \ {"unborn", "open"} : Becomes(target[c], x),
           life[target[c]] # "unborn"
    PROVE  RegistryEffect(c)
<1>1. queue \in Seq(Objects) /\ caps \in Seq(Objects) /\ target[c] \in Objects
  BY DEF TypeInv
<1>2. /\ pc' \in [Calls -> Working \cup Resting \cup {"failing"}]
      /\ target' \in [Calls -> Objects \cup {Nothing}]
      /\ \A d \in Calls : pc'[d] \in {"finalize", "bind"} => target'[d] \in Objects
  BY DropTypes
<1>3. pc'[c] = l /\ \A d \in Calls : d # c => pc'[d] = pc[d]
  BY Moved DEF Drop, Working, Draining
<1>4. target'[c] = Nothing /\ \A d \in Calls : d # c => target'[d] = target[d]
  BY SMTT(20) DEF Drop, TypeInv
<1>5. /\ caps' \in Seq(Objects)
      /\ UNCHANGED caps \/ (Usable /\ Elements(caps') = Elements(caps) \cup {target[c]})
  <2>1. CASE UNCHANGED caps
    BY <1>1, <2>1
  <2>2. CASE Usable /\ caps' = Append(caps, target[c])
    <3>1. \A x \in Objects : Append(caps, x) \in Seq(Objects) /\ Elements(Append(caps, x)) = Elements(caps) \cup {x}
      BY <1>1, AppendElements
    <3> QED
      BY <1>1, <2>2, <3>1
  <2> QED
    BY <2>1, <2>2
<1>6. /\ life' \in [Objects -> Lives]
      /\ \A o \in Objects : o # target[c] => life'[o] = life[o]
      /\ life'[target[c]] # "unborn"
      /\ life'[target[c]] = life[target[c]] \/ life'[target[c]] # "open"
      /\ l = "failing" \/ pc[c] = "bind" \/ life'[target[c]] # "open"
  <2>1. CASE UNCHANGED life /\ (l = "failing" \/ pc[c] = "bind")
    BY <2>1 DEF TypeInv
  <2>2. ASSUME NEW x \in Lives \ {"unborn", "open"}, Becomes(target[c], x)
        PROVE  /\ life' \in [Objects -> Lives]
               /\ \A o \in Objects : o # target[c] => life'[o] = life[o]
               /\ life'[target[c]] \notin {"unborn", "open"}
    BY <1>1, <2>2, Settled
  <2> QED
    BY <2>1, <2>2
<1>7. l # "failing" => \A o \in Objects : life'[o] = "open" /\ Reached(c, o) => Reached(c, o)'
  BY <1>6 DEF Reached
<1>8. \A o \in Objects : /\ life'[o] = "unborn" <=> life[o] = "unborn"
                         /\ life'[o] = "open" => life[o] = "open"
  BY <1>6
<1> QED
  BY <1>1, <1>2, <1>3, <1>4, <1>5, <1>6, <1>7, <1>8 DEF RegistryEffect, TypeInv, Draining

\* Every step of a call on the registries has this effect.
LEMMA RegistryHas ==
    ASSUME TypeInv, BornInv, NEW c \in Calls, Registry(c)
    PROVE  RegistryEffect(c)
<1>0. pc[c] \in {"finalize", "bind"} => life[target[c]] # "unborn"
  BY DEF TypeInv, BornInv
<1>1. CASE SkipDead(c)
  BY <1>1, SkipDeadEffect
<1>2. CASE DrainNext(c)
  BY <1>2, DrainNextEffect
<1>3. CASE PublishNext(c)
  BY <1>3, PublishNextEffect
<1>4. CASE Bind(c)
  <2>1. UNCHANGED <<queue, caps, life>> /\ pc[c] = "bind"
    BY <1>4 DEF Bind, objectVars
  <2>2. PICK l \in {"publish", "failing"} : Drop(c, l)
    BY <1>4 DEF Bind
  <2> QED
    BY <1>0, <2>1, <2>2, DropEffect
<1>5. CASE FinalizeSoac(c)
  <2>1. UNCHANGED queue /\ pc[c] = "finalize"
    BY <1>5 DEF FinalizeSoac
  <2>2. PICK l \in {"drain", "failing"} :
          /\ Drop(c, l)
          /\ UNCHANGED caps \/ (Usable /\ caps' = Append(caps, target[c]))
          /\ \/ UNCHANGED life /\ l = "failing"
             \/ \E x \in {"declined", "final"} : Becomes(target[c], x)
    BY <1>5 DEF FinalizeSoac
  <2> QED
    BY <1>0, <2>1, <2>2, DropEffect DEF Lives
<1>6. CASE FinalizeInterpreter(c)
  <2>1. UNCHANGED <<queue, caps>> /\ pc[c] = "finalize"
    BY <1>6 DEF FinalizeInterpreter
  <2>2. PICK l \in {"drain", "failing"} :
          /\ Drop(c, l)
          /\ \E x \in {"declined", "final", "disposed", "refused"} : Becomes(target[c], x)
    BY <1>6 DEF FinalizeInterpreter
  <2> QED
    BY <1>0, <2>1, <2>2, DropEffect DEF Lives
<1> QED
  BY <1>1, <1>2, <1>3, <1>4, <1>5, <1>6 DEF Registry

--------------------------------------------------------------------------------
\* What the program may do to one of its objects meanwhile.
ProgramEffect(o) ==
    /\ queue' \in Seq(Objects) /\ UNCHANGED caps /\ life' \in [Objects -> Lives]
    /\ \A p \in Objects : p # o => /\ life'[p] = life[p]
                                   /\ p \in Elements(queue) <=> p \in Elements(queue')
    /\ life'[o] # "unborn"
    /\ life'[o] = "open" => o \in Elements(queue') \/ (life[o] = "open" /\ o \notin Elements(queue))
    /\ entered = TRUE \/ life[o] # "unborn"
    /\ \/ UNCHANGED queue
       \/ /\ Usable
          /\ Elements(queue') \subseteq Elements(queue) \/ Elements(queue') = Elements(queue) \cup {o}

\* Every step of the program on an object has this effect.
LEMMA ProgramHas ==
    ASSUME TypeInv, BornInv, NEW o \in Objects, Program(o)
    PROVE  ProgramEffect(o)
<1>0. queue \in Seq(Objects) /\ life \in [Objects -> Lives]
  BY DEF TypeInv
<1>1. CASE Birth(o)
  <2>1. /\ life' = [life EXCEPT ![o] = "open"] /\ queue' = Append(queue, o)
        /\ UNCHANGED caps /\ entered /\ Usable
    BY <1>1 DEF Birth
  <2>2. /\ life' \in [Objects -> Lives] /\ life'[o] = "open"
        /\ \A p \in Objects : p # o => life'[p] = life[p]
    BY <1>0, <2>1, SMTT(20) DEF Lives
  <2>3. queue' \in Seq(Objects) /\ Elements(queue') = Elements(queue) \cup {o}
    BY <1>0, <2>1, AppendElements
  <2> QED
    BY <2>1, <2>2, <2>3 DEF ProgramEffect
<1>2. CASE RemoveReceipt(o) \/ LeaseChild(o)
  <2>1. queue' = Keep(queue, Objects \ {o}) /\ UNCHANGED caps /\ life[o] # "unborn" /\ Usable
    BY <1>2 DEF RemoveReceipt, LeaseChild, Without
  <2>2. queue' \in Seq(Objects) /\ Elements(queue') = Elements(queue) \cap (Objects \ {o})
    BY <1>0, <2>1, KeepFacts
  <2>3. /\ life' \in [Objects -> Lives] /\ \A p \in Objects : p # o => life'[p] = life[p]
        /\ life'[o] \notin {"unborn", "open"}
    <3>1. CASE RemoveReceipt(o)
      BY <1>0, <3>1 DEF RemoveReceipt
    <3>2. CASE LeaseChild(o)
      BY <3>2, Settled DEF LeaseChild, Lives
    <3> QED
      BY <1>2, <3>1, <3>2
  <2> QED
    BY <2>1, <2>2, <2>3 DEF ProgramEffect
<1>3. CASE CompleteDefinition(o) \/ FailDataclass(o) \/ SettleChild(o) \/ Die(o)
  <2>1. UNCHANGED <<queue, caps>> /\ life[o] # "unborn"
    BY <1>3 DEF CompleteDefinition, FailDataclass, SettleChild, Die
  <2>2. \E l \in {"final", "declined", "disposed", "refused", "dead"} : life' = [life EXCEPT ![o] = l]
    BY <1>3 DEF CompleteDefinition, FailDataclass, SettleChild, Die
  <2>3. /\ life' \in [Objects -> Lives] /\ \A p \in Objects : p # o => life'[p] = life[p]
        /\ life'[o] \notin {"unborn", "open"}
    BY <2>2, Settled DEF Lives
  <2> QED
    BY <1>0, <2>1, <2>3 DEF ProgramEffect
<1> QED
  BY <1>1, <1>2, <1>3 DEF Program

--------------------------------------------------------------------------------
\* What a move may do to the policy.
PolicyEffect ==
    /\ UNCHANGED <<handle, ownerLive>> /\ handle \in {"held", "released"}
    /\ \/ UNCHANGED phase
       \/ /\ phase \in {"Initializing", "Sealing"} /\ phase' \in {"Sealing", "Sealed", "Failed"}
          /\ ownerLive

\* Every move of a call has this effect, and none starts before the installation is
\* over.
LEMMA GoingToPolicy ==
    ASSUME IInv, NEW c \in Calls, GoingTo(c)
    PROVE  PolicyEffect
<1>0. /\ handle \in {"absent", "installing", "held", "released"}
      /\ handle \in {"absent", "installing"} => pc[c] = "idle"
      /\ ~ownerLive => phase = "Terminal"
      /\ phase = "Discovered" => handle \in {"absent", "installing"}
  BY DEF IInv, TypeInv, HandleInv
<1>1. CASE ExecSoac(c) \/ ExecInterpreter(c) \/ ExecCleared(c)
  BY <1>1 DEF ExecSoac, ExecInterpreter, ExecCleared, policyVars, PolicyEffect
<1>2. CASE RootBegin(c) \/ RootEnter(c) \/ EnterInitializer(c) \/ BodyEnds(c)
  BY <1>0, <1>2 DEF RootBegin, RootEnter, EnterInitializer, BodyEnds, policyVars, PolicyEffect
<1>3. CASE BeginSealing(c)
  BY <1>0, <1>3 DEF BeginSealing, PolicyEffect
<1>4. CASE DrainRefused(c) \/ Repeat(c) \/ Quiescent(c) \/ OwnersFail(c)
  BY <1>0, <1>4 DEF DrainRefused, Repeat, Quiescent, OwnersFail, policyVars, PolicyEffect
<1>5. CASE FinishSealing(c)
  BY <1>0, <1>5 DEF FinishSealing, PolicyEffect
<1>6. CASE Failing(c)
  <2>1. handle \in {"held", "released"} /\ UNCHANGED <<handle, ownerLive>>
    BY <1>0, <1>6 DEF Failing
  <2>2. CASE phase' = "Failed" /\ phase \in Unfinished /\ handle = "held"
    BY <1>0, <2>1, <2>2 DEF Unfinished, PolicyEffect
  <2>3. CASE UNCHANGED phase
    BY <2>1, <2>3 DEF PolicyEffect
  <2> QED
    BY <1>6, <2>2, <2>3 DEF Failing
<1> QED
  BY <1>1, <1>2, <1>3, <1>4, <1>5, <1>6 DEF GoingTo

\* The types are kept.
LEMMA TypeNext ==
    ASSUME IInv, Next
    PROVE  TypeInv'
<1> USE DEF IInv
<1>1. CASE Lifecycle
  <2>1. UNCHANGED <<queue, caps, life, pc, target, backend>>
    BY <1>1, LifecycleKeeps
  <2>2. /\ phase' \in {"Discovered", "Initializing", "Sealing", "Sealed", "Failed", "Terminal"}
        /\ handle' \in {"absent", "installing", "held", "released"}
    BY <1>1 DEF TypeInv, Lifecycle, Install, FinishInstall, AbortInstall, ReleaseHandle, OwnerTeardown
  <2> QED
    BY <2>1, <2>2 DEF TypeInv
<1>2. ASSUME NEW c \in Calls, GoingTo(c) PROVE TypeInv'
  <2>1. PICK l \in Places : GoTo(c, l)
    BY <1>2, GoingToMoves
  <2>2. /\ pc' \in [Calls -> Working \cup Resting \cup {"failing"}]
        /\ target' \in [Calls -> Objects \cup {Nothing}]
        /\ \A d \in Calls : pc'[d] \in {"finalize", "bind"} => target'[d] \in Objects
    BY <2>1, PlaceNames, GoToTypes
  <2>3. UNCHANGED <<queue, caps, life, backend>>
    BY <1>2, GoingToMoves DEF objectVars
  <2>4. /\ phase' \in {"Discovered", "Initializing", "Sealing", "Sealed", "Failed", "Terminal"}
        /\ handle' \in {"absent", "installing", "held", "released"}
    BY <1>2, GoingToPolicy DEF PolicyEffect, TypeInv
  <2> QED
    BY <2>2, <2>3, <2>4 DEF TypeInv
<1>3. ASSUME NEW c \in Calls, Registry(c) PROVE TypeInv'
  BY <1>3, RegistryHas, RegistryKeeps DEF TypeInv, RegistryEffect
<1>4. ASSUME NEW o \in Objects, Program(o) PROVE TypeInv'
  BY <1>4, ProgramHas, ProgramKeeps DEF TypeInv, ProgramEffect
<1> QED
  BY <1>1, <1>2, <1>3, <1>4, StepKinds

\* The phase follows the module state and the owner.
LEMMA HandleNext ==
    ASSUME IInv, Next
    PROVE  HandleInv'
<1> USE DEF IInv
<1>1. CASE Lifecycle
  <2>1. UNCHANGED pc
    BY <1>1, LifecycleKeeps
  <2> QED
    BY <1>1, <2>1 DEF TypeInv, HandleInv, Lifecycle, Install, FinishInstall, AbortInstall, ReleaseHandle, OwnerTeardown
<1>2. ASSUME NEW c \in Calls, GoingTo(c) PROVE HandleInv'
  BY <1>2, GoingToPolicy DEF PolicyEffect, HandleInv
<1>3. ASSUME NEW c \in Calls, Registry(c) PROVE HandleInv'
  <2>1. pc[c] # "idle" /\ UNCHANGED <<phase, handle, ownerLive>>
    BY <1>3, RegistryHas, RegistryKeeps DEF RegistryEffect, Draining
  <2> QED
    BY <2>1 DEF HandleInv
<1>4. ASSUME NEW o \in Objects, Program(o) PROVE HandleInv'
  BY <1>4, ProgramKeeps DEF HandleInv
<1> QED
  BY <1>1, <1>2, <1>3, <1>4, StepKinds

\* A call that moves keeps the claim if it was at work or has just claimed.
LEMMA ClaimMove ==
    ASSUME TypeInv, ClaimInv, NEW c \in Calls, NEW l \in Working \cup Resting \cup {"failing"},
           pc' = [pc EXCEPT ![c] = l], l # "idle", UNCHANGED backend,
           Claimed => Claimed',
           l \in Working => Claimed' /\ (pc[c] \in Working \/ ~Claimed),
           l \in {"taken", "entering"} => backend = "cpython",
           l = "begun" => backend = "soac"
    PROVE  ClaimInv'
<1>1. pc'[c] = l /\ \A d \in Calls : d # c => pc'[d] = pc[d]
  BY Moved
<1>2. \A d \in Calls : pc'[d] \in Working => Claimed'
  BY <1>1 DEF ClaimInv
<1>3. ASSUME NEW d \in Calls, NEW e \in Calls, pc'[d] \in Working, pc'[e] \in Working PROVE d = e
  <2>1. CASE d # c /\ e # c
    BY <1>1, <1>3, <2>1 DEF ClaimInv
  <2>2. ASSUME NEW x \in Calls, x # c, pc'[x] \in Working, l \in Working PROVE FALSE
    <3>1. pc[x] \in Working
      BY <1>1, <2>2
    <3> QED
      BY <2>2, <3>1 DEF ClaimInv
  <2> QED
    BY <1>1, <1>3, <2>1, <2>2
<1>4. \A d \in Calls : /\ pc'[d] \in {"taken", "entering"} => backend' = "cpython"
                       /\ pc'[d] = "begun" => backend' = "soac"
  BY <1>1 DEF ClaimInv
<1>5. \E d \in Calls : pc'[d] # "idle"
  BY <1>1
<1> QED
  BY <1>2, <1>3, <1>4, <1>5 DEF ClaimInv

\* The one execution is claimed once.
LEMMA ClaimNext ==
    ASSUME IInv, Next
    PROVE  ClaimInv'
<1> USE DEF IInv
<1>0. TypeInv /\ ClaimInv /\ EntryInv
  OBVIOUS
<1>1. CASE Lifecycle
  <2>1. UNCHANGED <<pc, backend, rootCode, started>>
    BY <1>1, LifecycleKeeps
  <2> QED
    BY <1>0, <2>1 DEF ClaimInv, Claimed
<1>2. ASSUME NEW c \in Calls, GoingTo(c) PROVE ClaimInv'
  <2> DEFINE Moves(l) == pc' = [pc EXCEPT ![c] = l]
             All == Working \cup Resting \cup {"failing"}
  <2>0. UNCHANGED backend
    BY <1>2, GoingToMoves
  <2>1. CASE ExecSoac(c)
    <3>1. CASE MayStart /\ started' = TRUE /\ GoTo(c, "begun")
      <4>1. Moves("begun") /\ backend = "soac" /\ ~Claimed /\ Claimed'
        BY <1>0, <2>0, <2>1, <3>1 DEF ExecSoac, GoTo, MayStart, Claimed
      <4> QED
        BY <1>0, <2>0, <4>1, ClaimMove DEF Working, Claiming
    <3>2. CASE UNCHANGED started /\ GoTo(c, "failing")
      <4>1. Moves("failing") /\ (Claimed => Claimed')
        BY <2>0, <2>1, <3>2 DEF ExecSoac, GoTo, Claimed
      <4> QED
        BY <1>0, <2>0, <4>1, ClaimMove, Moved DEF Working, Claiming, Draining
    <3> QED
      BY <2>1, <3>1, <3>2 DEF ExecSoac
  <2>2. CASE ExecInterpreter(c)
    <3>1. backend = "cpython" /\ Claimed' /\ (Claimed <=> rootCode = FALSE)
      BY <2>0, <2>2 DEF ExecInterpreter, Claimed
    <3>2. CASE rootCode
      <4>1. Moves("taken")
        BY <2>2, <3>2 DEF ExecInterpreter, GoTo
      <4> QED
        BY <1>0, <2>0, <3>1, <3>2, <4>1, ClaimMove, Moved DEF Working, Claiming
    <3>3. CASE ~rootCode
      <4>1. Moves("error")
        BY <2>2, <3>3 DEF ExecInterpreter, GoTo
      <4> QED
        BY <1>0, <2>0, <3>1, <4>1, ClaimMove, Moved DEF Working, Claiming, Draining, Resting
    <3> QED
      BY <3>2, <3>3
  <2>3. ASSUME ~ExecSoac(c), ~ExecInterpreter(c) PROVE ClaimInv'
    <3>1. UNCHANGED rootCode /\ (Claimed => Claimed')
      BY <1>2, <2>0, <2>3 DEF GoingTo, ExecCleared, RootBegin, RootEnter, EnterInitializer, BodyEnds,
         BeginSealing, DrainRefused, Repeat, Quiescent, FinishSealing, OwnersFail, Failing,
         policyVars, Claimed
    <3>2. \E l \in All : Moves(l) /\ l # "idle" /\ (l \in Working => pc[c] \in Working)
                          /\ l \notin {"taken", "begun"} /\ (l = "entering" => pc[c] = "taken")
      BY <1>2, <2>3 DEF GoingTo, ExecCleared, RootBegin, RootEnter, EnterInitializer, BodyEnds,
         BeginSealing, DrainRefused, Repeat, Quiescent, FinishSealing, OwnersFail, Failing, GoTo,
         Working, Claiming, Draining, Resting
    <3> QED
      BY <1>0, <2>0, <3>1, <3>2, ClaimMove DEF ClaimInv
  <2> QED
    BY <2>1, <2>2, <2>3
<1>3. ASSUME NEW c \in Calls, Registry(c) PROVE ClaimInv'
  <2>1. /\ UNCHANGED <<backend, rootCode, started>>
        /\ \A d \in Calls : d # c => pc'[d] = pc[d]
        /\ pc[c] \in Draining /\ pc'[c] \in Draining \cup {"failing"}
    BY <1>3, RegistryHas, RegistryKeeps DEF RegistryEffect
  <2>2. \A d \in Calls : /\ pc'[d] \in Working => pc[d] \in Working
                         /\ pc'[d] \in {"taken", "entering", "begun"} => pc'[d] = pc[d]
    BY <2>1 DEF Working, Draining
  <2>3. pc'[c] # "idle"
    BY <2>1 DEF Draining
  <2> QED
    BY <1>0, <2>1, <2>2, <2>3 DEF ClaimInv, Claimed
<1>4. ASSUME NEW o \in Objects, Program(o) PROVE ClaimInv'
  <2>1. UNCHANGED <<pc, backend, rootCode, started>>
    BY <1>4, ProgramKeeps
  <2> QED
    BY <1>0, <2>1 DEF ClaimInv, Claimed
<1> QED
  BY <1>1, <1>2, <1>3, <1>4, StepKinds

\* A step that moves call c to l and changes started, entered and phase no further
\* than this keeps what is known of the entry.
LEMMA EntryMove ==
    ASSUME TypeInv, ClaimInv, EntryInv, ClaimInv', NEW c \in Calls,
           \A d \in Calls : d # c => pc'[d] = pc[d],
           Claimed => Claimed',
           started' \in BOOLEAN /\ entered' \in BOOLEAN /\ rootCode' \in BOOLEAN /\ ownerLive' \in BOOLEAN,
           started => started',
           pc'[c] \in Claiming => entered' = FALSE,
           UNCHANGED entered \/ (pc[c] \in Working /\ pc'[c] \in Working),
           pc'[c] \in {"entering", "begun", "body", "returned"} => started' = TRUE,
           pc'[c] \in Claiming \cup {"body", "returned"} => phase' \notin {"Sealing", "Sealed"},
           phase' \in {"Sealing", "Sealed"} => phase \in {"Sealing", "Sealed"} \/ pc[c] \in Working
    PROVE  EntryInv'
<1>1. ASSUME NEW d \in Calls, d # c, pc'[d] \in Working
      PROVE  pc[d] = pc'[d] /\ pc[d] \in Working /\ pc[c] \notin Working
  BY <1>1 DEF ClaimInv
<1>2. \A d \in Calls : pc'[d] \in Claiming => entered' = FALSE
  <2> SUFFICES ASSUME NEW d \in Calls, d # c, pc'[d] \in Claiming PROVE entered' = FALSE
    OBVIOUS
  <2>1. pc[d] \in Claiming /\ pc[c] \notin Working
    BY <1>1 DEF Working
  <2> QED
    BY <2>1 DEF EntryInv
<1>3. entered' = TRUE => Claimed'
  BY DEF EntryInv, ClaimInv
<1>4. \A d \in Calls : pc'[d] \in {"entering", "begun", "body", "returned"} => started' = TRUE
  BY DEF EntryInv
<1>5. \A d \in Calls : pc'[d] \in Claiming \cup {"body", "returned"} => phase' \notin {"Sealing", "Sealed"}
  <2> SUFFICES ASSUME NEW d \in Calls, d # c, pc'[d] \in Claiming \cup {"body", "returned"}
               PROVE  phase' \notin {"Sealing", "Sealed"}
    OBVIOUS
  <2>1. pc[d] \in Claiming \cup {"body", "returned"} /\ pc[c] \notin Working
    BY <1>1 DEF Working
  <2> QED
    BY <2>1 DEF EntryInv
<1>6. phase' \in {"Sealing", "Sealed"} => Claimed'
  BY DEF EntryInv, ClaimInv
<1> QED
  BY <1>2, <1>3, <1>4, <1>5, <1>6 DEF EntryInv

\* Nothing is entered twice, declared before the entry or sealed before the return.
LEMMA EntryNext ==
    ASSUME IInv, Next
    PROVE  EntryInv'
<1> USE DEF IInv
<1>0. TypeInv /\ HandleInv /\ ClaimInv /\ EntryInv /\ ClaimInv'
  BY ClaimNext
<1>a. /\ started \in BOOLEAN /\ entered \in BOOLEAN /\ rootCode \in BOOLEAN /\ ownerLive \in BOOLEAN
  BY <1>0 DEF EntryInv
<1>1. CASE Lifecycle
  <2>1. UNCHANGED <<pc, backend, rootCode, started, entered>>
    BY <1>1, LifecycleKeeps
  <2>2. ownerLive' \in BOOLEAN /\ (phase' \in {"Sealing", "Sealed"} => phase' = phase)
    BY <1>1, <1>a DEF Lifecycle, Install, FinishInstall, AbortInstall, ReleaseHandle, OwnerTeardown
  <2> QED
    BY <1>0, <2>1, <2>2 DEF EntryInv, Claimed
<1>2. ASSUME NEW c \in Calls, GoingTo(c) PROVE EntryInv'
  <2>1. PICK l \in Places : GoTo(c, l)
    BY <1>2, GoingToMoves
  <2>2. pc'[c] = l /\ \A d \in Calls : d # c => pc'[d] = pc[d]
    BY <1>0, <2>1, Moved, PlaceNames DEF GoTo
  <2>3. UNCHANGED <<backend, ownerLive>>
    BY <1>2, GoingToMoves, GoingToPolicy DEF PolicyEffect
  <2>4. CASE ExecSoac(c)
    <3>1. CASE MayStart /\ started' = TRUE /\ GoTo(c, "begun")
      <4>1. pc'[c] = "begun" /\ UNCHANGED <<entered, phase, rootCode>> /\ Claimed'
        BY <1>0, <2>3, <2>4, <3>1, Moved DEF ExecSoac, GoTo, Claimed, Working, Claiming
      <4>2. entered = FALSE /\ phase = "Initializing"
        BY <1>0, <2>4, <3>1 DEF EntryInv, MayStart, ExecSoac, Claimed
      <4> QED
        BY <1>0, <1>a, <2>2, <2>3, <3>1, <4>1, <4>2, EntryMove
    <3>2. CASE UNCHANGED started /\ GoTo(c, "failing")
      <4>1. /\ pc'[c] = "failing" /\ UNCHANGED <<entered, phase, rootCode, started>>
            /\ Claimed => Claimed'
        BY <1>0, <2>3, <2>4, <3>2, Moved DEF ExecSoac, GoTo, Claimed
      <4> QED
        BY <1>0, <1>a, <2>2, <2>3, <4>1, EntryMove DEF Claiming
    <3> QED
      BY <2>4, <3>1, <3>2 DEF ExecSoac
  <2>5. CASE ExecInterpreter(c)
    <3>1. /\ UNCHANGED <<entered, phase, started>> /\ rootCode' = FALSE /\ Claimed'
          /\ backend = "cpython"
      BY <2>3, <2>5 DEF ExecInterpreter, policyVars, Claimed
    <3>2. CASE rootCode
      <4>1. pc'[c] = "taken"
        BY <1>0, <2>5, <3>2, Moved DEF ExecInterpreter, GoTo, Working, Claiming
      <4>2. entered = FALSE /\ phase \notin {"Sealing", "Sealed"}
        BY <1>0, <3>1, <3>2 DEF EntryInv, Claimed
      <4> QED
        BY <1>0, <1>a, <2>2, <2>3, <3>1, <4>1, <4>2, EntryMove
    <3>3. CASE ~rootCode
      <4>1. pc'[c] = "error"
        BY <1>0, <2>5, <3>3, Moved DEF ExecInterpreter, GoTo, Resting
      <4> QED
        BY <1>0, <1>a, <2>2, <2>3, <3>1, <4>1, EntryMove DEF Claiming
    <3> QED
      BY <3>2, <3>3
  <2>6. CASE RootBegin(c)
    <3>1. /\ UNCHANGED <<entered, phase, rootCode>> /\ pc[c] = "taken"
          /\ pc'[c] \in {"entering", "failing"} /\ (pc'[c] = "entering" => started' = TRUE)
          /\ started' = TRUE \/ UNCHANGED started
      BY <1>0, <2>6, Moved DEF RootBegin, GoTo, Working, Claiming
    <3>2. Claimed => Claimed'
      BY <2>3, <3>1 DEF Claimed
    <3>3. entered = FALSE /\ phase \notin {"Sealing", "Sealed"}
      BY <1>0, <3>1 DEF EntryInv, Claiming
    <3>4. /\ started' \in BOOLEAN /\ (started => started')
          /\ pc'[c] \in {"entering", "begun", "body", "returned"} => started' = TRUE
      <4>1. started' \in BOOLEAN /\ (started => started')
        <5>1. CASE started' = TRUE
          BY <5>1
        <5>2. CASE UNCHANGED started
          BY <1>a, <5>2
        <5> QED
          BY <3>1, <5>1, <5>2
      <4> QED
        BY <3>1, <4>1
    <3>5. entered' = FALSE /\ phase' \notin {"Sealing", "Sealed"}
      BY <3>1, <3>3
    <3> QED
      BY <1>0, <1>a, <2>2, <2>3, <3>1, <3>2, <3>4, <3>5, EntryMove
  <2>7. CASE RootEnter(c) \/ EnterInitializer(c)
    <3>1. /\ UNCHANGED <<started, phase, rootCode>> /\ pc[c] \in {"entering", "begun"}
          /\ pc'[c] \in {"body", "failing"}
          /\ (pc'[c] = "body" /\ entered' = TRUE) \/ UNCHANGED entered
      BY <1>0, <2>7, Moved DEF RootEnter, EnterInitializer, GoTo, Working
    <3>2. Claimed => Claimed'
      BY <2>3, <3>1 DEF Claimed
    <3>3. started = TRUE /\ phase \notin {"Sealing", "Sealed"}
      BY <1>0, <3>1 DEF EntryInv, Claiming
    <3>4. pc[c] \in Working /\ (pc'[c] = "body" => pc'[c] \in Working) /\ pc'[c] \notin Claiming
      BY <3>1 DEF Working, Claiming
    <3> QED
      BY <1>0, <1>a, <2>2, <2>3, <3>1, <3>2, <3>3, <3>4, EntryMove
  <2>8. CASE BodyEnds(c)
    <3>1. /\ UNCHANGED <<started, entered, phase, rootCode>> /\ pc[c] = "body"
          /\ pc'[c] \in {"returned", "failing"}
      BY <1>0, <2>8, Moved DEF BodyEnds, GoTo, policyVars, Working
    <3>2. Claimed => Claimed'
      BY <2>3, <3>1 DEF Claimed
    <3>3. started = TRUE /\ phase \notin {"Sealing", "Sealed"}
      BY <1>0, <3>1 DEF EntryInv
    <3> QED
      BY <1>0, <1>a, <2>2, <2>3, <3>1, <3>2, <3>3, EntryMove DEF Claiming
  <2>9. CASE BeginSealing(c) \/ FinishSealing(c) \/ DrainRefused(c) \/ Repeat(c) \/ Quiescent(c) \/ OwnersFail(c)
    <3>1. /\ UNCHANGED <<started, entered, rootCode>> /\ pc[c] \in Working
          /\ pc'[c] \in {"drain", "owners", "done", "failing"}
      BY <1>0, <2>9, Moved DEF BeginSealing, FinishSealing, DrainRefused, Repeat, Quiescent, OwnersFail,
         GoTo, policyVars, Working, Draining, Resting
    <3>2. Claimed => Claimed'
      BY <2>3, <3>1 DEF Claimed
    <3> QED
      BY <1>0, <1>a, <2>2, <2>3, <3>1, <3>2, EntryMove DEF Claiming
  <2>10. CASE ExecCleared(c) \/ Failing(c)
    <3>1. /\ UNCHANGED <<started, entered, rootCode>> /\ pc'[c] = "error"
          /\ phase' = "Failed" \/ UNCHANGED phase
      BY <1>0, <2>10, Moved DEF ExecCleared, Failing, GoTo, policyVars, Resting
    <3>2. Claimed => Claimed'
      BY <2>3, <3>1 DEF Claimed
    <3> QED
      BY <1>0, <1>a, <2>2, <2>3, <3>1, <3>2, EntryMove DEF Claiming
  <2> QED
    BY <1>2, <2>4, <2>5, <2>6, <2>7, <2>8, <2>9, <2>10 DEF GoingTo
<1>3. ASSUME NEW c \in Calls, Registry(c) PROVE EntryInv'
  <2>1. /\ UNCHANGED <<backend, rootCode, started, entered, phase, ownerLive>>
        /\ \A d \in Calls : d # c => pc'[d] = pc[d]
        /\ pc'[c] \in Draining \cup {"failing"}
    BY <1>3, RegistryHas, RegistryKeeps DEF RegistryEffect
  <2>2. pc'[c] \notin Claiming \cup {"body", "returned"} /\ (Claimed => Claimed')
    BY <2>1 DEF Claiming, Draining, Claimed
  <2> QED
    BY <1>0, <1>a, <2>1, <2>2, EntryMove DEF Claiming
<1>4. ASSUME NEW o \in Objects, Program(o) PROVE EntryInv'
  <2>1. UNCHANGED <<pc, backend, rootCode, started, entered, phase, ownerLive>>
    BY <1>4, ProgramKeeps
  <2> QED
    BY <1>0, <2>1 DEF EntryInv, Claimed
<1> QED
  BY <1>1, <1>2, <1>3, <1>4, StepKinds

\* A module under execution has a call at work: whoever ends closes or publishes it.
LEMMA RestNext ==
    ASSUME IInv, Next
    PROVE  RestInv'
<1> USE DEF IInv
<1>0. TypeInv /\ HandleInv /\ ClaimInv /\ RestInv
  OBVIOUS
<1>1. CASE Lifecycle
  <2>1. UNCHANGED pc
    BY <1>1, LifecycleKeeps
  <2>2. CASE FinishInstall
    BY <1>0, <2>1, <2>2 DEF FinishInstall, HandleInv, RestInv
  <2>3. CASE ~FinishInstall
    <3>1. phase' \in {"Initializing", "Sealing"} => phase' = phase
      BY <1>1, <2>3 DEF Lifecycle, Install, AbortInstall, ReleaseHandle, OwnerTeardown
    <3> QED
      BY <1>0, <2>1, <3>1 DEF RestInv
  <2> QED
    BY <2>2, <2>3
<1>2. ASSUME NEW c \in Calls, GoingTo(c), phase' \in {"Initializing", "Sealing"}
      PROVE  \E d \in Calls : pc'[d] \notin Resting
  <2>1. PICK l \in Places : GoTo(c, l)
    BY <1>2, GoingToMoves
  <2>2. pc'[c] = l /\ \A d \in Calls : d # c => pc'[d] = pc[d]
    BY <1>0, <2>1, Moved, PlaceNames DEF GoTo
  <2>3. phase \in {"Initializing", "Sealing"} /\ handle = "held" /\ ownerLive
    BY <1>0, <1>2, GoingToPolicy DEF PolicyEffect, HandleInv
  <2>4. CASE ExecInterpreter(c) /\ rootCode = FALSE
    <3>1. \E d \in Calls : pc[d] # "idle"
      BY <1>0, <2>4 DEF ClaimInv, ExecInterpreter
    <3>2. PICK d \in Calls : pc[d] \notin Resting
      BY <1>0, <2>3, <3>1 DEF RestInv
    <3>3. d # c
      BY <2>4, <3>2 DEF ExecInterpreter, Resting
    <3> QED
      BY <2>2, <3>2, <3>3
  <2>5. CASE ExecInterpreter(c) /\ rootCode # FALSE
    <3>1. pc'[c] = "taken"
      BY <1>0, <2>5, Moved DEF ExecInterpreter, GoTo, EntryInv, Working, Claiming
    <3> QED
      BY <3>1 DEF Resting
  <2>6. ~ExecCleared(c) /\ ~Failing(c)
    BY <1>2, <2>3 DEF ExecCleared, Failing, Unfinished
  <2>7. ASSUME ~ExecInterpreter(c) PROVE pc'[c] \notin Resting
    <3>1. CASE ExecSoac(c) \/ RootBegin(c) \/ RootEnter(c) \/ EnterInitializer(c) \/ BodyEnds(c)
      BY <1>0, <3>1, Moved DEF ExecSoac, RootBegin, RootEnter, EnterInitializer, BodyEnds, GoTo,
         Resting, Working, Claiming
    <3>2. CASE BeginSealing(c) \/ DrainRefused(c) \/ Repeat(c) \/ Quiescent(c) \/ OwnersFail(c)
      BY <1>0, <3>2, Moved DEF BeginSealing, DrainRefused, Repeat, Quiescent, OwnersFail, GoTo,
         Resting, Working, Draining
    <3>3. CASE FinishSealing(c)
      BY <1>0, <1>2, <3>3, Moved DEF FinishSealing, GoTo, Resting
    <3> QED
      BY <1>2, <2>6, <2>7, <3>1, <3>2, <3>3 DEF GoingTo
  <2> QED
    BY <2>4, <2>5, <2>7
<1>3. ASSUME NEW c \in Calls, Registry(c) PROVE \E d \in Calls : pc'[d] \notin Resting
  BY <1>3, RegistryHas DEF RegistryEffect, Draining, Resting
<1>4. ASSUME NEW o \in Objects, Program(o) PROVE RestInv'
  BY <1>0, <1>4, ProgramKeeps DEF RestInv
<1> QED
  BY <1>1, <1>2, <1>3, <1>4, StepKinds DEF RestInv

\* What has a record or is held was declared, and nothing is declared before entry.
LEMMA BornNext ==
    ASSUME IInv, Next
    PROVE  BornInv'
<1> USE DEF IInv
<1>0. TypeInv /\ BornInv /\ EntryInv /\ EntryInv'
  BY EntryNext
<1>1. CASE Lifecycle
  BY <1>0, <1>1, LifecycleKeeps DEF BornInv, Elements
<1>2. ASSUME NEW c \in Calls, GoingTo(c) PROVE BornInv'
  <2>1. UNCHANGED <<queue, caps, life, target>>
    BY <1>2, GoingToMoves DEF objectVars, GoTo
  <2>2. entered' = FALSE => entered = FALSE
    <3>1. UNCHANGED entered \/ entered' = TRUE
      BY <1>2 DEF GoingTo, ExecSoac, ExecInterpreter, ExecCleared, RootBegin, RootEnter, EnterInitializer,
         BodyEnds, BeginSealing, DrainRefused, Repeat, Quiescent, FinishSealing, OwnersFail, Failing, policyVars
    <3> QED
      BY <3>1
  <2> QED
    BY <1>0, <2>1, <2>2 DEF BornInv
<1>3. ASSUME NEW c \in Calls, Registry(c) PROVE BornInv'
  <2>1. /\ \A o \in Objects : life'[o] = "unborn" <=> life[o] = "unborn"
        /\ Elements(queue') \subseteq Elements(queue)
        /\ \/ Elements(caps') \subseteq Elements(caps)
           \/ target[c] \in Objects /\ Elements(caps') = Elements(caps) \cup {target[c]}
        /\ \A d \in Calls : d # c => target'[d] = target[d]
        /\ target'[c] \in Elements(queue) \cup Elements(caps) \cup {Nothing, target[c]}
        /\ UNCHANGED entered
    BY <1>3, RegistryHas, RegistryKeeps DEF RegistryEffect
  <2>2. \A o \in Elements(queue) \cup Elements(caps) : o \in Objects
    BY <1>0, Positions DEF TypeInv
  <2>3. \A o \in Elements(queue') \cup Elements(caps') : life'[o] # "unborn"
    BY <1>0, <2>1, <2>2 DEF BornInv
  <2>4. \A d \in Calls : target'[d] \in Objects => life'[target'[d]] # "unborn"
    <3> SUFFICES ASSUME NEW d \in Calls, target'[d] \in Objects PROVE life[target'[d]] # "unborn"
      BY <2>1
    <3>1. CASE d # c
      BY <1>0, <2>1, <3>1 DEF BornInv
    <3>2. CASE d = c
      BY <1>0, <2>1, <3>2, ImportAssumption DEF BornInv
    <3> QED
      BY <3>1, <3>2
  <2> QED
    BY <1>0, <2>1, <2>3, <2>4 DEF BornInv
<1>4. ASSUME NEW o \in Objects, Program(o) PROVE BornInv'
  <2>1. ProgramEffect(o) /\ UNCHANGED <<entered, target>>
    BY <1>4, ProgramHas, ProgramKeeps
  <2>2. entered = FALSE => FALSE
    BY <1>0, <2>1 DEF BornInv, ProgramEffect
  <2>3. /\ \A p \in Elements(queue) : p \in Objects
        /\ \A p \in Elements(queue') : p \in Objects
        /\ \A p \in Elements(caps) : p \in Objects
    BY <1>0, <2>1, Positions DEF TypeInv, ProgramEffect
  <2>4. \A p \in Objects : life[p] # "unborn" => life'[p] # "unborn"
    BY <2>1 DEF ProgramEffect
  <2>5. \A p \in Elements(queue') \cup Elements(caps') : life'[p] # "unborn"
    BY <1>0, <2>1, <2>3, <2>4 DEF BornInv, ProgramEffect
  <2> QED
    BY <1>0, <2>1, <2>2, <2>4, <2>5 DEF BornInv
<1> QED
  BY <1>1, <1>2, <1>3, <1>4, StepKinds

\* No open definition is lost while the executing call is on its way.
LEMMA OpenNext ==
    ASSUME IInv, Next
    PROVE  OpenInv'
<1> DEFINE Entered == {"body", "returned"} \cup Draining
<1> USE DEF IInv
<1>0. TypeInv /\ ClaimInv /\ ClaimInv' /\ EntryInv /\ BornInv /\ OpenInv
  BY ClaimNext
<1>o. \A c \in Calls : pc[c] \in Entered => \A o \in Objects : life[o] = "open" => Reached(c, o)
  BY <1>0 DEF OpenInv, Reached
<1> SUFFICES ASSUME NEW c \in Calls, pc'[c] \in Entered, NEW o \in Objects, life'[o] = "open"
             PROVE  Reached(c, o)'
  BY DEF OpenInv, Reached
<1>1. CASE Lifecycle
  BY <1>1, <1>o, LifecycleKeeps DEF Reached
<1>2. ASSUME NEW d \in Calls, GoingTo(d) PROVE Reached(c, o)'
  <2>1. UNCHANGED <<queue, life, target>>
    BY <1>2, GoingToMoves DEF objectVars, GoTo
  <2>2. PICK l \in Places : GoTo(d, l)
    BY <1>2, GoingToMoves
  <2>3. pc'[d] = l /\ \A e \in Calls : e # d => pc'[e] = pc[e]
    BY <1>0, <2>2, Moved, PlaceNames DEF GoTo
  <2>4. CASE c # d
    BY <1>o, <2>1, <2>3, <2>4 DEF Reached
  <2>5. CASE c = d
    <3>1. pc[c] # "finalize" /\ (pc[c] \in Entered \/ pc[c] \in {"entering", "begun"})
      <4>1. CASE ExecSoac(c) \/ ExecInterpreter(c) \/ ExecCleared(c) \/ RootBegin(c) \/ Failing(c)
        <5>1. pc'[c] \in {"begun", "failing", "taken", "error", "entering"}
          BY <1>0, <4>1, Moved DEF ExecSoac, ExecInterpreter, ExecCleared, RootBegin, Failing, GoTo,
             Working, Claiming, Resting
        <5> QED
          BY <5>1 DEF Draining
      <4>2. CASE RootEnter(c) \/ EnterInitializer(c) \/ BodyEnds(c) \/ BeginSealing(c) \/ DrainRefused(c)
        BY <4>2 DEF RootEnter, EnterInitializer, BodyEnds, BeginSealing, DrainRefused, Draining
      <4>3. CASE Repeat(c) \/ Quiescent(c) \/ FinishSealing(c) \/ OwnersFail(c)
        BY <4>3 DEF Repeat, Quiescent, FinishSealing, OwnersFail, Draining
      <4> QED
        BY <1>2, <2>5, <4>1, <4>2, <4>3 DEF GoingTo
    <3>2. CASE pc[c] \in Entered
      BY <1>o, <2>1, <3>1, <3>2 DEF Reached
    <3>3. CASE pc[c] \in {"entering", "begun"}
      <4>1. life[o] = "unborn"
        BY <1>0, <3>3 DEF EntryInv, BornInv, Claiming
      <4> QED
        BY <2>1, <4>1
    <3> QED
      BY <3>1, <3>2, <3>3
  <2> QED
    BY <2>4, <2>5
<1>3. ASSUME NEW d \in Calls, Registry(d) PROVE Reached(c, o)'
  <2>1. RegistryEffect(d)
    BY <1>3, RegistryHas
  <2>2. CASE c # d
    <3>1. pc[c] = pc'[c] /\ pc[d] \in Working /\ pc[c] \in Working
      BY <2>1, <2>2 DEF RegistryEffect, Working
    <3> QED
      BY <1>0, <2>2, <3>1 DEF ClaimInv
  <2>3. CASE c = d
    <3>1. pc[c] \in Entered /\ life[o] = "open" /\ pc'[c] # "failing"
      BY <2>1, <2>3 DEF RegistryEffect, Draining
    <3>2. Reached(c, o)
      BY <1>o, <3>1
    <3> QED
      BY <2>1, <2>3, <3>1, <3>2 DEF RegistryEffect
  <2> QED
    BY <2>2, <2>3
<1>4. ASSUME NEW x \in Objects, Program(x) PROVE Reached(c, o)'
  <2>1. ProgramEffect(x) /\ UNCHANGED <<pc, target>>
    BY <1>4, ProgramHas, ProgramKeeps
  <2>2. CASE o # x
    BY <1>o, <2>1, <2>2 DEF ProgramEffect, Reached
  <2>3. CASE o = x
    BY <1>o, <2>1, <2>3 DEF ProgramEffect, Reached
  <2> QED
    BY <2>2, <2>3
<1> QED
  BY <1>1, <1>2, <1>3, <1>4, StepKinds

--------------------------------------------------------------------------------
\* A step that changes nothing keeps the invariant.
LEMMA StutterKeeps ==
    ASSUME IInv, UNCHANGED vars
    PROVE  IInv'
<1>1. UNCHANGED <<backend, root, rootCode, phase, started, entered, handle, ownerLive,
                  queue, caps, life, pc, target>>
  BY DEF vars, policyVars, objectVars, callVars
<1>2. TypeInv' /\ HandleInv' /\ RestInv'
  BY <1>1 DEF IInv, TypeInv, HandleInv, RestInv
<1>3. ClaimInv' /\ EntryInv'
  BY <1>1 DEF IInv, ClaimInv, EntryInv, Claimed
<1>4. BornInv' /\ OpenInv'
  BY <1>1 DEF IInv, BornInv, OpenInv
<1> QED
  BY <1>2, <1>3, <1>4 DEF IInv

\* A module that is created has no calls and no definitions yet.
LEMMA InitIInv ==
    ASSUME Init
    PROVE  IInv
<1>1. \A c \in Calls : pc[c] = "idle" /\ target[c] = Nothing
  BY DEF Init
<1>2. \A o \in Objects : life[o] = "unborn"
  BY DEF Init
<1>3. Elements(queue) = {} /\ Elements(caps) = {} /\ queue \in Seq(Objects) /\ caps \in Seq(Objects)
  <2>1. <<>> \in Seq(Objects)
    BY SMTT(20)
  <2> QED
    BY <2>1, Positions DEF Init
<1>4. TypeInv
  BY <1>1, <1>3, SMTT(20) DEF Init, TypeInv, Lives, Resting
<1>5. HandleInv /\ RestInv
  BY <1>1 DEF Init, HandleInv, RestInv
<1>6. ClaimInv /\ EntryInv
  BY <1>1 DEF Init, ClaimInv, EntryInv, Claimed, Working, Claiming, Draining
<1>7. BornInv
  BY <1>1, <1>2, <1>3, ImportAssumption DEF BornInv
<1>8. OpenInv
  BY <1>2 DEF OpenInv
<1> QED
  BY <1>4, <1>5, <1>6, <1>7, <1>8 DEF IInv

\* The invariant holds along every behaviour.
LEMMA IInvariant == Spec => []IInv
<1>1. Init => IInv
  BY InitIInv
<1>2. IInv /\ [Next]_vars => IInv'
  BY TypeNext, HandleNext, ClaimNext, EntryNext, RestNext, BornNext, OpenNext, StutterKeeps DEF IInv
<1> QED
  BY <1>1, <1>2, PTL DEF Spec

\* For any number of calls: once no exec_module call is running, a module that was
\* executed is published or closed.
THEOREM SettledAtRestHolds == Spec => []SettledAtRest
<1>1. IInv => SettledAtRest
  <2> SUFFICES ASSUME IInv, \A c \in Calls : pc[c] \in Resting, NEW d \in Calls, pc[d] # "idle"
               PROVE  phase \in {"Sealed", "Failed", "Terminal"}
    BY DEF SettledAtRest
  <2>1. phase \notin {"Initializing", "Sealing"}
    BY DEF IInv, RestInv
  <2>2. phase # "Discovered"
    BY DEF IInv, HandleInv
  <2> QED
    BY <2>1, <2>2 DEF IInv, TypeInv
<1> QED
  BY <1>1, IInvariant, PTL

\* Only finish_sealing publishes, and it does so with the queues empty and every
\* definition settled.
LEMMA SealStep ==
    ASSUME IInv, Next, phase' = "Sealed", phase # "Sealed"
    PROVE  (\A o \in Objects : life[o] # "open") /\ queue = <<>> /\ caps = <<>>
<1>1. ~Lifecycle
  BY DEF Lifecycle, Install, FinishInstall, AbortInstall, ReleaseHandle, OwnerTeardown
<1>2. ASSUME NEW c \in Calls PROVE ~Registry(c)
  BY RegistryKeeps
<1>3. ASSUME NEW o \in Objects PROVE ~Program(o)
  BY ProgramKeeps
<1>4. PICK c \in Calls : GoingTo(c)
  BY <1>1, <1>2, <1>3, StepKinds
<1>5. FinishSealing(c)
  BY <1>4 DEF GoingTo, ExecSoac, ExecInterpreter, ExecCleared, RootBegin, RootEnter, EnterInitializer,
     BodyEnds, BeginSealing, DrainRefused, Repeat, Quiescent, OwnersFail, Failing, policyVars
<1>6. pc[c] \in {"owners", "drain"} /\ queue = <<>> /\ caps = <<>>
  BY <1>5 DEF FinishSealing, Drained
<1>7. \A o \in Elements(queue) : FALSE
  BY <1>6, Positions DEF IInv, TypeInv
<1>8. ASSUME NEW o \in Objects, life[o] = "open" PROVE FALSE
  BY <1>6, <1>7, <1>8 DEF IInv, OpenInv, Draining
<1> QED
  BY <1>6, <1>8

\* For any number of calls and definitions: a module is published with nothing
\* queued, no capability unpublished and no definition open.
THEOREM PublishesCompleteHolds == Spec => PublishesComplete
<1>1. IInv /\ [Next]_vars =>
        [phase' = "Sealed" /\ phase # "Sealed" =>
           (\A o \in Objects : life[o] # "open") /\ queue = <<>> /\ caps = <<>>]_vars
  BY SealStep
<1> QED
  BY <1>1, IInvariant, PTL DEF Spec, PublishesComplete

--------------------------------------------------------------------------------
(* The drivers implement the strict namespace.                              *)

\* The receipts and capabilities the registry holds, and the dictionary, which the
\* import does not look into.
Pending == {queue[i] : i \in DOMAIN queue} \cup {caps[i] : i \in DOMAIN caps}
NoBindings == [k \in {"odd", "alien"} |-> Nothing]

\* What a sequence holds at its positions are its elements.
LEMMA AtPositions ==
    ASSUME NEW S, NEW s \in Seq(S)
    PROVE  {s[i] : i \in DOMAIN s} = Elements(s) /\ Elements(s) \subseteq S
<1>1. DOMAIN s = 1..Len(s) /\ \A o \in Elements(s) : o \in S
  BY Positions
<1> QED
  BY <1>1 DEF Elements

\* A step that changes the policy only in the mapped variables named here is a
\* stutter of the namespace.
LEMMA NamespaceStutter ==
    ASSUME UNCHANGED <<phase, started, entered, handle, ownerLive, Pending>>
    PROVE  UNCHANGED Namespace!vars
BY DEF Namespace!vars, Namespace!lifetime, Pending

\* What is pending before and after a step.
LEMMA PendingIs ==
    ASSUME IInv, IInv'
    PROVE  /\ Pending = Elements(queue) \cup Elements(caps) /\ Pending \subseteq Objects
           /\ Pending' = Elements(queue') \cup Elements(caps')
<1>1. queue \in Seq(Objects) /\ caps \in Seq(Objects) /\ queue' \in Seq(Objects) /\ caps' \in Seq(Objects)
  BY DEF IInv, TypeInv
<1>2. \A s \in Seq(Objects) : {s[i] : i \in DOMAIN s} = Elements(s) /\ Elements(s) \subseteq Objects
  BY AtPositions
<1> QED
  BY <1>1, <1>2 DEF Pending

\* Taking records out of the registries of a usable module is TakePending.
LEMMA TakeRefines ==
    ASSUME IInv, IInv', Usable, UNCHANGED <<phase, started, entered, handle, ownerLive>>,
           Elements(queue') \subseteq Elements(queue), Elements(caps') \subseteq Elements(caps)
    PROVE  Namespace!Next \/ UNCHANGED Namespace!vars
<1>1. /\ Pending = Elements(queue) \cup Elements(caps) /\ Pending \subseteq Objects
      /\ Pending' = Elements(queue') \cup Elements(caps')
  BY PendingIs
<1>2. PICK R \in SUBSET Objects : R \subseteq Pending /\ Pending' = Pending \ R
  <2>1. \E R \in SUBSET Objects : R = Pending \ Pending'
    BY <1>1
  <2> QED
    BY <1>1, <2>1
<1>3. handle # "absent"
  BY DEF IInv, HandleInv, Usable, Executable
<1>4. CASE R = {}
  BY <1>2, <1>4, NamespaceStutter
<1>5. CASE R # {}
  <2>1. Namespace!TakePending(R)
    BY <1>2, <1>3, <1>5 DEF Namespace!TakePending, Namespace!Attached, Namespace!Executable,
       Namespace!lifetime, Usable, Executable, Pending
  <2> QED
    BY <2>1 DEF Namespace!Next
<1> QED
  BY <1>4, <1>5

\* Recording an object in a registry of a usable module is RegisterPending.
LEMMA RegisterRefines ==
    ASSUME IInv, Usable, UNCHANGED <<phase, started, entered, handle, ownerLive>>,
           NEW o \in Objects, Pending' = Pending \cup {o}
    PROVE  Namespace!Next \/ UNCHANGED Namespace!vars
<1>1. handle # "absent"
  BY DEF IInv, HandleInv, Usable, Executable
<1>2. CASE o \in Pending
  <2>1. Pending' = Pending
    BY <1>2
  <2> QED
    BY <2>1, NamespaceStutter
<1>3. CASE o \notin Pending
  <2>1. Namespace!RegisterPending(o)
    BY <1>1, <1>3 DEF Namespace!RegisterPending, Namespace!Attached, Namespace!Executable,
       Namespace!lifetime, Usable, Executable, Pending
  <2> QED
    BY <2>1 DEF Namespace!Next
<1> QED
  BY <1>2, <1>3

\* Moves of a call: claiming the execution, entering the body, sealing and failing
\* are operations of the namespace, the rest is invisible in it.
LEMMA GoingToRefines ==
    ASSUME IInv, NEW c \in Calls, GoingTo(c)
    PROVE  Namespace!Next \/ UNCHANGED Namespace!vars
<1> USE DEF IInv
<1>0. TypeInv /\ HandleInv /\ ClaimInv /\ EntryInv
  OBVIOUS
<1>1. UNCHANGED <<queue, caps, handle, ownerLive>> /\ handle \in {"held", "released"}
  BY <1>0, GoingToMoves, GoingToPolicy DEF objectVars, PolicyEffect
<1>2. CASE UNCHANGED <<phase, started, entered>>
  BY <1>1, <1>2, NamespaceStutter DEF Pending
<1>3. CASE MayStart /\ started' = TRUE /\ UNCHANGED <<phase, entered>>
  <2>1. Namespace!BeginExecution
    BY <1>1, <1>3 DEF MayStart, Namespace!BeginExecution, Namespace!Attached, Namespace!lifetime
  <2> QED
    BY <2>1 DEF Namespace!Next
<1>4. CASE /\ ownerLive /\ phase = "Initializing" /\ started /\ entered = FALSE
           /\ entered' = TRUE /\ UNCHANGED <<phase, started>>
  <2>1. Namespace!RecordInitializerEntry
    BY <1>0, <1>1, <1>4 DEF HandleInv, Namespace!RecordInitializerEntry, Namespace!Attached, Namespace!lifetime
  <2> QED
    BY <2>1 DEF Namespace!Next
<1>5. CASE ExecSoac(c) \/ ExecInterpreter(c) \/ ExecCleared(c) \/ RootBegin(c)
  BY <1>2, <1>3, <1>5 DEF ExecSoac, ExecInterpreter, ExecCleared, RootBegin, policyVars
<1>6. CASE EnterInitializer(c)
  BY <1>0, <1>2, <1>4, <1>6 DEF EnterInitializer, EntryInv
<1>7. CASE RootEnter(c)
  <2>1. started /\ entered = FALSE /\ phase \notin {"Sealing", "Sealed"}
    BY <1>0, <1>7 DEF RootEnter, EntryInv, Claiming
  <2> QED
    BY <1>2, <1>4, <1>7, <2>1 DEF RootEnter, Executable
<1>8. CASE BodyEnds(c) \/ DrainRefused(c) \/ Repeat(c) \/ Quiescent(c) \/ OwnersFail(c)
  BY <1>2, <1>8 DEF BodyEnds, DrainRefused, Repeat, Quiescent, OwnersFail, policyVars
<1>9. CASE BeginSealing(c)
  <2>1. UNCHANGED <<started, entered>>
    BY <1>9 DEF BeginSealing
  <2>2. CASE ownerLive /\ started /\ phase = "Initializing" /\ phase' \in {"Sealing", "Failed"}
    <3>1. Namespace!BeginSealing
      BY <1>1, <2>1, <2>2 DEF Namespace!BeginSealing, Namespace!Attached, Namespace!lifetime
    <3> QED
      BY <3>1 DEF Namespace!Next
  <2>3. CASE UNCHANGED phase
    BY <1>2, <2>1, <2>3
  <2> QED
    BY <1>9, <2>2, <2>3 DEF BeginSealing
<1>10. CASE FinishSealing(c)
  <2>1. UNCHANGED <<started, entered>>
    BY <1>10 DEF FinishSealing
  <2>2. CASE ownerLive /\ Drained /\ phase = "Sealing" /\ phase' = "Sealed"
    <3>1. Pending = {}
      <4>1. queue = <<>> /\ caps = <<>> /\ <<>> \in Seq(Objects)
        BY <1>0, <2>2 DEF Drained, TypeInv
      <4>2. {<<>>[i] : i \in DOMAIN <<>>} = {}
        BY SMTT(20)
      <4> QED
        BY <4>1, <4>2 DEF Pending
    <3>2. Namespace!FinishSealing
      BY <1>1, <2>1, <2>2, <3>1 DEF Namespace!FinishSealing, Namespace!Attached, Namespace!lifetime, Pending
    <3> QED
      BY <3>2 DEF Namespace!Next
  <2>3. CASE UNCHANGED phase
    BY <1>2, <2>1, <2>3
  <2> QED
    BY <1>10, <2>2, <2>3 DEF FinishSealing
<1>11. CASE Failing(c)
  <2>1. UNCHANGED <<started, entered>>
    BY <1>11 DEF Failing
  <2>2. CASE handle = "held" /\ phase \in Unfinished /\ phase' = "Failed"
    <3>1. Namespace!Fail
      BY <1>1, <2>1, <2>2 DEF Namespace!Fail, Namespace!Unfinished, Unfinished, Namespace!lifetime
    <3> QED
      BY <3>1 DEF Namespace!Next
  <2>3. CASE UNCHANGED phase
    BY <1>2, <2>1, <2>3
  <2> QED
    BY <1>11, <2>2, <2>3 DEF Failing
<1> QED
  BY <1>5, <1>6, <1>7, <1>8, <1>9, <1>10, <1>11 DEF GoingTo

\* Installation, release and teardown are the operations of the same names.
LEMMA LifecycleRefines ==
    ASSUME IInv, Lifecycle
    PROVE  Namespace!Next
<1>1. UNCHANGED <<queue, caps, started, entered>>
  BY LifecycleKeeps
<1>2. CASE Install
  <2>1. \A k \in Namespace!Keys : NoBindings[k] = Nothing
    BY DEF Namespace!Keys, NoBindings
  <2>2. Namespace!InstallPolicy
    BY <1>1, <1>2, <2>1 DEF Install, Namespace!InstallPolicy, NoBindings
  <2> QED
    BY <2>2 DEF Namespace!Next
<1>3. CASE FinishInstall
  <2>1. Namespace!FinishInstall
    BY <1>1, <1>3 DEF FinishInstall, Namespace!FinishInstall
  <2> QED
    BY <2>1 DEF Namespace!Next
<1>4. CASE AbortInstall
  <2>1. Namespace!AbortInstall
    BY <1>1, <1>4 DEF AbortInstall, Namespace!AbortInstall
  <2> QED
    BY <2>1 DEF Namespace!Next
<1>5. CASE ReleaseHandle
  <2>1. Namespace!ReleaseHandle
    BY <1>1, <1>5 DEF ReleaseHandle, Namespace!ReleaseHandle
  <2> QED
    BY <2>1 DEF Namespace!Next
<1>6. CASE OwnerTeardown
  <2>1. Namespace!OwnerTeardown
    BY <1>1, <1>6 DEF OwnerTeardown, Namespace!OwnerTeardown
  <2> QED
    BY <2>1 DEF Namespace!Next
<1> QED
  BY <1>2, <1>3, <1>4, <1>5, <1>6 DEF Lifecycle

\* Work on the registries takes receipts, records a capability or is invisible.
LEMMA RegistryRefines ==
    ASSUME IInv, IInv', NEW c \in Calls, Registry(c)
    PROVE  Namespace!Next \/ UNCHANGED Namespace!vars
<1>1. RegistryEffect(c) /\ UNCHANGED <<phase, started, entered, handle, ownerLive>>
  BY RegistryHas, RegistryKeeps DEF IInv
<1>2. CASE UNCHANGED <<queue, caps>>
  BY <1>1, <1>2, NamespaceStutter DEF Pending
<1>3. CASE Usable /\ Elements(caps') \subseteq Elements(caps)
  BY <1>1, <1>3, TakeRefines DEF RegistryEffect
<1>4. CASE Usable /\ UNCHANGED queue /\ target[c] \in Objects /\ Elements(caps') = Elements(caps) \cup {target[c]}
  <2>1. Pending' = Pending \cup {target[c]}
    BY <1>4, PendingIs
  <2> QED
    BY <1>1, <1>4, <2>1, RegisterRefines
<1> QED
  BY <1>1, <1>2, <1>3, <1>4 DEF RegistryEffect

\* The program registers, takes back or leaves receipts.
LEMMA ProgramRefines ==
    ASSUME IInv, IInv', NEW o \in Objects, Program(o)
    PROVE  Namespace!Next \/ UNCHANGED Namespace!vars
<1>1. ProgramEffect(o) /\ UNCHANGED <<phase, started, entered, handle, ownerLive>>
  BY ProgramHas, ProgramKeeps DEF IInv
<1>2. UNCHANGED caps
  BY <1>1 DEF ProgramEffect
<1>3. CASE UNCHANGED queue
  BY <1>1, <1>2, <1>3, NamespaceStutter DEF Pending
<1>4. CASE Usable /\ Elements(queue') \subseteq Elements(queue)
  BY <1>1, <1>2, <1>4, TakeRefines
<1>5. CASE Usable /\ Elements(queue') = Elements(queue) \cup {o}
  <2>1. Pending' = Pending \cup {o}
    BY <1>2, <1>5, PendingIs
  <2> QED
    BY <1>1, <1>5, <2>1, RegisterRefines
<1> QED
  BY <1>1, <1>3, <1>4, <1>5 DEF ProgramEffect

\* Both drivers, with everything the program does meanwhile, implement the strict
\* namespace: every step is one of its operations or invisible to it.
THEOREM ImplementsNamespaceHolds == Spec => ImplementsNamespace
<1>1. Init => Namespace!Init
  <2> SUFFICES ASSUME Init PROVE Namespace!Init
    OBVIOUS
  <2>1. Pending = {}
    BY SMTT(20) DEF Init, Pending
  <2>2. Namespace!Keys = {"odd", "alien"}
    BY DEF Namespace!Keys
  <2>3. NoBindings \in [{"odd", "alien"} -> {} \cup {Nothing}] /\ NoBindings["alien"] = Nothing
    BY SMTT(20) DEF NoBindings
  <2> QED
    BY <2>1, <2>2, <2>3 DEF Init, Namespace!Init, Pending, NoBindings
<1>2. IInv /\ IInv' /\ [Next]_vars => [Namespace!Next]_(Namespace!vars)
  <2> SUFFICES ASSUME IInv, IInv', [Next]_vars PROVE Namespace!Next \/ UNCHANGED Namespace!vars
    OBVIOUS
  <2>1. CASE UNCHANGED vars
    BY <2>1, NamespaceStutter DEF vars, policyVars, objectVars, Pending
  <2>2. CASE Next
    BY <2>2, StepKinds, LifecycleRefines, GoingToRefines, RegistryRefines, ProgramRefines
  <2> QED
    BY <2>1, <2>2
<1> QED
  BY <1>1, <1>2, IInvariant, PTL DEF Spec, ImplementsNamespace, Namespace!Spec
================================================================================
