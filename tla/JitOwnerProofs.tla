---------------------------- MODULE JitOwnerProofs -----------------------------
(***************************************************************************)
(* Whatever the call graph, the threads and the errors: the callees of a   *)
(* published function have bodies, and what is being compiled has an       *)
(* owner.                                                                  *)
(***************************************************************************)
EXTENDS JitProofs

USE ZenonT(30)

--------------------------------------------------------------------------------
\* What is committed together is pending, and waits for nothing outside.
LEMMA CommitReadyFacts ==
    ASSUME NEW pending, NEW remaining, NEW define
    PROVE  /\ CommitReady(pending, remaining, define) \subseteq pending
           /\ \A f \in CommitReady(pending, remaining, define) :
                 Calls[f] \cap define \cap remaining \subseteq CommitReady(pending, remaining, define)
BY DEF CommitReady

\* The message at the head of the channel leaves it.
LEMMA ReceiveHead ==
    ASSUME TypeOK, chan # <<>>, chan' = Tail(chan)
    PROVE  /\ Sent = Sent' \cup {Head(chan).f} /\ Head(chan).f \in Functions
           /\ (Bad' => Bad) /\ (Head(chan).ok /\ Bad => Bad')
<1> DEFINE Messages == [f : Functions, ok : BOOLEAN]
           h == Head(chan)
           t == Tail(chan)
<1>1. chan \in Seq(Messages)
  BY DEF TypeOK
<1>2. h = chan[1] /\ h \in Messages
  <2> HIDE DEF Messages
  <2> QED  BY <1>1, SMTT(20)
<1>3. /\ Len(chan) \in Nat \ {0} /\ Len(t) = Len(chan) - 1
      /\ \A i \in 1..Len(t) : t[i] = chan[i + 1]
  <2> HIDE DEF Messages
  <2> QED  BY <1>1, SMTT(20)
<1>4. \A i \in 1..Len(chan) : i # 1 => i - 1 \in 1..Len(t) /\ t[i - 1] = chan[i]
  BY <1>3, SMTT(20)
<1>5. \A i \in 1..Len(t) : i + 1 \in 1..Len(chan)
  BY <1>3, SMTT(20)
<1>6. chan' = t /\ 1 \in 1..Len(chan)
  BY <1>3, SMTT(20)
<1> HIDE DEF Messages, h, t
<1>7. Sent = Sent' \cup {h.f}
  <2>1. Sent \subseteq Sent' \cup {h.f}
    <3> SUFFICES ASSUME NEW i \in 1..Len(chan), i # 1 PROVE chan[i].f \in Sent'
      BY <1>2 DEF Sent
    <3>1. i - 1 \in 1..Len(chan') /\ chan'[i - 1] = chan[i]
      BY <1>4, <1>6
    <3> QED  BY <3>1 DEF Sent
  <2>2. Sent' \cup {h.f} \subseteq Sent
    BY <1>2, <1>3, <1>5, <1>6, SMTT(20) DEF Sent
  <2> QED  BY <2>1, <2>2
<1>8. (Bad' => Bad) /\ (h.ok /\ Bad => Bad')
  BY <1>2, <1>3, <1>4, <1>5, <1>6, SMTT(20) DEF Bad
<1>9. h.f \in Functions
  BY <1>2 DEF Messages
<1> QED  BY <1>7, <1>8, <1>9 DEF h

\* What is in flight, in its parts.
LEMMA InFlightParts ==
    /\ InFlight = Compiled \cup Sent \cup bg.pending \cup Group
    /\ InFlight' = Compiled' \cup Sent' \cup bg'.pending \cup Group'
BY DEF InFlight, Compiled, Sent

\* A published group is ready.
LEMMA Published ==
    ASSUME TypeOK, NEW group \in SUBSET Functions, MarkReady(group)
    PROVE  /\ \A f \in group : Ready(f)'
           /\ \A f \in Functions \ group : entry'[f] = entry[f]
BY DEF MarkReady, Ready

\* It stays true under the steps of the background thread itself.
LEMMA BgOwn ==
    ASSUME TypeOK, TypeOK', TableInv, Kept, BgInv, BgNext PROVE BgInv'
<1> DEFINE p == bg.plan
<1>0. bg \in BgSet /\ bg' \in BgSet'
  BY DEF TypeOK
<1>1. CASE BgScan \/ BgJoin
  <2>1. /\ UNCHANGED <<worker, plans>> /\ bg'.pc \in {"scan", "done", "reserve"}
        /\ bg.pc \in {"scan", "join"}
    BY <1>0, <1>1 DEF BgScan, BgJoin, BgSet, pool, table
  <2> QED  BY <2>1 DEF BgInv, Active, Running
<1>2. CASE BgReserve
  <2>1. CASE bg'.pc \in {"scan", "join", "done"} /\ worker' = worker
    BY <1>2, <2>1 DEF BgInv, Active, Running, BgReserve
  <2>2. CASE NeedsCompile(bg.root) /\ Reserve(Module) /\ bg' = [bg EXCEPT !.pc = "plan", !.plan = Len(plans) + 1]
    <3> DEFINE define == {f \in Module : NeedsCompile(f)}
               r == [define |-> define, elsewhere |-> {f \in Module : Compiling(f)}, broken |-> FALSE, attached |-> FALSE, queue |-> <<>>]
    <3>1. plans' = Append(plans, r) /\ r \in PlanSet
      BY <2>2, ModuleInside, SMTT(20) DEF Reserve, PlanSet
    <3>2. r.define \subseteq Module /\ ~r.broken /\ ~r.attached
      OBVIOUS
    <3> HIDE DEF r
    <3>3. PlanIds' = PlanIds \cup {Len(plans) + 1} /\ plans'[Len(plans) + 1] = r
      BY <3>1, AppendPlan DEF TypeOK
    <3>4. bg'.pc = "plan" /\ bg'.plan = Len(plans) + 1 /\ worker' = worker
      BY <1>0, <1>2, <2>2 DEF BgSet, BgReserve, pool
    <3>5. \A w \in Workers : worker[w].pc = "exit"
      BY <1>2 DEF BgInv, BgReserve
    <3> QED  BY <3>2, <3>3, <3>4, <3>5 DEF BgInv, Active, Running, Define
  <2> QED  BY <1>0, <1>2, <2>1, <2>2 DEF BgReserve, BgSet, pool
<1>3. CASE BgPlan
  <2>1. /\ UNCHANGED <<worker, plans>> /\ bg'.pc \in {"attach", "fail"} /\ bg'.plan = bg.plan
        /\ bg.pc = "plan"
    BY <1>0, <1>3 DEF BgPlan, BgSet, pool, table
  <2>2. Define' = Define /\ PlanIds' = PlanIds
    BY <2>1 DEF Define, PlanIds
  <2> QED  BY <2>1, <2>2 DEF BgInv, Active, Running
<1>4. CASE BgAttach
  <2>0. p \in PlanIds /\ ~plans[p].broken /\ Define \subseteq Module /\ plans \in Seq(PlanSet) /\ plans[p] \in PlanSet
    BY <1>4, PlanParts DEF BgInv, Active, BgAttach, TypeOK
  <2>1. /\ bg'.pc = "collect" /\ bg'.plan = p /\ bg'.pending = {} /\ bg'.remaining = Define
        /\ chan' = <<>> /\ ~stop' /\ \A w \in Workers : worker'[w].pc = "loop"
    <3>1. worker' = [w \in Workers |-> [worker[w] EXCEPT !.pc = "loop"]]
      BY <1>4 DEF BgAttach
    <3>2. \A w \in Workers : worker'[w].pc = "loop"
      BY <3>1, SMTT(20) DEF TypeOK
    <3> QED  BY <1>0, <1>4, <3>2 DEF BgAttach, BgSet, Define
  <2>2. plans' = [plans EXCEPT ![p].attached = TRUE, ![p].queue = Keep(Order, plans[p].define)]
    BY <1>4 DEF BgAttach
  <2>3. plans'[p].attached
    BY <2>0, <2>2, SMTT(20) DEF PlanSet, PlanIds
  <2>4. p \in PlanIds' /\ ~plans'[p].broken /\ Define' = Define
    BY <2>0, <2>1 DEF Kept, Define
  <2>5. InFlight' = {} /\ Running' /\ Active'
    BY <2>1, SMTT(20) DEF InFlight, Group, Running, Active
  <2> QED  BY <2>0, <2>1, <2>3, <2>4, <2>5 DEF BgInv
<1>5. CASE BgFail
  <2>1. UNCHANGED <<worker, plans>> /\ bg'.pc = "done" /\ bg.pc = "fail"
    BY <1>0, <1>5 DEF BgFail, BgSet, pool
  <2> QED  BY <2>1 DEF BgInv, Active, Running
<1> DEFINE Same == UNCHANGED <<plans, worker>> /\ bg'.plan = bg.plan
<1>a. ASSUME Running, Same
      PROVE  /\ p \in PlanIds /\ p \in PlanIds' /\ ~plans[p].broken /\ plans[p].attached /\ Define' = Define /\ Define \subseteq Module
             /\ Queued(bg.plan)' = Queued(bg.plan) /\ Define \subseteq Functions
             /\ InFlight \subseteq Define /\ \A f \in Define : f \in bg.remaining \/ Ready(f)
             /\ \A f \in Functions : Ready(f) => Ready(f)'
             /\ Compiled' = Compiled
  <2>1. p \in PlanIds /\ ~plans[p].broken /\ plans[p].attached /\ Define \subseteq Module
        /\ InFlight \subseteq Define /\ \A f \in Define : f \in bg.remaining \/ Ready(f)
    BY <1>a DEF BgInv, Active
  <2>2. Define' = Define /\ Queued(bg.plan)' = Queued(bg.plan) /\ PlanIds' = PlanIds /\ Compiled' = Compiled
    BY <1>a DEF Define, Queued, PlanIds, Compiled
  <2>3. Define \subseteq Functions
    BY <2>1, ModuleInside
  <2> QED  BY <2>1, <2>2, <2>3 DEF Kept
<1>b. ASSUME Running, Same, Running', InFlight' \subseteq Define, stop => stop', stop' => bg'.error \/ Bad',
             \A f \in Define : f \in bg'.remaining \/ Ready(f)',
             bg'.pc \in {"commit", "last"} => ~bg'.error /\ \A f \in bg'.group : \A g \in Calls[f] \cap Define : g \in bg'.group \/ Ready(g)',
             bg'.pc = "last" => chan' = <<>> /\ \A w \in Workers : worker[w].pc = "exit"
      PROVE  BgInv'
  <2>1. /\ p \in PlanIds' /\ ~plans[p].broken /\ plans[p].attached /\ Define' = Define /\ Define \subseteq Module
        /\ Queued(bg.plan)' = Queued(bg.plan)
    BY <1>a, <1>b
  <2>2. \A w \in Workers : worker'[w].pc = "exit" => stop' \/ Queued(bg.plan)' = {}
    BY <1>b, <2>1 DEF BgInv
  <2>3. bg'.pc \in {"collect", "commit", "last"}
    BY <1>b DEF Running
  <2> QED  BY <1>b, <2>1, <2>2, <2>3 DEF BgInv
<1>c. ASSUME Running, Same, bg'.pc = "fail", \A w \in Workers : worker[w].pc = "exit" PROVE BgInv'
  <2>1. p \in PlanIds' /\ ~plans[p].broken /\ Define' = Define /\ Define \subseteq Module
    BY <1>a, <1>c
  <2> QED  BY <1>c, <2>1 DEF BgInv, Running
<1>d. ASSUME bg'.pc = "scan", Same, \A w \in Workers : worker[w].pc = "exit" PROVE BgInv'
  BY <1>d DEF BgInv, Running, Active
<1>6. CASE BgReceive
  <2> DEFINE f == Head(chan).f
             remaining == {g \in bg.remaining : ~Ready(g)}
             pending == bg.pending \cup {f}
             group == CommitReady(pending, remaining, plans[bg.plan].define)
  <2>1. /\ bg.pc = "collect" /\ chan # <<>> /\ chan' = Tail(chan) /\ UNCHANGED <<plans, worker, entry>>
    BY <1>6 DEF BgReceive, table
  <2>2. Sent = Sent' \cup {f} /\ (Bad' => Bad) /\ (Head(chan).ok /\ Bad => Bad')
    BY <2>1, ReceiveHead
  <2>3. Running
    BY <2>1 DEF Running
  <2>4. stop => bg.error \/ Bad
    BY <2>3 DEF BgInv
  <2>5. CASE ~Head(chan).ok /\ stop' = TRUE /\ bg' = [bg EXCEPT !.error = TRUE]
    <3>1. /\ bg'.pc = "collect" /\ bg'.plan = p /\ bg'.error /\ bg'.remaining = bg.remaining /\ bg'.pending = bg.pending
      BY <1>0, <2>1, <2>5 DEF BgSet
    <3>2. Same /\ Running' BY <2>1, <3>1 DEF Running
    <3>3. InFlight' \subseteq InFlight
      BY <1>a, <2>2, <2>3, <3>1, <3>2, InFlightParts DEF Group
    <3> QED  BY <1>a, <1>b, <2>3, <2>5, <3>1, <3>2, <3>3
  <2>6. CASE Head(chan).ok /\ bg.error /\ UNCHANGED <<bg, stop>>
    <3>2. Same /\ Running' /\ Group' = Group BY <2>1, <2>6 DEF Running, Group
    <3>3. InFlight' \subseteq InFlight
      BY <1>a, <2>2, <2>3, <2>6, <3>2, InFlightParts
    <3> QED  BY <1>a, <1>b, <2>1, <2>3, <2>6, <3>2, <3>3
  <2>7. CASE /\ Head(chan).ok /\ ~bg.error /\ stop' = stop
             /\ bg' = [bg EXCEPT !.pending = pending \ group, !.remaining = remaining, !.group = group,
                                 !.pc = IF group = {} THEN "collect" ELSE "commit"]
    <3>1. group \subseteq pending /\ \A x \in group : Calls[x] \cap Define \cap remaining \subseteq group
      <4> HIDE DEF remaining, pending
      <4> QED  BY CommitReadyFacts, SMTT(20) DEF Define
    <3>2. \A x \in Define : x \in remaining \/ Ready(x)
      BY <2>1, <2>3 DEF BgInv
    <3>3. f \in InFlight /\ bg.pending \subseteq InFlight
      BY <2>2, InFlightParts
    <3> HIDE DEF remaining, pending, group
    <3>4. /\ bg'.plan = p /\ bg'.error = bg.error /\ bg'.remaining = remaining /\ bg'.pending = pending \ group /\ bg'.group = group
          /\ bg'.pc = IF group = {} THEN "collect" ELSE "commit"
      BY <1>0, <2>1, <2>7 DEF BgSet
    <3>5. Same /\ Running' /\ Group' \subseteq group BY <2>1, <3>4 DEF Running, Group
    <3>6. InFlight' \subseteq InFlight
      BY <1>a, <2>2, <2>3, <3>1, <3>3, <3>4, <3>5, InFlightParts DEF pending
    <3>7. \A x \in group : \A g \in Calls[x] \cap Define : g \in group \/ Ready(g)
      BY <3>1, <3>2
    <3>8. \A x \in Define : Ready(x)' <=> Ready(x)
      BY <2>1 DEF Ready
    <3> QED  BY <1>a, <1>b, <2>2, <2>3, <2>4, <2>7, <3>2, <3>4, <3>5, <3>6, <3>7, <3>8, SMTT(20)
  <2> QED  BY <1>6, <2>5, <2>6, <2>7 DEF BgReceive
<1>7. CASE BgCommit
  <2>1. bg.pc = "commit" /\ Running /\ chan' = chan /\ UNCHANGED <<worker, plans>> /\ bg'.pc = "collect" /\ bg'.plan = p /\ bg'.pending = bg.pending
    BY <1>0, <1>7 DEF BgCommit, BgSet, Running, Commit, CommitError
  <2>2. Same /\ Running' /\ Group' = {}
    BY <2>1 DEF Running, Group
  <2>3. Sent' = Sent /\ Bad' = Bad
    BY <2>1 DEF Sent, Bad
  <2>4. InFlight' \subseteq InFlight
    BY <1>a, <2>1, <2>2, <2>3, InFlightParts
  <2>5. CASE Commit(bg.group) /\ bg' = [bg EXCEPT !.pc = "collect", !.remaining = @ \ bg.group, !.group = {}] /\ UNCHANGED stop
    <3>1. bg'.remaining = bg.remaining \ bg.group /\ bg'.error = bg.error /\ bg.group \in SUBSET Functions
      BY <1>0, <2>5 DEF BgSet
    <3>2. \A f \in bg.group : Ready(f)'
      BY <2>5, <3>1, Published DEF Commit
    <3>3. \A f \in Define : f \in bg'.remaining \/ Ready(f)'
      BY <1>a, <2>1, <2>2, <3>1, <3>2
    <3>4. stop' => bg'.error \/ Bad'
      BY <2>1, <2>3, <2>5, <3>1 DEF BgInv
    <3> QED  BY <1>a, <1>b, <2>1, <2>2, <2>4, <2>5, <3>3, <3>4
  <2>6. CASE bg' = [bg EXCEPT !.pc = "collect", !.error = TRUE, !.group = {}] /\ stop' = TRUE
    <3>1. bg'.remaining = bg.remaining /\ bg'.error
      BY <1>0, <2>6 DEF BgSet
    <3>3. \A f \in Define : f \in bg'.remaining \/ Ready(f)'
      BY <1>a, <2>1, <2>2, <3>1
    <3> QED  BY <1>a, <1>b, <2>1, <2>2, <2>4, <2>6, <3>1, <3>3
  <2> QED  BY <1>7, <2>5, <2>6 DEF BgCommit
<1>8. CASE BgDrain
  <2> DEFINE remaining == {g \in bg.remaining : ~Ready(g)}
             group == CommitReady(bg.pending, remaining, plans[bg.plan].define)
  <2>1. bg.pc = "collect" /\ chan = <<>> /\ UNCHANGED <<chan, plans, worker, entry, stop>> /\ \A w \in Workers : worker[w].pc = "exit"
    BY <1>8 DEF BgDrain, table, pool
  <2>2. Running
    BY <2>1 DEF Running
  <2>3. CASE bg' = [bg EXCEPT !.pc = "fail"]
    <3>1. bg'.pc = "fail" /\ bg'.plan = p
      BY <1>0, <2>3 DEF BgSet
    <3> QED  BY <1>c, <2>1, <2>2, <3>1
  <2>4. CASE bg' = [bg EXCEPT !.pc = "scan"]
    <3>1. bg'.pc = "scan" /\ bg'.plan = p
      BY <1>0, <2>4 DEF BgSet
    <3> QED  BY <1>d, <2>1, <3>1
  <2>5. CASE ~bg.error /\ bg' = [bg EXCEPT !.pc = "last", !.pending = @ \ group, !.group = group]
    <3>1. group \subseteq bg.pending /\ \A x \in group : Calls[x] \cap Define \cap remaining \subseteq group
      <4> HIDE DEF remaining
      <4> QED  BY CommitReadyFacts, SMTT(20) DEF Define
    <3>2. \A x \in Define : x \in remaining \/ Ready(x)
      BY <2>1, <2>2 DEF BgInv
    <3> HIDE DEF remaining, group
    <3>4. /\ bg'.plan = p /\ bg'.error = bg.error /\ bg'.remaining = bg.remaining /\ bg'.pending = bg.pending \ group /\ bg'.group = group
          /\ bg'.pc = "last"
      BY <1>0, <2>1, <2>5 DEF BgSet
    <3>5. Same /\ Running' /\ Group' = group /\ Sent' = Sent BY <2>1, <3>4 DEF Running, Group, Sent
    <3>6. InFlight' \subseteq InFlight
      BY <1>a, <2>2, <3>1, <3>4, <3>5, InFlightParts
    <3>7. \A x \in group : \A g \in Calls[x] \cap Define : g \in group \/ Ready(g)
      BY <3>1, <3>2
    <3>8. \A x \in Define : Ready(x)' <=> Ready(x)
      BY <2>1 DEF Ready
    <3>9. Bad' = Bad /\ (stop => bg.error \/ Bad)
      BY <2>1, <2>2 DEF Bad, BgInv
    <3>10. \A x \in Define : x \in bg'.remaining \/ Ready(x)'
      BY <1>a, <2>2, <3>4, <3>5, <3>8
    <3> QED  BY <1>a, <1>b, <2>1, <2>2, <2>5, <3>4, <3>5, <3>6, <3>7, <3>8, <3>9, <3>10
  <2> QED  BY <1>8, <2>3, <2>4, <2>5 DEF BgDrain
<1>9. CASE BgLastCommit
  <2>1. bg.pc = "last" /\ Running /\ UNCHANGED <<worker, plans>> /\ bg'.pc \in {"scan", "fail"} /\ bg'.plan = p
    BY <1>0, <1>9 DEF BgLastCommit, BgSet, Running, Commit, CommitError, pool
  <2>2. \A w \in Workers : worker[w].pc = "exit"
    BY <2>1 DEF BgInv
  <2> QED  BY <1>c, <1>d, <2>1, <2>2
<1> QED  BY <1>1, <1>2, <1>3, <1>4, <1>5, <1>6, <1>7, <1>8, <1>9 DEF BgNext

--------------------------------------------------------------------------------
(* What is published, and when.                                             *)

\* A step that publishes part of what one plan defines: all of a group whose
\* callees in the plan are in the group or done with, unless the plan fails.
Publishes ==
    \E r \in PlanIds : \E group \in SUBSET plans[r].define, published \in SUBSET plans[r].define :
       /\ ~plans[r].broken /\ PlanIds' = PlanIds
       /\ \A f \in group : \A g \in Calls[f] \cap plans[r].define : g \in group \/ Ready(g) \/ <<r, g>> \in failed
       /\ published \subseteq group /\ (published = group \/ Doomed(r)')
       /\ published # {} => group \subseteq defined'
       /\ \A f \in Functions : Ready(f)' <=> Ready(f) \/ f \in published

\* A step that publishes nothing.
Quiet == /\ \A f \in Functions : Ready(f)' => Ready(f)
         /\ \A p \in PlanIds' \ PlanIds : \A f \in plans'[p].define : ~Ready(f)'

DoomedStays == \A p \in PlanIds : Doomed(p) => Doomed(p)' \/ Dead(p)'

\* A commit publishes all of a group, or part of it.
LEMMA CommitPublishes ==
    ASSUME TypeOK, NEW r \in PlanIds, NEW group \in SUBSET plans[r].define, ~plans[r].broken,
           \A f \in group : \A g \in Calls[f] \cap plans[r].define : g \in group \/ Ready(g) \/ <<r, g>> \in failed,
           Commit(group) \/ (CommitError(group) /\ Doomed(r)')
    PROVE  Publishes
<1>1. plans[r].define \subseteq Functions
  BY PlanParts DEF TypeOK
<1>2. PICK published \in SUBSET group : /\ MarkReady(published) /\ plans' = plans
                                        /\ published = group \/ Doomed(r)'
                                        /\ published # {} => group \subseteq defined'
  <2>1. CASE Commit(group)
    BY <2>1 DEF Commit
  <2>2. CASE CommitError(group) /\ Doomed(r)'
    BY <2>2 DEF CommitError
  <2> QED  BY <2>1, <2>2
<1>3. PlanIds' = PlanIds
  BY <1>2 DEF PlanIds
<1>4. \A f \in Functions : Ready(f)' <=> Ready(f) \/ f \in published
  BY <1>1, <1>2 DEF MarkReady, Ready
<1>5. published \in SUBSET plans[r].define
  OBVIOUS
<1> QED  BY <1>2, <1>3, <1>4, <1>5 DEF Publishes

\* A step that leaves the entries alone and makes no plan publishes nothing.
LEMMA SameQuiet == ASSUME UNCHANGED entry, PlanIds' = PlanIds PROVE Quiet
BY DEF Quiet, Ready

\* What a reservation takes was not ready.
LEMMA ReserveQuiet ==
    ASSUME TypeOK, NEW batch \in SUBSET Functions, NEW root, Reserve(batch) \/ ReserveBreak(root, batch) PROVE Quiet
<1>0. PICK n : n = Len(plans) + 1  OBVIOUS
<1>1. PICK r \in PlanSet : /\ plans' = Append(plans, r)
                           /\ entry' = [f \in Functions |-> IF f \in r.define THEN [st |-> "compiling", plan |-> n] ELSE entry[f]]
  <2>1. CASE Reserve(batch)
    <3>1. PICK r : r = [define |-> {f \in batch : NeedsCompile(f)}, elsewhere |-> {f \in batch : Compiling(f)},
                        broken |-> FALSE, attached |-> FALSE, queue |-> <<>>]
      OBVIOUS
    <3>2. r \in PlanSet /\ r.define = {f \in batch : NeedsCompile(f)}
      BY <3>1, SMTT(20) DEF PlanSet
    <3> QED  BY <1>0, <2>1, <3>1, <3>2 DEF Reserve
  <2>2. CASE ReserveBreak(root, batch)
    <3>1. PICK done \in SUBSET {f \in batch : NeedsCompile(f)} :
             /\ plans' = Append(plans, [define |-> done, elsewhere |-> {}, broken |-> TRUE, attached |-> FALSE, queue |-> <<>>])
             /\ entry' = [f \in Functions |-> IF f \in done THEN [st |-> "compiling", plan |-> n] ELSE entry[f]]
      BY <1>0, <2>2 DEF ReserveBreak
    <3>2. PICK r : r = [define |-> done, elsewhere |-> {}, broken |-> TRUE, attached |-> FALSE, queue |-> <<>>]
      OBVIOUS
    <3>3. r \in PlanSet /\ r.define = done
      BY <3>2, SMTT(20) DEF PlanSet
    <3> QED  BY <3>1, <3>2, <3>3
  <2> QED  BY <2>1, <2>2
<1>2. PlanIds' = PlanIds \cup {n} /\ plans'[n] = r
  BY <1>0, <1>1, AppendPlan DEF TypeOK
<1>3. r.define \subseteq Functions
  BY DEF PlanSet
<1> QED  BY <1>1, <1>2, <1>3 DEF Quiet, Ready

\* A failure publishes nothing.
LEMMA FailQuiet == ASSUME NEW p, FailBatch(p), UNCHANGED plans PROVE Quiet
BY DEF FailBatch, Quiet, Ready, Idle, PlanIds

\* Every step of the background thread is of one of the two kinds, and leaves
\* a doomed plan doomed until it is dead.
LEMMA BgKinds ==
    ASSUME TypeOK, TypeOK', TableInv, BgInv, AllCallers, BgNext PROVE (Quiet \/ Publishes) /\ DoomedStays
<1> DEFINE p == bg.plan
<1>0. bg \in BgSet /\ bg' \in BgSet' /\ caller' = caller
  BY DEF TypeOK, BgNext, BgScan, BgReserve, BgJoin, BgPlan, BgAttach, BgReceive, BgCommit, BgDrain, BgLastCommit, BgFail
<1>a. ASSUME bg.pc \notin {"fail", "collect"} PROVE DoomedStays
  BY <1>0, <1>a DEF DoomedStays, Doomed, At
<1>b. ASSUME bg.pc = "collect", bg'.plan = bg.plan, bg'.pc = "fail" \/ (bg'.pc = "collect" /\ (bg.error => bg'.error)) \/ ~bg.error PROVE DoomedStays
  BY <1>0, <1>b DEF DoomedStays, Doomed, At
<1>1. CASE BgScan \/ BgJoin \/ BgPlan
  <2>1. UNCHANGED table /\ bg.pc \notin {"fail", "collect"}  BY <1>1 DEF BgScan, BgJoin, BgPlan
  <2> QED  BY <1>a, <2>1, SameQuiet DEF table, PlanIds
<1>2. CASE BgReceive
  <2>1. UNCHANGED <<entry, plans>> /\ bg.pc = "collect"  BY <1>2 DEF BgReceive, table
  <2>2. bg'.plan = bg.plan /\ ((bg'.pc = "collect" /\ (bg.error => bg'.error)) \/ ~bg.error)
    BY <1>0, <1>2 DEF BgReceive, BgSet
  <2> QED  BY <1>b, <2>1, <2>2, SameQuiet DEF PlanIds
<1>3. CASE BgDrain
  <2>1. UNCHANGED <<entry, plans>> /\ bg.pc = "collect"  BY <1>3 DEF BgDrain, table
  <2>2. bg'.plan = bg.plan /\ (bg'.pc = "fail" \/ ~bg.error)
    BY <1>0, <1>3 DEF BgDrain, BgSet
  <2> QED  BY <1>b, <2>1, <2>2, SameQuiet DEF PlanIds
<1>4. CASE BgReserve
  <2>1. UNCHANGED <<entry, plans>> \/ Reserve(Module) \/ ReserveBreak(bg.root, Module)
    BY <1>4 DEF BgReserve
  <2>2. bg.pc \notin {"fail", "collect"}  BY <1>4 DEF BgReserve
  <2> QED  BY <1>a, <2>1, <2>2, ModuleInside, SameQuiet, ReserveQuiet DEF PlanIds
<1>5. CASE BgAttach
  <2>1. UNCHANGED entry /\ PlanIds' = PlanIds /\ bg.pc \notin {"fail", "collect"}
    BY <1>5, SMTT(20) DEF BgAttach, PlanIds, TypeOK
  <2> QED  BY <1>a, <2>1, SameQuiet
<1>6. CASE BgCommit \/ BgLastCommit
  <2>1. bg.pc \in {"commit", "last"}
    BY <1>6 DEF BgCommit, BgLastCommit
  <2>2. p \in PlanIds /\ ~plans[p].broken /\ bg.group \subseteq Define /\ \A f \in bg.group : \A g \in Calls[f] \cap Define : g \in bg.group \/ Ready(g)
    BY <2>1, InFlightParts DEF BgInv, Running, Active, Group
  <2>3. Commit(bg.group) \/ (CommitError(bg.group) /\ Doomed(p)')
    <3>1. CASE CommitError(bg.group) /\ bg' = [bg EXCEPT !.pc = "collect", !.error = TRUE, !.group = {}]
      BY <1>0, <3>1, SMTT(20) DEF Doomed, BgSet
    <3>2. CASE CommitError(bg.group) /\ bg' = [bg EXCEPT !.pc = "fail", !.group = {}]
      BY <1>0, <3>2 DEF Doomed, BgSet
    <3> QED  BY <1>6, <3>1, <3>2 DEF BgCommit, BgLastCommit
  <2>4. PICK q : q = bg.plan  OBVIOUS
  <2>5. Commit(bg.group) \/ (CommitError(bg.group) /\ Doomed(q)')
    <3>1. bg'.plan = bg.plan
      BY <1>0, <1>6 DEF BgCommit, BgLastCommit, BgSet
    <3>2. Doomed(bg.plan)' => Doomed(q)'
      BY <2>4, <3>1 DEF Doomed, At
    <3> QED  BY <2>3, <3>2
  <2>6. Publishes
    BY <2>2, <2>4, <2>5, CommitPublishes DEF Define
  <2> QED  BY <1>a, <2>1, <2>6
<1>7. CASE BgFail
  <2>1. bg.plan \in PlanIds /\ ~plans[bg.plan].broken /\ FailBatch(bg.plan) /\ UNCHANGED <<plans, defined>>
    BY <1>7 DEF BgFail, BgInv, Active
  <2>2. Quiet
    BY <2>1, FailQuiet
  <2>3. PICK q \in PlanIds : q = bg.plan  BY <2>1
  <2>4. Dead(q)'
    BY <2>1, <2>3, FailTable
  <2>5. DoomedStays
    BY <1>0, <2>3, <2>4 DEF DoomedStays, Doomed, At
  <2> QED  BY <2>2, <2>5
<1> QED  BY <1>1, <1>2, <1>3, <1>4, <1>5, <1>6, <1>7 DEF BgNext

\* So is every step of a worker.
LEMMA WorkerKinds == ASSUME TypeOK, BgInv, NEW w \in Workers, WorkerNext(w) PROVE Quiet /\ DoomedStays
<1>1. UNCHANGED <<entry, bg, caller>> /\ PlanIds' = PlanIds
  BY SMTT(20) DEF WorkerNext, WorkerCheck, WorkerPop, WorkerCompile, table, PlanIds, TypeOK
<1> QED  BY <1>1, SameQuiet DEF DoomedStays, Doomed, At

--------------------------------------------------------------------------------
\* A caller's step leaves the other callers alone.
LEMMA OthersStay ==
    ASSUME TypeOK, NEW c \in Callers, CallerNext(c), NEW d \in Callers, d # c
    PROVE  caller'[d] = caller[d]
BY DEF TypeOK, CallerNext, Enter, Try, Compile, CommitBatch, Fail, Assist, AssistTake, AssistDeps, DepWait, Generate,
       Publish, Promote, WaitTimeout, WaitResult, Goto, Return

\* A caller's step leaves the background thread and its workers alone.
LEMMA PoolStays == ASSUME NEW c \in Callers, CallerNext(c) PROVE UNCHANGED <<bg, stop, worker, chan>>
BY DEF CallerNext, Enter, Try, Compile, CommitBatch, Fail, Assist, AssistTake, AssistDeps, DepWait, Generate,
       Publish, Promote, WaitTimeout, WaitResult, pool

\* Every step of a caller publishes nothing, or part of a group.
LEMMA CallerKinds ==
    ASSUME TypeOK, TableInv, AllCallers, NEW c \in Callers, CallerNext(c)
    PROVE  (Quiet \/ Publishes) /\ DoomedStays
<1> DEFINE me == caller[c]
<1>0. caller \in [Callers -> CallerSet] /\ me \in CallerSet /\ CallerInv(c) /\ bg' = bg
  BY PoolStays DEF TypeOK, AllCallers
<1>a. ASSUME me.pc # "fail" PROVE DoomedStays
  <2> SUFFICES ASSUME NEW p \in PlanIds, NEW d \in Callers, At(d, "fail"), caller[d].work = p PROVE Doomed(p)'
    BY <1>0 DEF DoomedStays, Doomed
  <2>1. d # c  BY <1>a DEF At
  <2> QED  BY <2>1, OthersStay DEF Doomed, At
<1>1. CASE Enter(c) \/ Compile(c) \/ Assist(c) \/ AssistDeps(c) \/ DepWait(c) \/ Generate(c) \/ WaitTimeout(c) \/ WaitResult(c)
  <2>1. UNCHANGED <<entry, plans>> /\ me.pc # "fail"
    BY <1>1 DEF Enter, Compile, Assist, AssistDeps, DepWait, Generate, WaitTimeout, WaitResult, table, At
  <2> QED  BY <1>a, <2>1, SameQuiet DEF PlanIds
<1>2. CASE AssistTake(c) \/ Promote(c)
  <2>1. UNCHANGED entry /\ PlanIds' = PlanIds /\ me.pc # "fail"
    BY <1>0, <1>2, TakeQueue, PromoteQueue DEF AssistTake, Promote, At
  <2> QED  BY <1>a, <2>1, SameQuiet
<1>3. CASE Try(c)
  <2> DEFINE batch == Closure(Target[c], Functions)
  <2>1. batch \in SUBSET Functions  BY ClosureInside
  <2>2. UNCHANGED <<entry, plans>> \/ Reserve(batch) \/ ReserveBreak(Target[c], batch)
    BY <1>3 DEF Try
  <2>3. me.pc # "fail"  BY <1>3 DEF Try, At
  <2> HIDE DEF batch
  <2> QED  BY <1>a, <2>1, <2>2, <2>3, SameQuiet, ReserveQuiet DEF PlanIds
<1>b. ASSUME Goto(c, "fail"), NEW q, q = me.work PROVE Doomed(q)'
  <2>1. caller'[c].pc = "fail" /\ caller'[c].work = q
    BY <1>0, <1>b DEF Goto, CallerSet
  <2> QED  BY <2>1 DEF Doomed, At
<1>4. CASE CommitBatch(c)
  <2>1. PICK q : q = me.work  OBVIOUS
  <2>2. q \in PlanIds /\ ~plans[q].broken /\ me.pc # "fail"
    BY <1>0, <1>4, <2>1 DEF CommitBatch, CallerInv, At
  <2>3. Commit(plans[q].define) \/ (CommitError(plans[q].define) /\ Doomed(q)')
    BY <1>4, <1>b, <2>1 DEF CommitBatch
  <2> QED  BY <1>a, <2>2, <2>3, CommitPublishes
<1>5. CASE Publish(c)
  <2>1. PICK q : q = me.work  OBVIOUS
  <2>2. /\ q \in PlanIds /\ ~plans[q].broken /\ me.pc # "fail" /\ me.claimed \subseteq Wanted(c)
        /\ \A g \in Wanted(c) \ me.claimed : Ready(g) \/ <<q, g>> \in failed
    BY <1>0, <1>5, <2>1 DEF Publish, CallerInv, At, Assisting
  <2>3. Commit(me.claimed) \/ (CommitError(me.claimed) /\ Doomed(q)')
    BY <1>5, <1>b, <2>1 DEF Publish
  <2>4. Wanted(c) \subseteq plans[q].define /\ \A f \in Wanted(c) : Calls[f] \cap plans[q].define \subseteq Wanted(c)
    BY <2>1, ClosureInside, ClosureStep DEF Wanted
  <2>5. \A f \in me.claimed : \A g \in Calls[f] \cap plans[q].define : g \in me.claimed \/ Ready(g) \/ <<q, g>> \in failed
    BY <2>2, <2>4
  <2>6. me.claimed \in SUBSET plans[q].define
    BY <2>2, <2>4
  <2> QED  BY <1>a, <2>2, <2>3, <2>5, <2>6, CommitPublishes
<1>6. CASE Fail(c)
  <2>1. me.work \in PlanIds /\ ~plans[me.work].broken /\ FailBatch(me.work) /\ UNCHANGED <<plans, defined>>
    BY <1>0, <1>6 DEF Fail, CallerInv, At
  <2>2. Quiet
    BY <2>1, FailQuiet
  <2>3. PICK q \in PlanIds : q = me.work  BY <2>1
  <2>4. Dead(q)'
    BY <2>1, <2>3, FailTable
  <2>5. DoomedStays
    <3> SUFFICES ASSUME NEW p \in PlanIds, p # q, NEW d \in Callers, At(d, "fail"), caller[d].work = p PROVE Doomed(p)'
      BY <1>0, <2>3, <2>4 DEF DoomedStays, Doomed
    <3>1. d # c  BY <2>3
    <3> QED  BY <3>1, OthersStay DEF Doomed, At
  <2> QED  BY <2>2, <2>5
<1> QED  BY <1>1, <1>2, <1>3, <1>4, <1>5, <1>6 DEF CallerNext

\* A body precedes its publication, and the callees of a published function
\* have theirs.
LEMMA BodiesStep ==
    ASSUME TypeOK, TableInv, Kept, DefinedInv, CalleesDefined, Quiet \/ Publishes
    PROVE  DefinedInv' /\ CalleesDefined'
<1>0. \A r \in PlanIds : plans[r].define \subseteq Functions
  BY PlanParts DEF TypeOK
<1>a. ASSUME NEW f \in Functions, Ready(f), NEW g \in Calls[f] \ defined'
      PROVE  \E p \in PlanIds' : f \in plans'[p].define /\ (g \in plans'[p].elsewhere \/ <<p, g>> \in failed')
  <2>1. PICK p \in PlanIds : f \in plans[p].define /\ (g \in plans[p].elsewhere \/ <<p, g>> \in failed)
    BY <1>a DEF CalleesDefined, Kept
  <2> QED  BY <2>1 DEF Kept
<1>1. CASE Quiet
  BY <1>1, <1>a DEF Quiet, DefinedInv, CalleesDefined, Kept
<1>2. CASE Publishes
  <2>0. PICK r \in PlanIds : \E group \in SUBSET plans[r].define, published \in SUBSET plans[r].define :
          /\ ~plans[r].broken /\ PlanIds' = PlanIds
          /\ \A f \in group : \A g \in Calls[f] \cap plans[r].define : g \in group \/ Ready(g) \/ <<r, g>> \in failed
          /\ published \subseteq group /\ (published = group \/ Doomed(r)')
          /\ published # {} => group \subseteq defined'
          /\ \A f \in Functions : Ready(f)' <=> Ready(f) \/ f \in published
    BY <1>2 DEF Publishes
  <2>1. PICK group \in SUBSET plans[r].define, published \in SUBSET plans[r].define :
          /\ ~plans[r].broken /\ PlanIds' = PlanIds
          /\ \A f \in group : \A g \in Calls[f] \cap plans[r].define : g \in group \/ Ready(g) \/ <<r, g>> \in failed
          /\ published \subseteq group /\ (published = group \/ Doomed(r)')
          /\ published # {} => group \subseteq defined'
          /\ \A f \in Functions : Ready(f)' <=> Ready(f) \/ f \in published
    BY <2>0
  <2>2. DefinedInv'
    BY <2>1 DEF DefinedInv, Kept
  <2>3. ASSUME NEW f \in published, NEW g \in Calls[f] \ defined'
        PROVE  \E p \in PlanIds' : f \in plans'[p].define /\ (g \in plans'[p].elsewhere \/ <<p, g>> \in failed')
    <3>1. f \in plans[r].define /\ f \in group /\ group \subseteq defined' /\ f \in Functions /\ g \in Functions
      BY <1>0, <2>1, GraphAssumption
    <3>2. ~Ready(g)
      BY <2>3, <3>1 DEF DefinedInv, Kept
    <3>3. g \in plans[r].define \cup plans[r].elsewhere
      BY <2>1, <3>1, <3>2 DEF TableInv
    <3>4. g \in plans[r].elsewhere \/ <<r, g>> \in failed
      BY <2>1, <2>3, <3>1, <3>2, <3>3
    <3> QED  BY <3>1, <3>4 DEF Kept
  <2>4. CalleesDefined'
    BY <1>a, <2>1, <2>3 DEF CalleesDefined
  <2> QED  BY <2>2, <2>4
<1> QED  BY <1>1, <1>2

\* A callee a plan is still compiling once its caller is published was
\* compiled before by a plan that failed, or this plan is about to fail.
LEMMA PublishedStep ==
    ASSUME TypeOK, TableInv, TableInv', Kept, PublishedInv, DoomedStays, Quiet \/ Publishes
    PROVE  PublishedInv'
<1>0. \A r \in PlanIds : r \in Nat /\ plans[r].define \subseteq Functions
  BY PlanParts DEF TypeOK
<1> SUFFICES ASSUME NEW p \in PlanIds', NEW f \in plans'[p].define, NEW g \in Calls[f], Ready(f)', By(g, p)', ~EverFailed(g)'
             PROVE  Doomed(p)'
  BY DEF PublishedInv
<1>1. p \in PlanIds
  <2>1. CASE Publishes  BY <2>1 DEF Publishes
  <2>2. CASE Quiet  BY <2>2 DEF Quiet
  <2> QED  BY <2>1, <2>2
<1>2. f \in plans[p].define /\ f \in Functions /\ g \in Functions
  BY <1>0, <1>1, GraphAssumption DEF Kept
<1>3. By(g, p) /\ ~EverFailed(g) /\ ~Dead(p)' /\ ~Dead(p)
  BY <1>1, <1>2 DEF Kept, EverFailed, Dead
<1>4. CASE Ready(f)
  BY <1>1, <1>2, <1>3, <1>4 DEF PublishedInv, DoomedStays
<1>5. CASE ~Ready(f)
  <2>0. PICK r \in PlanIds : \E group \in SUBSET plans[r].define, published \in SUBSET plans[r].define :
          /\ ~plans[r].broken /\ PlanIds' = PlanIds
          /\ \A x \in group : \A y \in Calls[x] \cap plans[r].define : y \in group \/ Ready(y) \/ <<r, y>> \in failed
          /\ published \subseteq group /\ (published = group \/ Doomed(r)')
          /\ \A x \in Functions : Ready(x)' <=> Ready(x) \/ x \in published
    BY <1>2, <1>5 DEF Publishes, Quiet
  <2>1. PICK group \in SUBSET plans[r].define, published \in SUBSET plans[r].define :
          /\ ~plans[r].broken /\ PlanIds' = PlanIds
          /\ \A x \in group : \A y \in Calls[x] \cap plans[r].define : y \in group \/ Ready(y) \/ <<r, y>> \in failed
          /\ published \subseteq group /\ (published = group \/ Doomed(r)')
          /\ \A x \in Functions : Ready(x)' <=> Ready(x) \/ x \in published
    BY <2>0
  <2>2. f \in published /\ f \in plans[r].define
    BY <1>2, <1>5, <2>1
  <2>3. g \in plans[p].define /\ ~Ready(g) /\ ~Ready(g)'
    BY <1>1, <1>2, <1>3 DEF TableInv, By, Compiling, Ready
  <2>4. CASE r = p
    <3>1. g \in group
      BY <1>3, <2>1, <2>2, <2>3, <2>4 DEF EverFailed
    <3>2. published # group
      BY <1>2, <2>1, <2>3, <3>1
    <3> QED  BY <2>1, <2>4, <3>2
  <2>5. CASE p < r
    <3>1. <<p, f>> \in failed
      BY <1>1, <1>2, <2>2, <2>5 DEF TableInv
    <3> QED  BY <1>3, <3>1 DEF TableInv
  <2>6. CASE r < p
    <3>1. g \in plans[r].define \cup plans[r].elsewhere
      BY <2>1, <2>2, <2>3 DEF TableInv
    <3>2. CASE g \in plans[r].define
      BY <1>1, <1>3, <2>3, <2>6, <3>2 DEF TableInv, EverFailed
    <3>3. CASE g \in plans[r].elsewhere
      <4>1. PICK q \in PlanIds : q < r /\ g \in plans[q].define
        BY <3>3 DEF TableInv
      <4>2. q < p
        BY <1>0, <1>1, <2>6, <4>1, SMTT(20)
      <4> QED  BY <1>1, <1>3, <2>3, <4>1, <4>2 DEF TableInv, EverFailed
    <3> QED  BY <3>1, <3>2, <3>3
  <2> QED  BY <1>0, <1>1, <2>4, <2>5, <2>6, SMTT(20)
<1> QED  BY <1>4, <1>5

--------------------------------------------------------------------------------
(* Who owns what is being compiled.                                         *)

\* The callees, in a plan, of what is published or was failed before are
\* themselves published or failed before, unless the plan is about to fail.
Settled(p) == {g \in plans[p].define : Ready(g) \/ EverFailed(g)}
SettledDeps == \A p \in PlanIds : ~Doomed(p) => \A t \in Settled(p) : Closure(t, plans[p].define) \subseteq Settled(p)

\* So it is for everything they reach in the plan.
LEMMA SettledStep == TypeOK /\ TableInv /\ PublishedInv => SettledDeps
<1> SUFFICES ASSUME TypeOK, TableInv, PublishedInv PROVE SettledDeps
  OBVIOUS
<1>1. ASSUME NEW p \in PlanIds, ~Doomed(p), NEW f \in Settled(p), NEW g \in Calls[f], g \in plans[p].define, ~Ready(g), ~EverFailed(g)
      PROVE  FALSE
  <2>0. \A r \in PlanIds : r \in Nat /\ plans[r].define \subseteq Functions
    BY PlanParts DEF TypeOK
  <2>1. f \in plans[p].define /\ f \in Functions /\ g \in Functions
    BY <1>1, <2>0 DEF Settled
  <2>2. By(g, p) /\ ~Dead(p)
    BY <1>1, <2>1 DEF TableInv, EverFailed, Dead
  <2>3. ~Ready(f)
    BY <1>1, <2>1, <2>2 DEF PublishedInv
  <2>4. PICK q \in PlanIds : <<q, f>> \in failed
    BY <1>1, <2>3 DEF Settled, EverFailed
  <2>5. f \in plans[q].define /\ Dead(q) /\ ~plans[q].broken
    BY <2>4 DEF TableInv
  <2>6. q < p
    <3>1. q # p  BY <2>2, <2>5
    <3>2. ASSUME p < q PROVE FALSE
      <4>1. <<p, f>> \in failed  BY <1>1, <2>1, <2>5, <3>2 DEF TableInv
      <4> QED  BY <2>2, <4>1 DEF TableInv
    <3> QED  BY <1>1, <2>0, <3>1, <3>2, SMTT(20)
  <2>7. g \in plans[q].define \cup plans[q].elsewhere
    BY <1>1, <2>5 DEF TableInv
  <2>8. CASE g \in plans[q].define
    BY <1>1, <2>6, <2>8 DEF TableInv, EverFailed
  <2>9. CASE g \in plans[q].elsewhere
    <3>1. PICK r \in PlanIds : r < q /\ g \in plans[r].define
      BY <2>9 DEF TableInv
    <3>2. r < p
      BY <1>1, <2>0, <2>6, <3>1, SMTT(20)
    <3> QED  BY <1>1, <3>1, <3>2 DEF TableInv, EverFailed
  <2> QED  BY <2>7, <2>8, <2>9
<1>2. ASSUME NEW p \in PlanIds, ~Doomed(p), NEW t \in Settled(p) PROVE Closure(t, plans[p].define) \subseteq Settled(p)
  <2>1. Settled(p) \in SUBSET plans[p].define
    BY DEF Settled
  <2>2. \A f \in Settled(p) : Calls[f] \cap plans[p].define \subseteq Settled(p)
    BY <1>1, <1>2 DEF Settled
  <2> QED  BY <2>1, <2>2, ClosureLeast
<1> QED  BY <1>2 DEF SettledDeps

\* A caller goes on working at what it works at, until it is not compiled for
\* that plan any more.
LEMMA WorksStays ==
    ASSUME TypeOK, TableInv, Kept, NEW c \in Callers, CallerInv(c), CallerNext(c),
           NEW p \in PlanIds, NEW f \in Functions, Works(c, p, f), By(f, p)'
    PROVE  Works(c, p, f)'
<1> DEFINE me == caller[c]
<1>0. caller \in [Callers -> CallerSet] /\ me \in CallerSet /\ By(f, p) /\ me.work = p /\ f \in plans[p].define /\ ~Dead(p)
  BY SMTT(20) DEF TypeOK, Kept, Works, TableInv, By, Dead
<1>1. me.pc \in {"compile", "commit", "fail"} \cup Assisting
  BY DEF Works, Assisting, At
<1>a. ASSUME NEW pc \in {"commit", "fail"}, Goto(c, pc) PROVE Works(c, p, f)'
  <2>1. caller'[c].pc = pc /\ caller'[c].work = p  BY <1>0, <1>a DEF Goto, CallerSet
  <2> QED  BY <2>1 DEF Works, At
<1>b. ASSUME f \in me.claimed, caller'[c].pc \in Assisting, caller'[c].work = p, caller'[c].claimed = me.claimed PROVE Works(c, p, f)'
  BY <1>b DEF Works, At, Assisting
<1>c. me.pc \in Assisting => f \in me.claimed
  BY DEF Works, At, Assisting
<1>d. ASSUME NEW group, f \in group, Commit(group) PROVE FALSE
  BY <1>d DEF Commit, MarkReady, By, Compiling
<1>2. CASE Compile(c)
  BY <1>2, <1>a DEF Compile
<1>3. CASE CommitBatch(c)
  BY <1>0, <1>3, <1>a, <1>d DEF CommitBatch
<1>4. CASE Fail(c)
  <2>1. FailBatch(p)
    BY <1>0, <1>4 DEF Fail
  <2>2. ~plans[p].broken /\ UNCHANGED <<plans, defined>>
    BY <1>0, <1>4 DEF Fail, CallerInv, At
  <2>3. Dead(p)'
    BY <2>1, <2>2, FailTable
  <2> QED  BY <2>3 DEF Dead
<1>5. CASE AssistDeps(c)
  <2>1. me.pc = "deps"  BY <1>5 DEF AssistDeps, At
  <2>2. caller'[c].pc \in Assisting /\ caller'[c].work = p /\ caller'[c].claimed = me.claimed
    BY <1>0, <1>5 DEF AssistDeps, CallerSet, Assisting
  <2> QED  BY <1>b, <1>c, <2>1, <2>2 DEF Assisting
<1>6. CASE DepWait(c)
  <2>0. me.pc = "depwait"  BY <1>6 DEF DepWait, At
  <2>1. PICK w \in me.deps :
           \/ w \in failed
           \/ caller' = [caller EXCEPT ![c].deps = @ \ {w}, ![c].pc = IF caller[c].deps = {w} THEN "generate" ELSE @]
    BY <1>6 DEF DepWait
  <2>2. CASE w \in failed
    <3>1. w[1] = p \/ Dead(p)
      BY <1>0, <2>0 DEF CallerInv, At
    <3>2. Dead(w[1])
      BY <2>2 DEF TableInv
    <3> QED  BY <1>0, <3>1, <3>2
  <2>3. CASE caller' = [caller EXCEPT ![c].deps = @ \ {w}, ![c].pc = IF caller[c].deps = {w} THEN "generate" ELSE @]
    <3>1. caller'[c].pc \in Assisting /\ caller'[c].work = p /\ caller'[c].claimed = me.claimed
      BY <1>0, <2>0, <2>3 DEF CallerSet, Assisting
    <3> QED  BY <1>b, <1>c, <2>0, <3>1 DEF Assisting
  <2> QED  BY <2>1, <2>2, <2>3
<1>7. CASE Generate(c)
  <2>0. me.pc = "generate"  BY <1>7 DEF Generate, At
  <2>1. CASE Goto(c, "publish")
    <3>1. caller'[c].pc \in Assisting /\ caller'[c].work = p /\ caller'[c].claimed = me.claimed
      BY <1>0, <2>1 DEF CallerSet, Assisting, Goto
    <3> QED  BY <1>b, <1>c, <2>0, <3>1 DEF Assisting
  <2> QED  BY <1>7, <1>a, <2>1 DEF Generate
<1>8. CASE Publish(c)
  <2>0. me.pc = "publish"  BY <1>8 DEF Publish, At
  <2>1. f \in me.claimed  BY <1>c, <2>0 DEF Assisting
  <2> QED  BY <1>8, <1>a, <1>d, <2>1 DEF Publish
<1>9. ASSUME me.pc \in {"idle", "try", "assist", "take", "promote", "wait"} PROVE FALSE
  BY <1>1, <1>9 DEF Assisting
<1> QED  BY <1>2, <1>3, <1>4, <1>5, <1>6, <1>7, <1>8, <1>9
         DEF CallerNext, Enter, Try, Assist, AssistTake, Promote, WaitTimeout, WaitResult, At

\* A caller that takes dependencies out of the queue without its target drops
\* only what somebody else will do.
LEMMA DroppedOwned ==
    ASSUME TypeOK, TableInv, AllCallers, BgInv, PublishedInv, OwnedInv, Running, ~bg.error, ~Bad,
           NEW c \in Callers, At(c, "take"), caller[c].work = bg.plan, Target[c] \notin Queued(bg.plan),
           NEW f \in Wanted(c), By(f, bg.plan), f \in Queued(bg.plan)
    PROVE  \/ EverFailed(f)
           \/ \E d \in Callers \ {c} : Works(d, bg.plan, f)
           \/ \E t \in InFlight : f \in Closure(t, Define)
<1> DEFINE p == bg.plan
           t == Target[c]
<1>1. p \in PlanIds /\ t \in Define /\ f \in Closure(t, Define) /\ Define = plans[p].define /\ Define \subseteq Functions
  <2>1. p \in PlanIds /\ t \in Define /\ Define \subseteq Functions
    BY ModuleInside DEF BgInv, Active, AllCallers, CallerInv, At, Define
  <2> QED  BY <2>1 DEF Wanted, Define
<1>2. f \in Functions /\ ~Dead(p) /\ ~Ready(f) /\ t \in Functions
  BY <1>1, ClosureInside DEF Dead, By, Compiling, Ready
<1>3. SettledDeps
  BY SettledStep
<1>4. CASE Doomed(p)
  <2>1. PICK d \in Callers : At(d, "fail") /\ caller[d].work = p
    BY <1>4 DEF Doomed, Running
  <2> QED  BY <2>1 DEF Works, At
<1>5. CASE ~Doomed(p) /\ t \in Settled(p)
  <2>1. f \in Settled(p)
    BY <1>1, <1>3, <1>5 DEF SettledDeps
  <2> QED  BY <1>2, <2>1 DEF Settled
<1>6. CASE t \notin Settled(p)
  <2>1. By(t, p)
    BY <1>1, <1>2, <1>6 DEF Settled, TableInv, EverFailed
  <2>2. \/ \E d \in Callers : Works(d, p, t)
        \/ \E x \in InFlight : t \in Closure(x, Define)
    BY <1>1, <1>2, <1>6, <2>1 DEF OwnedInv, Settled
  <2>3. CASE \E x \in InFlight : t \in Closure(x, Define)
    BY <1>1, <2>3, ClosureTransitive
  <2>4. CASE \E d \in Callers : Works(d, p, t)
    <3>1. PICK d \in Callers : Works(d, p, t)  BY <2>4
    <3>2. d # c  BY <3>1 DEF Works, At
    <3>3. CASE caller[d].pc \in {"fail", "compile", "commit"}
      BY <3>1, <3>2, <3>3 DEF Works, At
    <3>4. CASE caller[d].pc \in Assisting
      <4>1. caller[d].work = p /\ t \in Wanted(d) /\ Wanted(d) \cap Queued(p) = {}
        BY <3>1, <3>4 DEF Works, At, Assisting, AllCallers, CallerInv
      <4>2. f \in Wanted(d)
        BY <1>1, <4>1, ClosureTransitive DEF Wanted
      <4> QED  BY <4>1, <4>2
    <3> QED  BY <3>1, <3>3, <3>4 DEF Works, At, Assisting
  <2> QED  BY <2>2, <2>3, <2>4
<1> QED  BY <1>4, <1>5, <1>6

--------------------------------------------------------------------------------
\* The same after a step.
LEMMA SettledNext == ASSUME TypeOK', TableInv', PublishedInv' PROVE SettledDeps'
<1>1. (TypeOK /\ TableInv /\ PublishedInv => SettledDeps)'
  BY SettledStep, PTL
<1> QED  BY <1>1

\* A failure is not forgotten.
LEMMA FailedStays == ASSUME Kept, NEW f, EverFailed(f) PROVE EverFailed(f)'
BY DEF Kept, EverFailed

\* The plan a reservation makes.
LEMMA NewPlan ==
    ASSUME TypeOK, NEW root, NEW batch \in SUBSET Functions, NEW n, n = Len(plans) + 1, Reserve(batch) \/ ReserveBreak(root, batch)
    PROVE  /\ PlanIds' = PlanIds \cup {n} /\ (ReserveBreak(root, batch) => plans'[n].broken)
           /\ \A p \in PlanIds : Queued(p)' = Queued(p)
<1>1. CASE Reserve(batch) /\ ~ReserveBreak(root, batch)
  <2>1. PICK r : r = [define |-> {f \in batch : NeedsCompile(f)}, elsewhere |-> {f \in batch : Compiling(f)},
                      broken |-> FALSE, attached |-> FALSE, queue |-> <<>>]
    OBVIOUS
  <2>2. r \in PlanSet
    BY <2>1, SMTT(20) DEF PlanSet
  <2>3. plans' = Append(plans, r)
    BY <1>1, <2>1 DEF Reserve
  <2> QED  BY <1>1, <2>2, <2>3, AppendPlan DEF TypeOK
<1>2. CASE ReserveBreak(root, batch)
  <2>1. PICK done \in SUBSET {f \in batch : NeedsCompile(f)} :
           plans' = Append(plans, [define |-> done, elsewhere |-> {}, broken |-> TRUE, attached |-> FALSE, queue |-> <<>>])
    BY <1>2 DEF ReserveBreak
  <2>2. PICK r : r = [define |-> done, elsewhere |-> {}, broken |-> TRUE, attached |-> FALSE, queue |-> <<>>]
    OBVIOUS
  <2>3. r \in PlanSet /\ r.broken
    BY <2>2, SMTT(20) DEF PlanSet
  <2>4. plans' = Append(plans, r)
    BY <2>1, <2>2
  <2> QED  BY <2>3, <2>4, AppendPlan DEF TypeOK
<1> QED  BY <1>1, <1>2

\* Among the steps of a caller only an assist takes a function out of a queue.
LEMMA QueueLost ==
    ASSUME TypeOK, TableInv, NEW c \in Callers, CallerInv(c), CallerNext(c), NEW p \in PlanIds, NEW f, f \in Queued(p), f \notin Queued(p)'
    PROVE  AssistTake(c) /\ caller[c].work = p /\ f \in Wanted(c)
<1>1. CASE UNCHANGED plans
  BY <1>1 DEF Queued
<1>2. CASE Promote(c)
  BY <1>2, PromoteQueue
<1>3. CASE AssistTake(c)
  BY <1>3, TakeQueue
<1>4. CASE Try(c)
  <2> DEFINE batch == Closure(Target[c], Functions)
  <2>1. batch \in SUBSET Functions  BY ClosureInside
  <2>2. UNCHANGED plans \/ Reserve(batch) \/ ReserveBreak(Target[c], batch)
    BY <1>4 DEF Try
  <2> HIDE DEF batch
  <2> QED  BY <1>1, <2>1, <2>2, NewPlan
<1> QED  BY <1>1, <1>2, <1>3, <1>4 DEF CallerNext, Enter, Compile, CommitBatch, Fail, Assist, AssistDeps, DepWait, Generate,
            Publish, WaitTimeout, WaitResult, Commit, CommitError, table

\* The ownership of what the running batch compiles survives a caller's step.
LEMMA OwnedCaller ==
    ASSUME TypeOK, TypeOK', TableInv, Kept, AllCallers, BgInv, PublishedInv, OwnedInv, NEW c \in Callers, CallerNext(c)
    PROVE  OwnedInv'
<1>0. PICK p : p = bg.plan  OBVIOUS
<1>1. UNCHANGED <<bg, stop, worker, chan>> /\ CallerInv(c)
  BY PoolStays DEF AllCallers
<1>2. Running' = Running /\ Bad' = Bad /\ InFlight' = InFlight
  BY <1>1 DEF Running, Bad, InFlight, Group
<1> SUFFICES ASSUME Running, ~bg.error, ~Bad, NEW f \in Functions, By(f, p)'
             PROVE  \/ EverFailed(f)' \/ f \in Queued(p)'
                    \/ \E d \in Callers : Works(d, p, f)'
                    \/ \E t \in InFlight : f \in Closure(t, Define)'
  <2>1. bg'.plan = p /\ bg'.error = bg.error  BY <1>0, <1>1
  <2>2. \A f \in Functions : By(f, bg.plan)' => By(f, p)'  BY <2>1 DEF By
  <2>3. Queued(bg.plan)' = Queued(p)'  BY <2>1 DEF Queued
  <2>4. \A f \in Functions, d \in Callers : Works(d, bg.plan, f)' <=> Works(d, p, f)'  BY <2>1 DEF Works, At
  <2> QED  BY <1>2, <2>1, <2>2, <2>3, <2>4 DEF OwnedInv, Closure
<1>3. p \in PlanIds /\ By(f, p) /\ Define' = Define
  BY <1>0, <1>1 DEF BgInv, Active, Kept, Define
<1>4. \/ EverFailed(f) \/ f \in Queued(p)
      \/ \E d \in Callers : Works(d, p, f)
      \/ \E t \in InFlight : f \in Closure(t, Define)
  BY <1>0, <1>3 DEF OwnedInv
<1>5. \A t : f \in Closure(t, Define) => f \in Closure(t, Define)'
  BY <1>3 DEF Closure
<1>6. ASSUME NEW d \in Callers, Works(d, p, f) PROVE Works(d, p, f)'
  <2>1. CASE d = c
    BY <1>1, <1>3, <1>6, <2>1, WorksStays
  <2>2. CASE d # c
    <3>1. caller'[d] = caller[d]  BY <2>2, OthersStay
    <3> QED  BY <1>6, <3>1 DEF Works, At
  <2> QED  BY <2>1, <2>2
<1>7. CASE f \in Queued(p) /\ f \notin Queued(p)'
  <2>1. AssistTake(c) /\ caller[c].work = p /\ f \in Wanted(c)
    BY <1>1, <1>3, <1>7, QueueLost
  <2>2. CASE Target[c] \in Queued(p)
    <3>1. Target[c] \in Wanted(c)
      BY <1>1, <2>1, ClosureSelf DEF AssistTake, At, CallerInv, Wanted
    <3>2. caller' = [caller EXCEPT ![c].pc = "deps", ![c].claimed = Wanted(c) \cap Queued(p)]
      BY <2>1, <2>2, <3>1 DEF AssistTake, Wanted
    <3>3. caller'[c].pc = "deps" /\ caller'[c].work = p /\ caller'[c].claimed = Wanted(c) \cap Queued(p)
      <4>1. caller \in [Callers -> CallerSet]  BY DEF TypeOK
      <4>2. caller'[c].pc = "deps" /\ caller'[c].work = caller[c].work
        BY <3>2, <4>1 DEF CallerSet
      <4>3. caller'[c].claimed = Wanted(c) \cap Queued(p)
        BY <3>2, <4>1 DEF CallerSet
      <4> QED  BY <2>1, <4>2, <4>3
    <3>4. Works(c, p, f)'
      BY <1>7, <2>1, <3>3 DEF Works, At
    <3> QED  BY <3>4
  <2>3. CASE Target[c] \notin Queued(p)
    <3>1. \/ EverFailed(f)
          \/ \E d \in Callers \ {c} : Works(d, p, f)
          \/ \E t \in InFlight : f \in Closure(t, Define)
      <4>1. At(c, "take")  BY <2>1 DEF AssistTake
      <4> QED  BY <1>0, <1>3, <1>7, <2>1, <2>3, <4>1, DroppedOwned
    <3> QED  BY <1>5, <1>6, <3>1, FailedStays
  <2> QED  BY <2>2, <2>3
<1> QED  BY <1>4, <1>5, <1>6, <1>7, FailedStays

\* And a worker's.
LEMMA OwnedWorker ==
    ASSUME TypeOK, TableInv, Kept, BgInv, OwnedInv, NEW w \in Workers, WorkerNext(w)
    PROVE  OwnedInv'
<1>0. PICK p : p = bg.plan  OBVIOUS
<1>1. bg' = bg /\ caller' = caller
  BY DEF WorkerNext, WorkerCheck, WorkerPop, WorkerCompile
<1>2. /\ InFlight \cup Queued(bg.plan) = InFlight' \cup Queued(bg.plan)'
      /\ InFlight \subseteq InFlight'
  BY BgWorkers
<1>3. Bad => Bad'
  <2>1. CASE chan' = chan
    BY <2>1 DEF Bad
  <2>2. CASE chan' # chan
    <3> DEFINE Messages == [f : Functions, ok : BOOLEAN]
    <3>1. PICK m \in Messages : chan' = Append(chan, m)
      <4>1. worker[w].f \in Functions
        BY DEF TypeOK
      <4> QED  BY <2>2, <4>1 DEF WorkerNext, WorkerCheck, WorkerPop, WorkerCompile
    <3>2. chan \in Seq(Messages)
      BY DEF TypeOK
    <3> HIDE DEF Messages
    <3>3. Len(chan') = Len(chan) + 1 /\ Len(chan) \in Nat /\ \A i \in 1..Len(chan) : chan'[i] = chan[i]
      BY <3>1, <3>2, SMTT(20)
    <3> QED  BY <3>3, SMTT(20) DEF Bad
  <2> QED  BY <2>1, <2>2
<1> SUFFICES ASSUME Running, ~bg.error, ~Bad, NEW f \in Functions, By(f, p)'
             PROVE  \/ EverFailed(f)' \/ f \in Queued(p)'
                    \/ \E d \in Callers : Works(d, p, f)'
                    \/ \E t \in InFlight' : f \in Closure(t, Define)'
  <2>1. bg'.plan = p /\ bg'.error = bg.error /\ Running' = Running  BY <1>0, <1>1 DEF Running
  <2>2. \A f \in Functions : By(f, bg.plan)' => By(f, p)'  BY <2>1 DEF By
  <2>3. Queued(bg.plan)' = Queued(p)'  BY <2>1 DEF Queued
  <2>4. \A f \in Functions, d \in Callers : Works(d, bg.plan, f)' <=> Works(d, p, f)'  BY <2>1 DEF Works, At
  <2> QED  BY <1>3, <2>1, <2>2, <2>3, <2>4 DEF OwnedInv, Closure
<1>4. p \in PlanIds /\ By(f, p) /\ Define' = Define
  BY <1>0, <1>1 DEF BgInv, Active, Kept, Define
<1>5. \/ EverFailed(f) \/ f \in Queued(p)
      \/ \E d \in Callers : Works(d, p, f)
      \/ \E t \in InFlight : f \in Closure(t, Define)
  BY <1>0, <1>4 DEF OwnedInv
<1>6. \A t : f \in Closure(t, Define) => f \in Closure(t, Define)'
  BY <1>4 DEF Closure
<1>7. \A d \in Callers : Works(d, p, f)' <=> Works(d, p, f)
  BY <1>1 DEF Works, At
<1>8. CASE f \in Queued(p) /\ f \notin Queued(p)'
  <2>1. f \in InFlight'
    <3>1. Queued(bg.plan)' = Queued(p)' /\ Queued(bg.plan) = Queued(p)  BY <1>0, <1>1 DEF Queued
    <3> QED  BY <1>2, <1>8, <3>1
  <2>2. f \in Define
    BY <1>0, <1>4, <1>8 DEF TableInv, Define
  <2>3. f \in Closure(f, Define)'
    BY <1>6, <2>2, ClosureSelf
  <2> QED  BY <2>1, <2>3
<1> QED  BY <1>2, <1>5, <1>6, <1>7, <1>8, FailedStays

--------------------------------------------------------------------------------
\* Committing a group of the running batch leaves an owner to what it does not
\* publish of what the group calls.
LEMMA GroupSettled ==
    ASSUME TypeOK', TableInv', PublishedInv', NEW p \in PlanIds', bg'.pc \notin {"fail", "collect"} \/ (bg'.pc = "collect" /\ ~bg'.error),
           NEW t \in plans'[p].define, Ready(t)', NEW f \in Closure(t, plans'[p].define), ~Ready(f)'
    PROVE  EverFailed(f)' \/ \E d \in Callers : Works(d, p, f)'
<1>1. CASE Doomed(p)'
  <2>1. PICK d \in Callers : At(d, "fail")' /\ caller'[d].work = p
    BY <1>1 DEF Doomed
  <2> QED  BY <2>1 DEF Works, At
<1>2. CASE ~Doomed(p)'
  <2>1. SettledDeps'
    BY SettledNext
  <2>2. t \in Settled(p)'
    BY DEF Settled
  <2>3. f \in Closure(t, plans[p].define)'
    BY DEF Closure
  <2>4. Closure(t, plans[p].define)' \subseteq Settled(p)'
    BY <1>2, <2>1, <2>2 DEF SettledDeps
  <2> QED  BY <2>3, <2>4 DEF Settled
<1> QED  BY <1>1, <1>2

\* The ownership survives the steps of the background thread.
LEMMA OwnedBg ==
    ASSUME TypeOK, TypeOK', TableInv, TableInv', Kept, BgInv, BgInv', PublishedInv', OwnedInv, BgNext
    PROVE  OwnedInv'
<1>0. bg \in BgSet /\ bg' \in BgSet' /\ caller' = caller
  BY DEF TypeOK, BgNext, BgScan, BgReserve, BgJoin, BgPlan, BgAttach, BgReceive, BgCommit, BgDrain, BgLastCommit, BgFail
<1>a. ASSUME ~Running' \/ bg'.error PROVE OwnedInv'
  BY <1>a DEF OwnedInv
<1>1. CASE BgScan \/ BgReserve \/ BgJoin \/ BgPlan \/ BgLastCommit \/ BgFail
  <2>1. ~Running'
    BY <1>0, <1>1 DEF BgScan, BgReserve, BgJoin, BgPlan, BgLastCommit, BgFail, BgSet, Running
  <2> QED  BY <1>a, <2>1
<1>2. CASE BgAttach
  <2>1. PICK p : p = bg.plan  OBVIOUS
  <2>2. p \in PlanIds /\ plans \in Seq(PlanSet) /\ plans[p] \in PlanSet /\ Define \subseteq Module /\ bg'.plan = p
    BY <1>0, <1>2, <2>1, PlanParts DEF BgInv, Active, BgAttach, TypeOK, BgSet
  <2>3. plans' = [plans EXCEPT ![p].attached = TRUE, ![p].queue = Keep(Order, plans[p].define)]
    BY <1>2, <2>1 DEF BgAttach
  <2>4. plans'[p].queue = Keep(Order, plans[p].define) /\ p \in PlanIds'
    BY <2>2, <2>3, SMTT(20) DEF PlanSet, PlanIds
  <2>5. Elements(Keep(Order, plans[p].define)) = Module \cap plans[p].define
    BY KeepFacts, GraphAssumption, SMTT(20) DEF Elements, Module
  <2>6. Queued(p)' = plans[p].define
    BY <2>1, <2>2, <2>4, <2>5 DEF Queued, Elements, Define
  <2>7. \A f \in Functions : By(f, p)' => f \in plans[p].define
    BY <2>2 DEF TableInv, Kept, By
  <2>8. \A f \in Functions : By(f, bg.plan)' => f \in Queued(bg.plan)'
    BY <2>2, <2>6, <2>7 DEF By, Queued
  <2> QED  BY <2>8 DEF OwnedInv
<1>b. ASSUME Running, Running', ~bg.error, ~bg'.error, Bad => Bad', UNCHANGED plans, bg'.plan = bg.plan,
             NEW G \in SUBSET Functions, \A f \in G : Ready(f)', InFlight \subseteq InFlight' \cup G, G \subseteq Define
      PROVE  OwnedInv'
  <2>0. PICK p : p = bg.plan  OBVIOUS
  <2> SUFFICES ASSUME ~Bad', NEW f \in Functions, By(f, p)'
             PROVE  \/ EverFailed(f)' \/ f \in Queued(p)'
                    \/ \E d \in Callers : Works(d, p, f)'
                    \/ \E t \in InFlight' : f \in Closure(t, Define)'
    <3>1. bg'.plan = p  BY <1>b, <2>0
    <3>2. \A f \in Functions : By(f, bg.plan)' => By(f, p)'  BY <3>1 DEF By
    <3>3. Queued(bg.plan)' = Queued(p)'  BY <3>1 DEF Queued
    <3>4. \A f \in Functions, d \in Callers : Works(d, bg.plan, f)' <=> Works(d, p, f)'  BY <3>1 DEF Works, At
    <3> QED  BY <3>1, <3>2, <3>3, <3>4 DEF OwnedInv, Closure
  <2>1. p \in PlanIds /\ p \in PlanIds' /\ By(f, p) /\ Define' = Define /\ Queued(p)' = Queued(p) /\ Define = plans'[p].define
    <3>1. p \in PlanIds
      BY <1>b, <2>0 DEF BgInv, Active
    <3>2. p \in PlanIds' /\ By(f, p)
      BY <3>1 DEF Kept
    <3>3. plans' = plans /\ bg'.plan = p
      BY <1>b, <2>0
    <3> QED  BY <2>0, <3>1, <3>2, <3>3 DEF Define, Queued
  <2>2. \/ EverFailed(f) \/ f \in Queued(p)
        \/ \E d \in Callers : Works(d, p, f)
        \/ \E t \in InFlight : f \in Closure(t, Define)
    BY <1>b, <2>0, <2>1 DEF OwnedInv
  <2>3. \A t : f \in Closure(t, Define) => f \in Closure(t, Define)'
    BY <2>1 DEF Closure
  <2>4. \A d \in Callers : Works(d, p, f)' <=> Works(d, p, f)
    BY <1>0 DEF Works, At
  <2>5. ASSUME NEW t \in G, f \in Closure(t, Define) PROVE EverFailed(f)' \/ \E d \in Callers : Works(d, p, f)'
    <3>1. ~Ready(f)'  BY DEF By, Compiling, Ready
    <3>2. t \in plans'[p].define /\ Ready(t)' /\ f \in Closure(t, plans'[p].define)
      BY <1>b, <2>1, <2>5
    <3>3. bg'.pc \notin {"fail", "collect"} \/ (bg'.pc = "collect" /\ ~bg'.error)
      BY <1>b DEF Running
    <3> QED  BY <2>1, <3>1, <3>2, <3>3, GroupSettled
  <2> QED  BY <1>b, <2>1, <2>2, <2>3, <2>4, <2>5, FailedStays
<1>3. CASE BgReceive
  <2> DEFINE f == Head(chan).f
             remaining == {g \in bg.remaining : ~Ready(g)}
             pending == bg.pending \cup {f}
             group == CommitReady(pending, remaining, plans[bg.plan].define)
  <2>1. /\ bg.pc = "collect" /\ chan # <<>> /\ chan' = Tail(chan) /\ UNCHANGED <<plans, worker, entry>>
    BY <1>3 DEF BgReceive, table
  <2>2. Sent = Sent' \cup {f} /\ (Head(chan).ok /\ Bad => Bad')
    BY <2>1, ReceiveHead
  <2>3. CASE bg' = [bg EXCEPT !.error = TRUE] \/ (bg.error /\ bg' = bg)
    BY <1>0, <1>a, <2>3 DEF BgSet
  <2>4. CASE /\ Head(chan).ok /\ ~bg.error
             /\ bg' = [bg EXCEPT !.pending = pending \ group, !.remaining = remaining, !.group = group,
                                 !.pc = IF group = {} THEN "collect" ELSE "commit"]
    <3>1. group \subseteq pending
      <4> HIDE DEF remaining, pending
      <4> QED  BY CommitReadyFacts, SMTT(20)
    <3> HIDE DEF remaining, pending, group
    <3>2. /\ bg'.plan = bg.plan /\ bg'.error = bg.error /\ bg'.pending = pending \ group /\ bg'.group = group
          /\ bg'.pc = IF group = {} THEN "collect" ELSE "commit"
      BY <1>0, <2>1, <2>4 DEF BgSet
    <3>3. Running /\ Running' /\ Group = {} /\ Group' = group /\ Compiled' = Compiled
      BY <2>1, <3>2 DEF Running, Group, Compiled
    <3>4. InFlight \subseteq InFlight'
      BY <2>2, <3>1, <3>2, <3>3, InFlightParts DEF pending
    <3>5. (Bad => Bad') /\ ~bg.error /\ ~bg'.error
      BY <2>2, <2>4, <3>2
    <3>6. UNCHANGED plans
      BY <2>1
    <3> QED  BY <1>b, <3>2, <3>3, <3>4, <3>5, <3>6, SMTT(20)
  <2> QED  BY <1>3, <2>3, <2>4 DEF BgReceive
<1>4. CASE BgCommit
  <2>1. bg.pc = "commit" /\ Running /\ ~bg.error /\ chan' = chan /\ UNCHANGED <<worker, plans>> /\ bg'.pc = "collect" /\ bg'.plan = bg.plan /\ bg'.pending = bg.pending
    <3>1. bg.pc = "commit" /\ chan' = chan /\ UNCHANGED <<worker, plans>>
      BY <1>4 DEF BgCommit, Commit, CommitError
    <3>2. Running /\ ~bg.error
      BY <3>1 DEF Running, BgInv
    <3>3. bg'.pc = "collect" /\ bg'.plan = bg.plan /\ bg'.pending = bg.pending
      BY <1>0, <1>4 DEF BgCommit, BgSet
    <3> QED  BY <3>1, <3>2, <3>3
  <2>2. CASE bg' = [bg EXCEPT !.pc = "collect", !.error = TRUE, !.group = {}]
    BY <1>0, <1>a, <2>2 DEF BgSet
  <2>3. CASE Commit(bg.group) /\ bg' = [bg EXCEPT !.pc = "collect", !.remaining = @ \ bg.group, !.group = {}]
    <3>1. bg'.error = bg.error /\ bg.group \in SUBSET Functions
      BY <1>0, <2>3 DEF BgSet
    <3>2. \A f \in bg.group : Ready(f)'
      BY <2>3, <3>1, Published DEF Commit
    <3>3. Running' /\ Group = bg.group /\ Compiled' = Compiled /\ Sent' = Sent /\ (Bad => Bad')
      BY <2>1 DEF Running, Group, Compiled, Sent, Bad
    <3>4. InFlight \subseteq InFlight' \cup bg.group
      BY <2>1, <3>3, InFlightParts
    <3>5. bg.group \subseteq Define
      BY <2>1, <3>3, InFlightParts DEF BgInv
    <3> QED  BY <1>b, <2>1, <3>1, <3>2, <3>3, <3>4, <3>5
  <2> QED  BY <1>4, <2>2, <2>3 DEF BgCommit
<1>5. CASE BgDrain
  <2> DEFINE remaining == {g \in bg.remaining : ~Ready(g)}
             group == CommitReady(bg.pending, remaining, plans[bg.plan].define)
  <2>1. bg.pc = "collect" /\ UNCHANGED <<chan, plans, worker, entry, stop>>
    BY <1>5 DEF BgDrain, table, pool
  <2>2. CASE bg' = [bg EXCEPT !.pc = "fail"] \/ bg' = [bg EXCEPT !.pc = "scan"]
    <3>1. ~Running'  BY <1>0, <2>2 DEF BgSet, Running
    <3> QED  BY <1>a, <3>1
  <2>3. CASE ~bg.error /\ bg' = [bg EXCEPT !.pc = "last", !.pending = @ \ group, !.group = group]
    <3>1. group \subseteq bg.pending
      <4> HIDE DEF remaining
      <4> QED  BY CommitReadyFacts, SMTT(20)
    <3> HIDE DEF remaining, group
    <3>2. /\ bg'.plan = bg.plan /\ bg'.error = bg.error /\ bg'.pending = bg.pending \ group /\ bg'.group = group
          /\ bg'.pc = "last"
      BY <1>0, <2>1, <2>3 DEF BgSet
    <3>3. Running /\ Running' /\ Group = {} /\ Group' = group /\ Compiled' = Compiled /\ Sent' = Sent /\ (Bad => Bad')
      BY <2>1, <3>2 DEF Running, Group, Compiled, Sent, Bad
    <3>4. InFlight \subseteq InFlight'
      BY <3>1, <3>2, <3>3, InFlightParts
    <3> QED  BY <1>b, <2>1, <2>3, <3>2, <3>3, <3>4, SMTT(20)
  <2> QED  BY <1>5, <2>2, <2>3 DEF BgDrain
<1> QED  BY <1>1, <1>2, <1>3, <1>4, <1>5 DEF BgNext

\* When the batch ends without an error, what it was compiling has another owner.
LEMMA BatchEnds ==
    ASSUME TypeOK, TypeOK', TableInv, TableInv', Kept, BgInv, OwnedInv, PublishedInv', BgDrain \/ BgLastCommit, bg'.pc = "scan",
           NEW p, p = bg.plan, NEW f \in Functions, By(f, p)'
    PROVE  EverFailed(f)' \/ \E d \in Callers : Works(d, p, f)'
<1>0. bg \in BgSet
  BY DEF TypeOK
<1>1. /\ Running /\ chan = <<>> /\ caller' = caller /\ plans' = plans /\ \A w \in Workers : worker[w].pc = "exit"
  <2>1. CASE BgDrain
    BY <2>1 DEF BgDrain, Running, table
  <2>2. CASE BgLastCommit
    BY <2>2 DEF BgLastCommit, Running, BgInv, Commit, CommitError
  <2> QED  BY <2>1, <2>2
<1>2. ~bg.error /\ bg.pending = {}
  <2>1. CASE BgDrain
    BY <1>0, <2>1 DEF BgDrain, BgSet
  <2>2. CASE BgLastCommit
    BY <1>0, <2>2 DEF BgLastCommit, BgSet, BgInv
  <2> QED  BY <2>1, <2>2
<1>3. ~Bad /\ Sent = {} /\ Compiled = {}
  BY <1>1, SMTT(20) DEF Bad, Sent, Compiled
<1>4. Queued(p) = {}
  <2>1. PICK w \in Workers : TRUE  BY GraphAssumption
  <2> QED  BY <1>1, <1>2, <1>3, <2>1 DEF BgInv
<1>5. p \in PlanIds /\ p \in PlanIds' /\ By(f, p) /\ Define = plans[p].define /\ Group \subseteq Define
  BY <1>1, InFlightParts DEF BgInv, Active, Kept, Define
<1>6. \/ EverFailed(f) \/ \E d \in Callers : Works(d, p, f)
      \/ \E t \in Group : f \in Closure(t, plans[p].define)
  BY <1>1, <1>2, <1>3, <1>4, <1>5, InFlightParts DEF OwnedInv
<1>7. ASSUME NEW t \in Group, f \in Closure(t, plans[p].define) PROVE EverFailed(f)' \/ \E d \in Callers : Works(d, p, f)'
  <2>1. BgLastCommit /\ t \in bg.group
    BY <1>7 DEF Group, BgDrain
  <2>2. Commit(bg.group)
    BY <1>0, <2>1 DEF BgLastCommit, BgSet
  <2>3. bg.group \in SUBSET Functions
    BY <1>0 DEF BgSet
  <2>4. Ready(t)'
    BY <2>1, <2>2, <2>3, Published DEF Commit
  <2>5. ~Ready(f)'  BY DEF By, Compiling, Ready
  <2>6. t \in plans'[p].define /\ f \in Closure(t, plans'[p].define)
    BY <1>1, <1>5, <1>7
  <2>7. bg'.pc \notin {"fail", "collect"}
    OBVIOUS
  <2> QED  BY <1>5, <2>4, <2>5, <2>6, <2>7, GroupSettled
<1>8. \A d \in Callers : Works(d, p, f) => Works(d, p, f)'
  BY <1>1 DEF Works, At
<1> QED  BY <1>6, <1>7, <1>8, FailedStays

--------------------------------------------------------------------------------
\* Every entry being compiled keeps an owner under the steps of a caller.
LEMMA CompilingCaller ==
    ASSUME TypeOK, TypeOK', TableInv, TableInv', Kept, AllCallers, CompilingIsOwned, NEW c \in Callers, CallerNext(c)
    PROVE  CompilingIsOwned'
<1> SUFFICES ASSUME NEW f \in Functions, Compiling(f)', NEW p, p = entry'[f].plan,
                    ~plans'[p].broken, ~EverFailed(f)', ~(bg'.plan = p /\ Active')
             PROVE  \E d \in Callers : Works(d, p, f)'
  <2>1. ASSUME NEW f \in Functions, Compiling(f)' PROVE
          \/ plans'[entry'[f].plan].broken \/ EverFailed(f)' \/ (bg'.plan = entry'[f].plan /\ Active')
          \/ \E d \in Callers : Works(d, entry[f].plan, f)'
    <3>1. PICK p : p = entry'[f].plan  OBVIOUS
    <3>2. \A d \in Callers : Works(d, entry[f].plan, f)' <=> Works(d, p, f)'  BY <3>1 DEF Works, At
    <3> QED  BY <2>1, <3>1, <3>2
  <2> QED  BY <2>1 DEF CompilingIsOwned, EverFailed, Active, Running
<1>0. bg' = bg /\ CallerInv(c) /\ p \in PlanIds' /\ By(f, p)'
  BY PoolStays DEF AllCallers, TableInv, By
<1>1. CASE p \in PlanIds
  <2>1. By(f, p) /\ ~EverFailed(f) /\ ~plans[p].broken
    BY <1>0, <1>1, FailedStays DEF Kept
  <2>2. PICK d \in Callers : Works(d, p, f)
    BY <1>0, <2>1 DEF CompilingIsOwned, By, EverFailed, Active, Running
  <2>3. CASE d = c
    BY <1>0, <1>1, <2>2, <2>3, WorksStays
  <2>4. CASE d # c
    <3>1. caller'[d] = caller[d]  BY <2>4, OthersStay
    <3>2. Works(d, p, f)'  BY <2>2, <3>1 DEF Works, At
    <3> QED  BY <3>2
  <2> QED  BY <2>3, <2>4
<1>2. CASE p \notin PlanIds
  <2> DEFINE batch == Closure(Target[c], Functions)
  <2>1. Try(c) /\ (Reserve(batch) \/ ReserveBreak(Target[c], batch))
    <3>1. plans' # plans  BY <1>0, <1>2 DEF PlanIds
    <3>2. ~AssistTake(c) /\ ~Promote(c)
      BY <1>0, <1>2, TakeQueue, PromoteQueue
    <3> QED  BY <3>1, <3>2 DEF CallerNext, Enter, Try, Compile, CommitBatch, Fail, Assist, AssistDeps, DepWait, Generate,
            Publish, WaitTimeout, WaitResult, Commit, CommitError, table
  <2>2. batch \in SUBSET Functions  BY ClosureInside
  <2> HIDE DEF batch
  <2>3. p = Len(plans) + 1 /\ ~ReserveBreak(Target[c], batch)
    BY <1>0, <1>2, <2>1, <2>2, NewPlan
  <2>4. caller' = [caller EXCEPT ![c].pc = "compile", ![c].work = Len(plans) + 1]
    BY <2>1, <2>3, <1>0, <1>2 DEF Try, batch, PlanIds
  <2>5. caller'[c].pc = "compile" /\ caller'[c].work = p
    BY <2>3, <2>4, SMTT(20) DEF TypeOK, CallerSet
  <2>6. Works(c, p, f)'
    BY <2>5 DEF Works, At
  <2> QED  BY <2>6
<1> QED  BY <1>1, <1>2

\* Under those of a worker.
LEMMA CompilingWorker ==
    ASSUME TypeOK, Kept, CompilingIsOwned, NEW w \in Workers, WorkerNext(w), TableInv
    PROVE  CompilingIsOwned'
<1>1. UNCHANGED <<entry, bg, caller, failed>> /\ PlanIds' = PlanIds
  BY SMTT(20) DEF WorkerNext, WorkerCheck, WorkerPop, WorkerCompile, table, PlanIds, TypeOK
<1>2. \A f \in Functions : Compiling(f)' => Compiling(f) /\ (plans[entry[f].plan].broken => plans'[entry[f].plan].broken)
  BY <1>1 DEF Kept, Compiling, TableInv
<1>3. \A d \in Callers, f \in Functions : Works(d, entry[f].plan, f)' <=> Works(d, entry[f].plan, f)
  BY <1>1, SMTT(20) DEF Works, At
<1> QED  BY <1>1, <1>2, <1>3 DEF CompilingIsOwned

\* And under those of the background thread.
LEMMA CompilingBg ==
    ASSUME TypeOK, TypeOK', TableInv, TableInv', Kept, BgInv, OwnedInv, PublishedInv', CompilingIsOwned, BgNext
    PROVE  CompilingIsOwned'
<1> SUFFICES ASSUME NEW f \in Functions, Compiling(f)', NEW p, p = entry'[f].plan,
                    ~plans'[p].broken, ~EverFailed(f)', ~(bg'.plan = p /\ Active')
             PROVE  \E d \in Callers : Works(d, p, f)'
  <2>1. ASSUME NEW f \in Functions, Compiling(f)' PROVE
          \/ plans'[entry'[f].plan].broken \/ EverFailed(f)' \/ (bg'.plan = entry'[f].plan /\ Active')
          \/ \E d \in Callers : Works(d, entry[f].plan, f)'
    <3>1. PICK p : p = entry'[f].plan  OBVIOUS
    <3>2. \A d \in Callers : Works(d, entry[f].plan, f)' <=> Works(d, p, f)'  BY <3>1 DEF Works, At
    <3> QED  BY <2>1, <3>1, <3>2
  <2> QED  BY <2>1 DEF CompilingIsOwned, EverFailed, Active, Running
<1>0. bg \in BgSet /\ bg' \in BgSet' /\ caller' = caller /\ p \in PlanIds' /\ By(f, p)'
  BY DEF TypeOK, BgNext, BgScan, BgReserve, BgJoin, BgPlan, BgAttach, BgReceive, BgCommit, BgDrain, BgLastCommit, BgFail, TableInv, By
<1>1. CASE p \notin PlanIds
  <2>1. BgReserve /\ (Reserve(Module) \/ ReserveBreak(bg.root, Module))
    <3>1. plans' # plans  BY <1>0, <1>1 DEF PlanIds
    <3>2. ~BgAttach
      BY <1>0, <1>1, SMTT(20) DEF BgAttach, PlanIds, TypeOK
    <3> QED  BY <3>1, <3>2 DEF BgNext, BgScan, BgReserve, BgJoin, BgPlan, BgReceive, BgCommit, BgDrain, BgLastCommit, BgFail,
            Commit, CommitError, table
  <2>2. p = Len(plans) + 1 /\ ~ReserveBreak(bg.root, Module)
    BY <1>0, <1>1, <2>1, ModuleInside, NewPlan, SMTT(20)
  <2>3. bg'.pc = "plan" /\ bg'.plan = p
    BY <1>0, <1>1, <2>1, <2>2 DEF BgReserve, PlanIds, BgSet
  <2> QED  BY <2>3 DEF Active
<1>2. CASE p \in PlanIds
  <2>1. By(f, p) /\ ~EverFailed(f) /\ ~plans[p].broken
    BY <1>0, <1>2, FailedStays DEF Kept
  <2>2. (bg.plan = p /\ Active) \/ \E d \in Callers : Works(d, p, f)
    BY <2>1 DEF CompilingIsOwned, By, EverFailed, Active, Running
  <2>3. CASE bg.plan = p /\ Active
    <3>1. CASE BgFail
      <4>1. p \in PlanIds /\ ~plans[p].broken /\ FailBatch(p) /\ UNCHANGED <<plans, defined>>
        BY <1>2, <2>1, <2>3, <3>1 DEF BgFail
      <4>2. Dead(p)'
        BY <4>1, FailTable
      <4> QED  BY <1>0, <4>2 DEF Dead
    <3>2. CASE (BgDrain \/ BgLastCommit) /\ bg'.pc = "scan"
      BY <1>0, <2>3, <3>2, BatchEnds
    <3>3. CASE ~BgFail /\ ~((BgDrain \/ BgLastCommit) /\ bg'.pc = "scan")
      <4>1. ~BgScan /\ ~BgReserve /\ ~BgJoin
        BY <2>3 DEF BgScan, BgReserve, BgJoin, Active, Running
      <4>2. Active' /\ bg'.plan = bg.plan
        <5>1. CASE BgPlan \/ BgAttach
          BY <1>0, <5>1 DEF BgPlan, BgAttach, BgSet, Active, Running
        <5>2. CASE BgReceive
          BY <1>0, <5>2 DEF BgReceive, BgSet, Active, Running
        <5>5. CASE BgCommit
          BY <1>0, <5>5 DEF BgCommit, BgSet, Active, Running
        <5>3. CASE BgDrain
          BY <1>0, <3>3, <5>3 DEF BgDrain, BgSet, Active, Running
        <5>4. CASE BgLastCommit
          BY <1>0, <3>3, <5>4 DEF BgLastCommit, BgSet, Active, Running
        <5> QED  BY <3>3, <4>1, <5>1, <5>2, <5>3, <5>4, <5>5 DEF BgNext
      <4> QED  BY <2>3, <4>2
    <3> QED  BY <3>1, <3>2, <3>3
  <2>4. CASE \E d \in Callers : Works(d, p, f)
    BY <1>0, <2>4 DEF Works, At
  <2> QED  BY <2>2, <2>3, <2>4
<1> QED  BY <1>1, <1>2

--------------------------------------------------------------------------------
\* The inductive invariant.
TableIsOwned ==
    /\ TypeOK /\ TableInv /\ AllCallers /\ BgInv /\ WaitersReachable
    /\ PublishedInv /\ OwnedInv /\ DefinedInv /\ CalleesDefined /\ CompilingIsOwned

\* It holds at the start.
LEMMA TableIsOwnedInit == Init => TableIsOwned
<1> SUFFICES ASSUME Init PROVE TableIsOwned
  OBVIOUS
<1>0. Len(plans) = 0 /\ PlanIds = {} /\ failed = {} /\ \A f \in Functions : ~Compiling(f) /\ ~Ready(f)
  BY SMTT(20) DEF Init, PlanIds, Compiling, Ready, Idle
<1>1. TypeOK
  <2>1. entry \in [Functions -> [st : {"declared", "compiling", "ready"}, plan : {0} \cup PlanIds]]
    BY DEF Init, Idle
  <2>6. plans \in Seq(PlanSet)
    BY SMTT(20) DEF Init
  <2>7. open \cup failed \subseteq PlanIds \X Functions /\ defined \subseteq Functions
    BY DEF Init
  <2>8. gil \in Callers \cup {NoOne} /\ stop \in BOOLEAN /\ stranded \in BOOLEAN
    BY DEF Init
  <2>9. faults \in 0..MaxFaults
    BY GraphAssumption, SMTT(20) DEF Init
  <2>2. Order[1] \in Functions
    BY GraphAssumption, SMTT(20)
  <2>3. bg \in BgSet
    BY <2>2 DEF Init, BgSet
  <2>4. worker \in [Workers -> [pc : {"loop", "pop", "compile", "exit"}, f : Functions]] /\ chan \in Seq([f : Functions, ok : BOOLEAN])
    BY <2>2, SMTT(20) DEF Init
  <2>5. caller \in [Callers -> CallerSet]
    BY GraphAssumption, SMTT(20) DEF Init, CallerSet
  <2> QED  BY <2>1, <2>3, <2>4, <2>5, <2>6, <2>7, <2>8, <2>9 DEF TypeOK
<1>2. TableInv
  BY <1>0 DEF TableInv
<1>3. AllCallers
  BY DEF Init, AllCallers, CallerInv, At, Assisting
<1>4. BgInv
  BY DEF Init, BgInv, Active, Running
<1>5. WaitersReachable
  BY <1>0 DEF WaitersReachable, Init
<1>6. PublishedInv /\ OwnedInv /\ DefinedInv /\ CalleesDefined /\ CompilingIsOwned
  BY <1>0 DEF PublishedInv, OwnedInv, Running, Init, DefinedInv, CalleesDefined, CompilingIsOwned
<1> QED  BY <1>1, <1>2, <1>3, <1>4, <1>5, <1>6 DEF TableIsOwned

\* Every step of every thread keeps it.
LEMMA TableIsOwnedNext == TableIsOwned /\ [Next]_vars => TableIsOwned'
<1> SUFFICES ASSUME TypeOK, TableInv, AllCallers, BgInv, WaitersReachable, PublishedInv, OwnedInv, DefinedInv, CalleesDefined,
                    CompilingIsOwned, [Next]_vars
             PROVE  TableIsOwned'
  BY DEF TableIsOwned
<1>0. WaitersReachable'
  BY NextSound DEF Sound
<1>1. CASE BgNext
  <2>1. TypeOK'  BY <1>1, BgTypes
  <2>2. TableInv' /\ Kept  BY <1>1, BgTable
  <2>3. BgInv'  BY <1>1, <2>1, <2>2, BgOwn
  <2>4. AllCallers'
    <3>1. caller' = caller
      BY <1>1 DEF BgNext, BgScan, BgReserve, BgJoin, BgPlan, BgAttach, BgReceive, BgCommit, BgDrain, BgLastCommit, BgFail
    <3>2. \A c \in Callers : CallerInv(c)'
      BY <2>2, <3>1, CallerFrame DEF AllCallers
    <3> QED  BY <3>2 DEF AllCallers
  <2>5. (Quiet \/ Publishes) /\ DoomedStays  BY <1>1, <2>1, BgKinds
  <2>6. PublishedInv'  BY <2>2, <2>5, PublishedStep
  <2>7. DefinedInv' /\ CalleesDefined'  BY <2>2, <2>5, BodiesStep
  <2>8. OwnedInv'  BY <1>1, <2>1, <2>2, <2>3, <2>6, OwnedBg
  <2>9. CompilingIsOwned'  BY <1>1, <2>1, <2>2, <2>6, CompilingBg
  <2> QED  BY <1>0, <2>1, <2>2, <2>3, <2>4, <2>6, <2>7, <2>8, <2>9 DEF TableIsOwned
<1>2. ASSUME NEW w \in Workers, WorkerNext(w) PROVE TableIsOwned'
  <2>1. TypeOK'  BY <1>2, WorkerTypes
  <2>2. TableInv' /\ Kept  BY <1>2, WorkerTable
  <2>3. BgInv'  BY <1>2, <2>2, BgWorkers
  <2>4. AllCallers'
    <3>1. caller' = caller
      BY <1>2 DEF WorkerNext, WorkerCheck, WorkerPop, WorkerCompile
    <3>2. \A c \in Callers : CallerInv(c)'
      BY <2>2, <3>1, CallerFrame DEF AllCallers
    <3> QED  BY <3>2 DEF AllCallers
  <2>5. Quiet /\ DoomedStays  BY <1>2, WorkerKinds
  <2>6. PublishedInv'  BY <2>2, <2>5, PublishedStep
  <2>7. DefinedInv' /\ CalleesDefined'  BY <2>2, <2>5, BodiesStep
  <2>8. OwnedInv'  BY <1>2, <2>2, OwnedWorker
  <2>9. CompilingIsOwned'  BY <1>2, <2>2, CompilingWorker
  <2> QED  BY <1>0, <2>1, <2>2, <2>3, <2>4, <2>6, <2>7, <2>8, <2>9 DEF TableIsOwned
<1>3. ASSUME NEW c \in Callers, CallerNext(c) PROVE TableIsOwned'
  <2>0. CallerInv(c)  BY DEF AllCallers
  <2>1. TypeOK'  BY <1>3, <2>0, CallerTypes
  <2>2. TableInv' /\ Kept  BY <1>3, <2>0, CallerTable
  <2>3. BgInv'  BY <1>3, <2>2, PoolStays, BgFrame
  <2>4. AllCallers'
    <3>1. CallerInv(c)'  BY <1>3, <2>0, <2>1, <2>2, CallerOwn
    <3>2. \A d \in Callers : d # c => CallerInv(d)'
      BY <1>3, <2>2, OthersStay, CallerFrame DEF AllCallers
    <3> QED  BY <3>1, <3>2 DEF AllCallers
  <2>5. (Quiet \/ Publishes) /\ DoomedStays  BY <1>3, CallerKinds
  <2>6. PublishedInv'  BY <2>2, <2>5, PublishedStep
  <2>7. DefinedInv' /\ CalleesDefined'  BY <2>2, <2>5, BodiesStep
  <2>8. OwnedInv'  BY <1>3, <2>1, <2>2, OwnedCaller
  <2>9. CompilingIsOwned'  BY <1>3, <2>1, <2>2, CompilingCaller
  <2> QED  BY <1>0, <2>1, <2>2, <2>3, <2>4, <2>6, <2>7, <2>8, <2>9 DEF TableIsOwned
<1>4. CASE UNCHANGED vars \/ Finished
  <2>1. UNCHANGED vars  BY <1>4 DEF Finished
  <2>2. UNCHANGED <<entry, plans, open, failed, defined, gil, faults, bg, stop, worker, chan, caller, stranded>>
    BY <2>1 DEF vars, table, pool
  <2>3. UNCHANGED table  BY <2>1 DEF vars
  <2>4. TableInv' /\ Kept  BY <2>3, SameTableKept
  <2>5. TypeOK'
    BY <2>2, SMTT(20) DEF TypeOK, BgSet, CallerSet, PlanIds
  <2>6. BgInv'  BY <2>2, <2>4, BgFrame
  <2>7. AllCallers'
    <3>1. \A c \in Callers : CallerInv(c)'  BY <2>2, <2>4, CallerFrame DEF AllCallers
    <3> QED  BY <3>1 DEF AllCallers
  <2>8. Quiet /\ DoomedStays
    BY <2>2, SameQuiet DEF PlanIds, DoomedStays, Doomed, At
  <2>9. PublishedInv'  BY <2>4, <2>8, PublishedStep
  <2>10. DefinedInv' /\ CalleesDefined'  BY <2>4, <2>8, BodiesStep
  <2>11. OwnedInv'
    <3>1. (Running' <=> Running) /\ (Bad' <=> Bad) /\ InFlight' = InFlight /\ Define' = Define
      BY <2>2 DEF Running, Bad, InFlight, Group, Define
    <3>2. \A f, p : (By(f, p)' <=> By(f, p)) /\ Queued(p)' = Queued(p) /\ (EverFailed(f)' <=> EverFailed(f))
      BY <2>2 DEF By, Compiling, Queued, EverFailed, PlanIds
    <3>4. \A c, p, f : Works(c, p, f)' <=> Works(c, p, f)
      BY <2>2 DEF Works, At
    <3>3. \A t : Closure(t, Define)' = Closure(t, Define)
      BY <3>1 DEF Closure
    <3> QED  BY <2>2, <3>1, <3>2, <3>3, <3>4 DEF OwnedInv
  <2>12. CompilingIsOwned'
    BY <2>2 DEF CompilingIsOwned, Compiling, PlanIds, Works, At
  <2> QED  BY <1>0, <2>4, <2>5, <2>6, <2>7, <2>9, <2>10, <2>11, <2>12 DEF TableIsOwned
<1> QED  BY <1>1, <1>2, <1>3, <1>4 DEF Next

\* It holds for ever.
LEMMA TableIsOwnedHolds == Spec => []TableIsOwned
BY TableIsOwnedInit, TableIsOwnedNext, PTL DEF Spec

--------------------------------------------------------------------------------
\* The table, its plans and the threads stay in their types: in particular a
\* plan or waiter a thread holds is one that was made.
THEOREM TypeCorrect == Spec => []TypeOK
<1>1. TableIsOwned => TypeOK  BY DEF TableIsOwned
<1> QED  BY <1>1, TableIsOwnedHolds, PTL

\* A function that is being compiled has an owner: its background batch runs,
\* or a caller compiles it or took it from the queue, whatever batches failed,
\* were assisted or dropped dependencies on the way.
THEOREM CompilingIsOwnedHolds == Spec => []CompilingIsOwned
<1>1. TableIsOwned => CompilingIsOwned  BY DEF TableIsOwned
<1> QED  BY <1>1, TableIsOwnedHolds, PTL

\* When a function is published its direct callees have bodies, but for the two
\* exceptions the code leaves open, for every call graph and every schedule.
THEOREM CalleesDefinedHolds == Spec => []CalleesDefined
<1>1. TableIsOwned => CalleesDefined  BY DEF TableIsOwned
<1> QED  BY <1>1, TableIsOwnedHolds, PTL
================================================================================
