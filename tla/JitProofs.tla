------------------------------- MODULE JitProofs -------------------------------
(***************************************************************************)
(* Proofs about the JIT: its profile counters and its compile table.       *)
(*                                                                         *)
(* Counters.  The bounds that counter.rs promises hold for every capacity, *)
(* every set of values and every stream, and a value that makes up more    *)
(* than one Nth of the stream is kept.                                     *)
(*                                                                         *)
(* Table.  Whatever the call graph, the threads and the errors: the        *)
(* waiters without a result are those of the table, and a published        *)
(* function stays published.  The rest of the module is what each          *)
(* operation keeps of the types, of the table, and of what a caller and    *)
(* the background thread know of their plans; JitOwnerProofs builds on it. *)
(***************************************************************************)
EXTENDS ProcessJit, TopValueCounter, SequenceLemmas

--------------------------------------------------------------------------------
(* The counters.                                                            *)

\* No value sits in two slots.
Distinct == \A i, j \in Slots : slots[i].occupied /\ slots[j].occupied /\ slots[i].value = slots[j].value => i = j

\* Bracketed without the saturation.
Within == \A i \in Slots : slots[i].occupied =>
    /\ seen[slots[i].value] <= slots[i].approx_count
    /\ slots[i].approx_count <= seen[slots[i].value] + slots[i].max_overcount

\* A value in no slot was seen at most as often as the least slot says, and
\* never while a slot is free.
Absent == \A v \in Values : ~Tracked(v) =>
    \A i \in Slots : /\ slots[i].occupied => seen[v] <= slots[i].approx_count
                     /\ ~slots[i].occupied => seen[v] = 0

\* What makes Bracketed inductive.
IInv == CounterTypeOK /\ Distinct /\ Within /\ Absent

\* Every record writes one slot, and there are three ways to choose it.
LEMMA RecordWrites ==
  ASSUME NEW v \in Values, record(v), IInv
  PROVE \E i \in Slots, count \in Nat, over \in Nat :
          /\ slots' = [slots EXCEPT ![i] = Slot(v, count, over)]
          /\ \/ Holds(i, v) /\ count = slots[i].approx_count + 1 /\ over = slots[i].max_overcount
             \/ ~Tracked(v) /\ ~slots[i].occupied /\ count = 1 /\ over = 0
             \/ /\ ~Tracked(v) /\ Full /\ \A j \in Slots : slots[i].approx_count <= slots[j].approx_count
                /\ count = slots[i].approx_count + 1 /\ over = slots[i].approx_count
<1>0. \A i \in Slots : slots[i].approx_count \in Nat /\ slots[i].max_overcount \in Nat
  BY DEF IInv, CounterTypeOK
<1>1. CASE Hit(v)
  <2>1. PICK i \in Slots : /\ Holds(i, v)
                           /\ slots' = [slots EXCEPT ![i] = Slot(v, slots[i].approx_count + 1, slots[i].max_overcount)]
    BY <1>1, Zenon DEF Hit
  <2>2. slots[i].approx_count + 1 \in Nat /\ slots[i].max_overcount \in Nat
    BY <1>0
  <2> QED  BY <2>1, <2>2, Zenon
<1>2. CASE Fill(v)
  BY <1>2, Zenon DEF Fill
<1>3. CASE Displace(v)
  <2>1. PICK i \in Slots :
            /\ ~Tracked(v) /\ Full /\ \A j \in Slots : slots[i].approx_count <= slots[j].approx_count
            /\ slots' = [slots EXCEPT ![i] = Slot(v, slots[i].approx_count + 1, slots[i].approx_count)]
    BY <1>3, Zenon DEF Displace, MinSlot
  <2>2. slots[i].approx_count + 1 \in Nat /\ slots[i].approx_count \in Nat
    BY <1>0
  <2> QED  BY <2>1, <2>2, Zenon
<1> QED  BY <1>1, <1>2, <1>3 DEF record

\* A record keeps the invariant: the slot it writes is the value's own, a free one, or
\* the least, whose count bounds what the new value and the displaced one were seen.
LEMMA RecordStep == ASSUME NEW v \in Values, record(v), IInv PROVE IInv'
<1>1. PICK i \in Slots, count \in Nat, over \in Nat :
          /\ slots' = [slots EXCEPT ![i] = Slot(v, count, over)]
          /\ \/ Holds(i, v) /\ count = slots[i].approx_count + 1 /\ over = slots[i].max_overcount
             \/ ~Tracked(v) /\ ~slots[i].occupied /\ count = 1 /\ over = 0
             \/ /\ ~Tracked(v) /\ Full /\ \A j \in Slots : slots[i].approx_count <= slots[j].approx_count
                /\ count = slots[i].approx_count + 1 /\ over = slots[i].approx_count
  BY RecordWrites
<1>2. /\ slots \in [Slots -> [occupied : BOOLEAN, value : Values, approx_count : Nat, max_overcount : Nat]]
      /\ seen \in [Values -> Nat] /\ total \in 0..MaxRecords
  BY DEF IInv, CounterTypeOK
<1>3. /\ slots'[i] = Slot(v, count, over)
      /\ \A j \in Slots : j # i => slots'[j] = slots[j]
  BY <1>1, <1>2
<1>4. /\ Slot(v, count, over).occupied /\ Slot(v, count, over).value = v
      /\ Slot(v, count, over).approx_count = count /\ Slot(v, count, over).max_overcount = over
  BY DEF Slot
<1>5. /\ seen'[v] = seen[v] + 1
      /\ \A w \in Values : w # v => seen'[w] = seen[w]
      /\ \A w \in Values : seen[w] \in Nat /\ seen'[w] \in Nat
  BY <1>2 DEF record
<1>6. count > 0
  BY <1>1, <1>2
<1>7. CounterTypeOK'
  <2>1. Slot(v, count, over) \in [occupied : BOOLEAN, value : Values, approx_count : Nat, max_overcount : Nat]
    BY DEF Slot
  <2>2. slots' \in [Slots -> [occupied : BOOLEAN, value : Values, approx_count : Nat, max_overcount : Nat]]
    BY <1>1, <1>2, <2>1
  <2>3. seen' \in [Values -> Nat] /\ total' \in 0..MaxRecords
    BY <1>2, CounterAssumption DEF record
  <2>4. \A j \in Slots : slots'[j].occupied => slots'[j].approx_count > 0
    BY <1>3, <1>4, <1>6 DEF IInv, CounterTypeOK
  <2> QED  BY <2>2, <2>3, <2>4 DEF CounterTypeOK
<1>8. \A j \in Slots : j # i => ~Holds(j, v)
  BY <1>1 DEF IInv, Distinct, Holds, Tracked
<1>9. Distinct'
  BY <1>3, <1>4, <1>8 DEF IInv, Distinct, Holds
<1>10. Within'
  <2>1. seen'[v] <= count /\ count <= seen'[v] + over
    <3>1. CASE Holds(i, v) /\ count = slots[i].approx_count + 1 /\ over = slots[i].max_overcount
      BY <1>2, <1>5, <3>1 DEF IInv, Within, Holds
    <3>2. CASE ~Tracked(v) /\ ~slots[i].occupied /\ count = 1 /\ over = 0
      BY <1>2, <1>5, <3>2 DEF IInv, Absent
    <3>3. CASE ~Tracked(v) /\ Full /\ count = slots[i].approx_count + 1 /\ over = slots[i].approx_count
      BY <1>2, <1>5, <3>3 DEF IInv, Absent, Full
    <3> QED  BY <1>1, <3>1, <3>2, <3>3
  <2>2. ASSUME NEW j \in Slots, j # i, slots'[j].occupied
        PROVE seen'[slots'[j].value] = seen[slots[j].value]
    BY <1>2, <1>3, <1>5, <1>8, <2>2 DEF Holds
  <2>3. \A j \in Slots : j # i /\ slots'[j].occupied =>
            /\ seen'[slots'[j].value] <= slots'[j].approx_count
            /\ slots'[j].approx_count <= seen'[slots'[j].value] + slots'[j].max_overcount
    BY <1>3, <2>2 DEF IInv, Within
  <2> QED  BY <1>3, <1>4, <2>1, <2>3 DEF Within
<1>11. Absent'
  <2> SUFFICES ASSUME NEW w \in Values, ~Tracked(w)', NEW j \in Slots
               PROVE /\ slots'[j].occupied => seen'[w] <= slots'[j].approx_count
                     /\ ~slots'[j].occupied => seen'[w] = 0
    BY DEF Absent
  <2>1. w # v
    BY <1>3, <1>4 DEF Tracked, Holds
  <2>2. seen'[w] = seen[w]
    BY <1>5, <2>1
  <2>3. CASE ~Tracked(w)
    <3>1. /\ slots[j].occupied => seen[w] <= slots[j].approx_count
          /\ ~slots[j].occupied => seen[w] = 0
      BY <2>3 DEF IInv, Absent
    <3>2. CASE j # i
      BY <1>3, <2>2, <3>1, <3>2
    <3>3. CASE j = i
      <4>1. seen[w] <= count
        BY <1>1, <1>2, <1>5, <3>1, <3>3 DEF Holds, Full
      <4> QED  BY <1>3, <1>4, <2>2, <3>3, <4>1
    <3> QED  BY <3>2, <3>3
  \* The value w has just been displaced from the least slot.
  <2>4. CASE Tracked(w)
    <3>1. Holds(i, w)
      BY <1>3, <2>4 DEF Tracked, Holds
    <3>2. /\ Full /\ \A k \in Slots : slots[i].approx_count <= slots[k].approx_count
          /\ count = slots[i].approx_count + 1
      BY <1>1, <2>1, <3>1 DEF Holds
    <3>3. seen[w] <= slots[i].approx_count
      BY <3>1 DEF IInv, Within, Holds
    <3>4. \A k \in Slots : slots[k].approx_count \in Nat
      BY <1>2
    <3>5. slots'[j].occupied /\ seen[w] <= slots'[j].approx_count
      BY <1>3, <1>4, <1>5, <3>2, <3>3, <3>4 DEF Full
    <3> QED  BY <2>2, <3>5
  <2> QED  BY <2>3, <2>4
<1> QED  BY <1>7, <1>9, <1>10, <1>11 DEF IInv

\* The invariant holds along every stream.
LEMMA Inductive == CounterSpec => []IInv
<1>1. CounterInit => IInv
  BY CounterAssumption DEF CounterInit, IInv, CounterTypeOK, Distinct, Within, Absent, Tracked, Holds
<1>2. IInv /\ [CounterNext]_counterVars => IInv'
  <2>1. IInv /\ UNCHANGED counterVars => IInv'
    BY DEF IInv, CounterTypeOK, Distinct, Within, Absent, Tracked, Holds, counterVars
  <2> QED  BY <2>1, RecordStep DEF CounterNext
<1> QED  BY <1>1, <1>2, PTL DEF CounterSpec

\* approx_count bounds the true count from above and lower_bound from below,
\* whatever was displaced and in whatever order.
THEOREM BracketedHolds == CounterSpec => []Bracketed
<1>1. IInv => Bracketed
  <2> SUFFICES ASSUME IInv, NEW i \in Slots, slots[i].occupied
               PROVE /\ LowerBound(slots[i]) <= seen[slots[i].value]
                     /\ seen[slots[i].value] <= slots[i].approx_count
    BY DEF Bracketed
  <2>1. slots[i].approx_count \in Nat /\ slots[i].max_overcount \in Nat /\ seen[slots[i].value] \in Nat
    BY DEF IInv, CounterTypeOK
  <2> QED  BY <2>1 DEF IInv, Within, LowerBound
<1> QED  BY <1>1, Inductive, PTL

--------------------------------------------------------------------------------
(* The heavy hitters.  Every record adds one to one slot's count, so the    *)
(* counts of the slots add up to the length of the stream; a value in no    *)
(* slot was seen at most as often as each of them says.                     *)

\* s is the sequence of partial sums of the slots' counts.
Sums(s) == /\ s \in [0..N -> Nat] /\ s[0] = 0
           /\ \A i \in Slots : s[i] = s[i - 1] + slots[i].approx_count

\* The counts add up to the length of the stream, and a free slot has none.
Counted == /\ \E s : Sums(s) /\ s[N] = total
           /\ \A i \in Slots : ~slots[i].occupied => slots[i].approx_count = 0

\* Numbers that are all at least m add up to at least m times their number.
LEMMA SumAtLeast ==
  ASSUME NEW s, Sums(s), NEW m \in Nat,
         \A i \in Slots : slots[i].approx_count \in Nat /\ m <= slots[i].approx_count
  PROVE N * m <= s[N]
<1> DEFINE S == {n \in Nat : n <= N => n * m <= s[n]}
<1>1. 0 \in S
  BY CounterAssumption DEF Sums
<1>2. ASSUME NEW n \in Nat, n \in S PROVE n + 1 \in S
  <2> SUFFICES ASSUME n + 1 <= N PROVE (n + 1) * m <= s[n + 1]
    OBVIOUS
  <2>1. n <= N /\ n + 1 \in Slots /\ n \in 0..N
    BY CounterAssumption DEF Slots
  <2>2. n * m <= s[n]
    BY <1>2, <2>1
  <2>3. s[n + 1] = s[n] + slots[n + 1].approx_count /\ s[n] \in Nat
    BY <2>1 DEF Sums
  <2>4. (n + 1) * m = n * m + m /\ n * m \in Nat
    OBVIOUS
  <2>5. slots[n + 1].approx_count \in Nat /\ m <= slots[n + 1].approx_count
    BY <2>1
  <2> HIDE DEF S
  <2> QED  BY <2>2, <2>3, <2>4, <2>5
<1>3. Nat \subseteq S
  <2> HIDE DEF S
  <2> QED  BY <1>1, <1>2, NatIsInductive
<1> QED  BY <1>3, CounterAssumption

\* A record raises one slot's count by one: every partial sum from there on.
LEMMA CountedStep == ASSUME NEW v \in Values, record(v), IInv, Counted PROVE Counted'
<1>1. PICK i \in Slots, count \in Nat, over \in Nat :
          /\ slots' = [slots EXCEPT ![i] = Slot(v, count, over)]
          /\ count = slots[i].approx_count + 1
  <2>1. \A j \in Slots : ~slots[j].occupied => slots[j].approx_count = 0
    BY DEF Counted
  <2> QED  BY <2>1, RecordWrites
<1>2. /\ \A j \in Slots : slots[j].approx_count \in Nat
      /\ DOMAIN slots = Slots /\ total \in Nat
  BY DEF IInv, CounterTypeOK
<1>3. /\ slots'[i].occupied /\ slots'[i].approx_count = slots[i].approx_count + 1
      /\ \A j \in Slots : j # i => slots'[j] = slots[j]
  BY <1>1, <1>2 DEF Slot
<1>4. PICK s : Sums(s) /\ s[N] = total
  BY DEF Counted
<1> DEFINE t == [k \in 0..N |-> IF i <= k THEN s[k] + 1 ELSE s[k]]
<1>5. \A k \in 0..N : s[k] \in Nat
  BY <1>4 DEF Sums
<1>6. t \in [0..N -> Nat]
  BY <1>5
<1>7. t[0] = 0
  BY <1>4, CounterAssumption DEF Sums, Slots
<1>8. ASSUME NEW j \in Slots PROVE t[j] = t[j - 1] + slots'[j].approx_count
  <2>1. j \in 0..N /\ j - 1 \in 0..N /\ i \in Nat /\ j \in Nat
    BY CounterAssumption DEF Slots
  <2>2. s[j] = s[j - 1] + slots[j].approx_count
    BY <1>4 DEF Sums
  <2>3. s[j] \in Nat /\ s[j - 1] \in Nat /\ slots[j].approx_count \in Nat
    BY <1>2, <1>5, <2>1
  <2>4. slots'[j].approx_count = IF j = i THEN slots[j].approx_count + 1 ELSE slots[j].approx_count
    BY <1>3
  <2>5. /\ t[j] = IF i <= j THEN s[j] + 1 ELSE s[j]
        /\ t[j - 1] = IF i <= j - 1 THEN s[j - 1] + 1 ELSE s[j - 1]
    BY <2>1
  <2> HIDE DEF t
  <2> QED  BY <2>1, <2>2, <2>3, <2>4, <2>5
<1>9. t[N] = total'
  BY <1>2, <1>4, CounterAssumption DEF record, Slots
<1> HIDE DEF t
<1>10. Sums(t)'
  BY <1>6, <1>7, <1>8 DEF Sums
<1>11. \A j \in Slots : ~slots'[j].occupied => slots'[j].approx_count = 0
  BY <1>3 DEF Counted
<1> QED  BY <1>9, <1>10, <1>11 DEF Counted

\* A value that makes up more than one Nth of the stream is in a slot, for every
\* capacity and every order of the stream: what the profile's readers rely on.
THEOREM HeavyHittersKeptHolds == CounterSpec => []HeavyHittersKept
<1>1. CounterInit => Counted
  <2> SUFFICES ASSUME CounterInit PROVE Counted
    OBVIOUS
  <2> DEFINE s == [k \in 0..N |-> 0]
  <2>1. Sums(s) /\ s[N] = total
    BY CounterAssumption DEF CounterInit, Sums, Slots
  <2> HIDE DEF s
  <2> QED  BY <2>1 DEF CounterInit, Counted
<1>2. IInv /\ Counted /\ [CounterNext]_counterVars => Counted'
  <2>1. Counted /\ UNCHANGED counterVars => Counted'
    BY Zenon DEF Counted, Sums, counterVars
  <2> QED  BY <2>1, CountedStep DEF CounterNext
<1>3. IInv /\ Counted => HeavyHittersKept
  <2> SUFFICES ASSUME IInv, Counted, NEW v \in Values, ~Tracked(v)
               PROVE ~(N * seen[v] > total)
    BY DEF HeavyHittersKept
  <2>1. /\ seen[v] \in Nat /\ total \in Nat
        /\ \A i \in Slots : slots[i].approx_count \in Nat
    BY DEF IInv, CounterTypeOK
  <2>2. \A i \in Slots : seen[v] <= slots[i].approx_count
    BY <2>1 DEF IInv, Absent, Counted
  <2>3. PICK s : Sums(s) /\ s[N] = total
    BY DEF Counted
  <2>4. N * seen[v] <= total
    BY <2>1, <2>2, <2>3, SumAtLeast
  <2>5. N * seen[v] \in Nat
    BY <2>1, CounterAssumption
  <2> QED  BY <2>1, <2>4, <2>5
<1> QED  BY <1>1, <1>2, <1>3, Inductive, PTL DEF CounterSpec

--------------------------------------------------------------------------------
(* The compile table.                                                       *)

\* The steps are first-order over sets and functions and left to Zenon; the
\* ones with arithmetic, sequences or larger records name an SMT solver.
USE ZenonT(30)

\* Plan p is compiling f; it compiles nothing any more; some plan of f failed.
By(f, p) == Compiling(f) /\ entry[f].plan = p
Dead(p) == \A f \in Functions : ~By(f, p)
EverFailed(f) == \E q \in PlanIds : <<q, f>> \in failed

\* What the entries and the plans say of each other: a failed plan is dead, two
\* plans define the same function only after the first failed for it, and what
\* a plan does not define of its callees was ready or is defined earlier.
TableInv ==
    /\ \A f \in Functions : Compiling(f) => entry[f].plan \in PlanIds /\ f \in plans[entry[f].plan].define
    /\ \A w \in failed : w \in PlanIds \X Functions /\ w[2] \in plans[w[1]].define /\ Dead(w[1]) /\ ~plans[w[1]].broken
    /\ \A p \in PlanIds : \A f \in plans[p].define : By(f, p) \/ Ready(f) \/ <<p, f>> \in failed
    /\ \A p, q \in PlanIds : p < q => \A f \in plans[p].define \cap plans[q].define : <<p, f>> \in failed
    /\ \A q \in PlanIds : \A f \in plans[q].elsewhere : \E p \in PlanIds : p < q /\ f \in plans[p].define
    /\ \A p \in PlanIds : ~plans[p].broken =>
          \A f \in plans[p].define : \A g \in Calls[f] : g \in plans[p].define \cup plans[p].elsewhere \/ Ready(g)
    /\ \A p \in PlanIds : Queued(p) \subseteq plans[p].define
    /\ \A p \in PlanIds : plans[p].attached => ~plans[p].broken

\* A caller that took functions from a queue, and what it may have taken.
Assisting == {"deps", "depwait", "generate", "publish"}
Wanted(c) == Closure(Target[c], plans[caller[c].work].define)

\* What a caller knows of the plan it works for: the functions it wants have
\* left the queue, and those it did not claim are done, failed or waited for.
CallerInv(c) ==
    /\ caller[c].pc \in {"compile", "commit", "fail", "take"} \cup Assisting =>
          caller[c].work \in PlanIds /\ ~plans[caller[c].work].broken
    /\ caller[c].pc \in {"take"} \cup Assisting =>
          plans[caller[c].work].attached /\ Target[c] \in plans[caller[c].work].define
    /\ caller[c].pc \in Assisting =>
          Target[c] \in caller[c].claimed /\ caller[c].claimed \subseteq Wanted(c) /\ Wanted(c) \cap Queued(caller[c].work) = {}
    /\ At(c, "depwait") =>
          \A w \in caller[c].deps : /\ w \in PlanIds \X Functions /\ w[2] \in plans[w[1]].define
                                    /\ w[1] = caller[c].work \/ Dead(caller[c].work)
    /\ caller[c].pc \in {"depwait", "generate", "publish"} =>
          \A g \in Wanted(c) \ caller[c].claimed :
             \/ Ready(g) \/ <<caller[c].work, g>> \in failed
             \/ At(c, "depwait") /\ \E w \in caller[c].deps : w[2] = g

\* The background batch: its phases, what left its queue and is not committed,
\* an error still in the channel, and what it defines.
Running == bg.pc \in {"collect", "commit", "last"}
Active == Running \/ bg.pc \in {"plan", "attach", "fail"}
Group == IF bg.pc \in {"commit", "last"} THEN bg.group ELSE {}
InFlight == {worker[w].f : w \in {v \in Workers : worker[v].pc = "compile"}}
            \cup {chan[i].f : i \in 1..Len(chan)} \cup bg.pending \cup Group
Bad == \E i \in 1..Len(chan) : ~chan[i].ok
Define == plans[bg.plan].define

\* What the background thread knows: a worker leaves only an empty queue or an
\* error behind, and a group it commits calls nothing that is still to come.
BgInv ==
    /\ Active => bg.plan \in PlanIds /\ ~plans[bg.plan].broken /\ Define \subseteq Module
    /\ bg.pc = "attach" => ~plans[bg.plan].attached
    /\ bg.pc = "plan" => ~plans[bg.plan].attached
    /\ bg.pc \notin {"collect", "commit"} => \A w \in Workers : worker[w].pc = "exit"
    /\ Running => /\ plans[bg.plan].attached
                  /\ \A f \in Define : f \in bg.remaining \/ Ready(f)
                  /\ InFlight \subseteq Define
                  /\ \A w \in Workers : worker[w].pc = "exit" => stop \/ Queued(bg.plan) = {}
                  /\ stop => bg.error \/ Bad
    /\ bg.pc \in {"commit", "last"} =>
          ~bg.error /\ \A f \in bg.group : \A g \in Calls[f] \cap Define : g \in bg.group \/ Ready(g)
    /\ bg.pc = "last" => chan = <<>>

\* Somebody is going to fail plan p.
Doomed(p) == \/ \E c \in Callers : At(c, "fail") /\ caller[c].work = p
             \/ bg.plan = p /\ (bg.pc = "fail" \/ (bg.pc = "collect" /\ bg.error))

\* A callee that its plan still compiles after its caller was published: an
\* earlier plan of it failed, or this one is going to.
PublishedInv ==
    \A p \in PlanIds : \A f \in plans[p].define : \A g \in Calls[f] :
       Ready(f) /\ By(g, p) => EverFailed(g) \/ Doomed(p)

\* While a batch runs without an error: what it compiles is in its queue, in the
\* hands of a caller, or a dependency of something it has in flight.
OwnedInv ==
    Running /\ ~bg.error /\ ~Bad => \A f \in Functions : By(f, bg.plan) =>
       \/ EverFailed(f) \/ f \in Queued(bg.plan)
       \/ \E c \in Callers : Works(c, bg.plan, f)
       \/ \E t \in InFlight : f \in Closure(t, Define)

\* What is published has a body.
DefinedInv == \A f \in Functions : Ready(f) => f \in defined
AllCallers == \A c \in Callers : CallerInv(c)

--------------------------------------------------------------------------------
(* Closures.                                                                *)

\* The functions of the module are functions, each in its place.
LEMMA ModuleInside == Module \in SUBSET Functions
BY GraphAssumption, SMTT(20) DEF Module

\* A dependency closure stays inside the set it is computed in.
LEMMA ClosureInside == ASSUME NEW f, NEW S PROVE Closure(f, S) \in SUBSET S
BY DEF Closure

\* It holds the function it starts from.
LEMMA ClosureSelf == ASSUME NEW S, NEW f \in S PROVE f \in Closure(f, S)
BY DEF Closure

\* It holds what its members call.
LEMMA ClosureStep ==
    ASSUME NEW S, NEW f, NEW g \in Closure(f, S), NEW h \in Calls[g], h \in S PROVE h \in Closure(f, S)
<1> SUFFICES ASSUME NEW T \in SUBSET S, f \in T, \A x \in T : Calls[x] \cap S \subseteq T PROVE h \in T
  BY DEF Closure
<1>1. g \in T
  BY DEF Closure
<1> QED  BY <1>1

\* It is the least such set.
LEMMA ClosureLeast ==
    ASSUME NEW S, NEW f, NEW T \in SUBSET S, f \in T, \A g \in T : Calls[g] \cap S \subseteq T
    PROVE  Closure(f, S) \subseteq T
BY DEF Closure

\* The closure of a member stays inside.
LEMMA ClosureTransitive == ASSUME NEW S, NEW f, NEW g \in Closure(f, S) PROVE Closure(g, S) \subseteq Closure(f, S)
<1>1. \A x \in Closure(f, S) : Calls[x] \cap S \subseteq Closure(f, S)
  BY ClosureStep
<1> QED  BY <1>1, ClosureInside, ClosureLeast

--------------------------------------------------------------------------------
Table == <<entry, open>>

\* What a step of the table may do: both properties survive it.
Sound == /\ WaitersReachable => WaitersReachable'
         /\ \A f \in Functions : Ready(f) => Ready(f)'

\* A reservation takes functions nobody is compiling.
LEMMA ReserveSound == ASSUME NEW batch \in SUBSET Functions, Reserve(batch) PROVE Sound
<1> DEFINE p == Len(plans) + 1
           define == {f \in batch : NeedsCompile(f)}
<1>1. /\ entry' = [f \in Functions |-> IF f \in define THEN [st |-> "compiling", plan |-> p] ELSE entry[f]]
      /\ open' = open \cup {<<p, f>> : f \in define}
  BY DEF Reserve
<1>2. \A f \in define : f \in Functions /\ entry[f].st = "declared"
  BY DEF NeedsCompile
<1> HIDE DEF p, define
<1> QED  BY <1>1, <1>2 DEF Sound, WaitersReachable, Compiling, Ready

\* So does one that fails half way.
LEMMA ReserveBreakSound ==
  ASSUME NEW root, NEW batch \in SUBSET Functions, ReserveBreak(root, batch) PROVE Sound
<1> DEFINE p == Len(plans) + 1
<1>1. PICK done \in SUBSET {f \in batch : NeedsCompile(f)} :
         /\ entry' = [f \in Functions |-> IF f \in done THEN [st |-> "compiling", plan |-> p] ELSE entry[f]]
         /\ open' = open \cup {<<p, f>> : f \in done}
  BY DEF ReserveBreak
<1>2. \A f \in done : f \in Functions /\ entry[f].st = "declared"
  BY DEF NeedsCompile
<1> HIDE DEF p
<1> QED  BY <1>1, <1>2 DEF Sound, WaitersReachable, Compiling, Ready

\* A commit closes the waiter of whichever plan holds the entry.
LEMMA MarkReadySound == ASSUME NEW group, MarkReady(group) PROVE Sound
BY SMTT(20) DEF MarkReady, Sound, WaitersReachable, Compiling, Ready

\* A failing plan touches only the entries it is still compiling.
LEMMA FailBatchSound == ASSUME NEW p, FailBatch(p) PROVE Sound
<1> DEFINE mine == {f \in plans[p].define : entry[f] = [st |-> "compiling", plan |-> p]}
<1>1. /\ entry' = [f \in Functions |-> IF f \in mine THEN Idle ELSE entry[f]]
      /\ open' = open \ {<<p, f>> : f \in mine}
  BY DEF FailBatch
<1>2. \A f \in mine : entry[f].st = "compiling" /\ entry[f].plan = p
  BY SMTT(20)
<1> HIDE DEF mine
<1>3. \A f \in Functions : Ready(f) => Ready(f)'
  BY <1>1, <1>2 DEF Ready
<1>4. ASSUME WaitersReachable PROVE WaitersReachable'
  <2>1. \A f \in Functions : Compiling(f)' <=> Compiling(f) /\ f \notin mine
    BY <1>1, <1>2 DEF Compiling, Idle
  <2>2. \A f \in Functions : f \notin mine => entry'[f] = entry[f]
    BY <1>1
  <2> QED  BY <1>1, <1>2, <1>4, <2>1, <2>2, SMTT(20) DEF WaitersReachable
<1> QED  BY <1>3, <1>4 DEF Sound

\* A step that leaves the entries and the waiters alone is sound.
LEMMA UnchangedSound == ASSUME UNCHANGED Table PROVE Sound
BY DEF Table, Sound, WaitersReachable, Compiling, Ready

\* A commit changes the table only by publishing its group.
LEMMA CommitSound == ASSUME NEW group, Commit(group) \/ CommitError(group) PROVE Sound
BY MarkReadySound DEF Commit, CommitError

\* The background thread changes the table only by its operations.
LEMMA BgSound == ASSUME BgNext PROVE Sound
<1>1. CASE BgScan \/ BgJoin \/ BgPlan \/ BgReceive \/ BgDrain
  <2>1. UNCHANGED Table  BY <1>1 DEF BgScan, BgJoin, BgPlan, BgReceive, BgDrain, table, Table
  <2> QED  BY <2>1, UnchangedSound
<1>2. CASE BgReserve
  <2>1. Module \in SUBSET Functions
    BY ModuleInside
  <2>2. UNCHANGED Table \/ Reserve(Module) \/ ReserveBreak(bg.root, Module)
    BY <1>2 DEF BgReserve, Table
  <2> QED  BY <2>1, <2>2, UnchangedSound, ReserveSound, ReserveBreakSound
<1>3. CASE BgAttach
  <2>1. UNCHANGED Table  BY <1>3 DEF BgAttach, Table
  <2> QED  BY <2>1, UnchangedSound
<1>4. CASE BgCommit \/ BgLastCommit
  <2>1. Commit(bg.group) \/ CommitError(bg.group)
    BY <1>4 DEF BgCommit, BgLastCommit
  <2> QED  BY <2>1, CommitSound
<1>5. CASE BgFail
  BY <1>5, FailBatchSound DEF BgFail
<1> QED  BY <1>1, <1>2, <1>3, <1>4, <1>5 DEF BgNext

\* Workers do not touch the table.
LEMMA WorkerSound == ASSUME NEW w \in Workers, WorkerNext(w) PROVE Sound
<1>1. UNCHANGED Table
  BY DEF WorkerNext, WorkerCheck, WorkerPop, WorkerCompile, table, Table
<1> QED  BY <1>1, UnchangedSound

\* Callers change the table only by its operations.
LEMMA CallerSound == ASSUME NEW c \in Callers, CallerNext(c) PROVE Sound
<1>1. CASE Enter(c) \/ Compile(c) \/ Assist(c) \/ AssistDeps(c) \/ DepWait(c) \/ Generate(c) \/ WaitTimeout(c) \/ WaitResult(c)
  <2>1. UNCHANGED Table
    BY <1>1 DEF Enter, Compile, Assist, AssistDeps, DepWait, Generate, WaitTimeout, WaitResult, table, Table
  <2> QED  BY <2>1, UnchangedSound
<1>2. CASE AssistTake(c) \/ Promote(c)
  <2>1. UNCHANGED Table  BY <1>2 DEF AssistTake, Promote, Table
  <2> QED  BY <2>1, UnchangedSound
<1>3. CASE Try(c)
  <2> DEFINE batch == Closure(Target[c], Functions)
  <2>1. batch \in SUBSET Functions  BY ClosureInside
  <2>2. UNCHANGED Table \/ Reserve(batch) \/ ReserveBreak(Target[c], batch)
    BY <1>3 DEF Try, Table
  <2> HIDE DEF batch
  <2> QED  BY <2>1, <2>2, UnchangedSound, ReserveSound, ReserveBreakSound
<1>4. CASE CommitBatch(c)
  BY <1>4, CommitSound DEF CommitBatch
<1>5. CASE Publish(c)
  BY <1>5, CommitSound DEF Publish
<1>6. CASE Fail(c)
  BY <1>6, FailBatchSound DEF Fail
<1> QED  BY <1>1, <1>2, <1>3, <1>4, <1>5, <1>6 DEF CallerNext

\* Every step of every thread keeps the table and its waiters together.
LEMMA NextSound == ASSUME [Next]_vars PROVE Sound
<1>1. CASE UNCHANGED vars \/ Finished
  <2>1. UNCHANGED Table  BY <1>1 DEF Finished, vars, table, Table
  <2> QED  BY <2>1, UnchangedSound
<1> QED  BY <1>1, BgSound, WorkerSound, CallerSound DEF Next

--------------------------------------------------------------------------------
\* No thread is ever left blocked on a waiter the table has forgotten: the
\* waiters without a result are exactly those of the entries being compiled.
THEOREM WaitersReachableHolds == Spec => []WaitersReachable
<1>1. Init => WaitersReachable
  <2> SUFFICES ASSUME Init PROVE WaitersReachable
    OBVIOUS
  <2>1. open = {} /\ entry = [f \in Functions |-> Idle]
    BY DEF Init
  <2>2. \A f \in Functions : ~Compiling(f)
    BY <2>1, SMTT(20) DEF Compiling, Idle
  <2> QED  BY <2>1, <2>2 DEF WaitersReachable
<1>2. WaitersReachable /\ [Next]_vars => WaitersReachable'
  BY NextSound DEF Sound
<1> QED  BY <1>1, <1>2, PTL DEF Spec

\* A published function stays published, whichever batches fail afterwards.
THEOREM ReadyStaysHolds == Spec => ReadyStays
<1>1. [Next]_vars => [\A f \in Functions : Ready(f) => Ready(f)']_vars
  BY NextSound DEF Sound
<1> QED  BY <1>1, PTL DEF Spec, ReadyStays

--------------------------------------------------------------------------------
(* The plans and the entries.                                               *)

\* What no step undoes.
Kept ==
    /\ PlanIds \subseteq PlanIds'
    /\ \A p \in PlanIds : /\ plans'[p].define = plans[p].define /\ plans'[p].elsewhere = plans[p].elsewhere
                          /\ plans'[p].broken = plans[p].broken
                          /\ plans[p].attached => plans'[p].attached /\ Queued(p)' \subseteq Queued(p)
                          /\ plans'[p].attached => plans[p].attached \/ bg'.pc = "collect"
    /\ failed \subseteq failed' /\ defined \subseteq defined'
    /\ \A f \in Functions : Ready(f) => Ready(f)'
    /\ \A f \in Functions, p \in PlanIds : By(f, p)' => By(f, p)

\* The plan a reservation appends.
LEMMA AppendPlan ==
    ASSUME plans \in Seq(PlanSet), NEW r \in PlanSet, plans' = Append(plans, r)
    PROVE  /\ plans' \in Seq(PlanSet) /\ Len(plans') = Len(plans) + 1 /\ Len(plans) \in Nat
           /\ PlanIds' = PlanIds \cup {Len(plans) + 1} /\ Len(plans) + 1 \notin PlanIds
           /\ \A p \in PlanIds : plans'[p] = plans[p] /\ Queued(p)' = Queued(p)
           /\ plans'[Len(plans) + 1] = r
<1>1. /\ plans' \in Seq(PlanSet) /\ Len(plans') = Len(plans) + 1 /\ Len(plans) \in Nat
      /\ \A p \in 1..Len(plans) : plans'[p] = plans[p]
      /\ plans'[Len(plans) + 1] = r
  BY SMTT(20)
<1>2. PlanIds' = PlanIds \cup {Len(plans) + 1} /\ Len(plans) + 1 \notin PlanIds
  BY <1>1, SMTT(20) DEF PlanIds
<1> QED  BY <1>1, <1>2 DEF PlanIds, Queued

\* The parts of a plan.
LEMMA PlanParts ==
    ASSUME plans \in Seq(PlanSet), NEW p \in PlanIds
    PROVE  /\ p \in Nat /\ plans[p] \in PlanSet /\ plans[p].queue \in Seq(Functions)
           /\ plans[p].define \subseteq Functions /\ plans[p].elsewhere \subseteq Functions
<1>1. p \in Nat /\ plans[p] \in PlanSet
  BY SMTT(20) DEF PlanIds
<1> QED  BY <1>1 DEF PlanSet

\* A new plan, of functions nobody is compiling together with what they call.
LEMMA NewPlanTable ==
    ASSUME TypeOK, TableInv, UNCHANGED <<failed, defined>>,
           NEW n, n = Len(plans) + 1, NEW r \in PlanSet, ~r.attached, r.queue = <<>>,
           plans' = Append(plans, r),
           entry' = [f \in Functions |-> IF f \in r.define THEN [st |-> "compiling", plan |-> n] ELSE entry[f]],
           \A f \in r.define : entry[f].st = "declared",
           \A f \in r.elsewhere : Compiling(f),
           ~r.broken => \A f \in r.define : \A g \in Calls[f] : g \in r.define \cup r.elsewhere \/ Ready(g)
    PROVE  TableInv' /\ Kept
<1> DEFINE define == r.define
           elsewhere == r.elsewhere
<1>1. /\ plans' = Append(plans, r) /\ failed' = failed /\ defined' = defined
      /\ entry' = [f \in Functions |-> IF f \in define THEN [st |-> "compiling", plan |-> n] ELSE entry[f]]
  OBVIOUS
<1>2. plans \in Seq(PlanSet)
  BY DEF PlanSet, TypeOK
<1>3. /\ plans' \in Seq(PlanSet) /\ n \in Nat
      /\ PlanIds' = PlanIds \cup {n} /\ n \notin PlanIds
      /\ \A p \in PlanIds : p \in Nat /\ p < n /\ plans'[p] = plans[p] /\ Queued(p)' = Queued(p)
      /\ plans'[n] = r
  BY <1>1, <1>2, AppendPlan, SMTT(20) DEF PlanIds
<1>4. Queued(n)' = {}
  <2>1. plans'[n].queue = <<>>  BY <1>3
  <2> QED  BY <2>1, SMTT(20) DEF Queued
<1>5. \A f \in define : f \in Functions /\ entry[f].st = "declared"
  BY DEF PlanSet
<1>6. \A f \in elsewhere : f \in Functions /\ Compiling(f)
  BY DEF PlanSet
<1>8. r.define = define /\ r.elsewhere = elsewhere
  OBVIOUS
<1> HIDE DEF define, elsewhere
<1>9. \A f \in Functions : /\ \A p \in PlanIds : By(f, p)' <=> By(f, p)
                           /\ By(f, n)' <=> f \in define
                           /\ Ready(f)' <=> Ready(f)
  <2> SUFFICES ASSUME NEW f \in Functions
               PROVE  /\ \A p \in PlanIds : By(f, p)' <=> By(f, p)
                      /\ By(f, n)' <=> f \in define
                      /\ Ready(f)' <=> Ready(f)
    OBVIOUS
  <2>1. CASE f \in define
    <3>1. entry'[f].st = "compiling" /\ entry'[f].plan = n /\ entry[f].st = "declared"
      BY <1>1, <1>5, <2>1, SMTT(20)
    <3> QED  BY <1>3, <2>1, <3>1 DEF By, Compiling, Ready
  <2>2. CASE f \notin define
    <3>1. entry'[f] = entry[f]
      BY <1>1, <2>2
    <3>2. ~By(f, n)
      BY <1>3 DEF TableInv, By
    <3> QED  BY <2>2, <3>1, <3>2 DEF By, Compiling, Ready
  <2> QED  BY <2>1, <2>2
<1>10. \A p \in PlanIds : Dead(p) => Dead(p)'
  BY <1>9 DEF Dead
<1>11. Kept
  BY <1>1, <1>3, <1>9 DEF Kept
<1>12. \A f \in Functions : Compiling(f)' => entry'[f].plan \in PlanIds' /\ f \in plans'[entry'[f].plan].define
  <2> SUFFICES ASSUME NEW f \in Functions, Compiling(f)' PROVE entry'[f].plan \in PlanIds' /\ f \in plans'[entry'[f].plan].define
    OBVIOUS
  <2>1. CASE f \in define
    <3>1. entry'[f].plan = n  BY <1>1, <2>1, SMTT(20)
    <3> QED  BY <1>3, <1>8, <2>1, <3>1
  <2>2. CASE f \notin define
    <3>1. entry'[f] = entry[f]  BY <1>1, <2>2
    <3>2. entry[f].plan \in PlanIds /\ f \in plans[entry[f].plan].define  BY <3>1 DEF Compiling, TableInv
    <3> QED  BY <1>3, <3>1, <3>2
  <2> QED  BY <2>1, <2>2
<1>13. \A w \in failed' : w \in PlanIds' \X Functions /\ w[2] \in plans'[w[1]].define /\ Dead(w[1])' /\ ~plans'[w[1]].broken
  BY <1>1, <1>3, <1>10 DEF TableInv
<1>14. \A p \in PlanIds' : \A f \in plans'[p].define : By(f, p)' \/ Ready(f)' \/ <<p, f>> \in failed'
  <2> SUFFICES ASSUME NEW p \in PlanIds', NEW f \in plans'[p].define PROVE By(f, p)' \/ Ready(f)' \/ <<p, f>> \in failed
    BY <1>1
  <2>1. CASE p \in PlanIds
    <3>1. f \in plans[p].define /\ f \in Functions
      BY <1>2, <1>3, <2>1, PlanParts
    <3> QED  BY <1>9, <2>1, <3>1 DEF TableInv
  <2>2. CASE p = n
    BY <1>3, <1>5, <1>8, <1>9, <2>2
  <2> QED  BY <1>3, <2>1, <2>2
<1>15. \A p, q \in PlanIds' : p < q => \A f \in plans'[p].define \cap plans'[q].define : <<p, f>> \in failed'
  <2> SUFFICES ASSUME NEW p \in PlanIds', NEW q \in PlanIds', p < q, NEW f \in plans'[p].define \cap plans'[q].define
               PROVE  <<p, f>> \in failed
    BY <1>1
  <2>1. p \in PlanIds /\ f \in plans[p].define
    <3>1. CASE p = n
      <4>1. q \in Nat /\ (q = n \/ q < n)  BY <1>3
      <4> QED  BY <1>3, <3>1, <4>1, SMTT(20)
    <3> QED  BY <1>3, <3>1
  <2>2. CASE q \in PlanIds
    BY <1>3, <2>1, <2>2 DEF TableInv
  <2>3. CASE q = n
    <3>1. f \in define  BY <1>3, <1>8, <2>3
    <3> QED  BY <1>5, <2>1, <3>1 DEF TableInv, By, Compiling, Ready
  <2> QED  BY <1>3, <2>2, <2>3
<1>16. \A q \in PlanIds' : \A f \in plans'[q].elsewhere : \E p \in PlanIds' : p < q /\ f \in plans'[p].define
  <2> SUFFICES ASSUME NEW q \in PlanIds', NEW f \in plans'[q].elsewhere PROVE \E p \in PlanIds : p < q /\ f \in plans[p].define
    <3>1. \A p \in PlanIds : p \in PlanIds' /\ plans'[p].define = plans[p].define  BY <1>3
    <3> QED  BY <3>1
  <2>1. CASE q \in PlanIds
    BY <1>3, <2>1 DEF TableInv
  <2>2. CASE q = n
    BY <1>3, <1>6, <1>8, <2>2 DEF TableInv
  <2> QED  BY <1>3, <2>1, <2>2
<1>17. \A p \in PlanIds' : ~plans'[p].broken =>
          \A f \in plans'[p].define : \A g \in Calls[f] : g \in plans'[p].define \cup plans'[p].elsewhere \/ Ready(g)'
  <2> SUFFICES ASSUME NEW p \in PlanIds', ~plans'[p].broken, NEW f \in plans'[p].define, NEW g \in Calls[f]
               PROVE  g \in plans'[p].define \cup plans'[p].elsewhere \/ Ready(g)'
    OBVIOUS
  <2>1. CASE p \in PlanIds
    <3>1. f \in Functions /\ g \in Functions
      BY <1>2, <1>3, <2>1, GraphAssumption, PlanParts
    <3> QED  BY <1>3, <1>9, <2>1, <3>1 DEF TableInv
  <2>2. CASE p = n
    <3>1. g \in define \cup elsewhere \/ Ready(g)  BY <1>3, <1>8, <2>2
    <3>2. f \in Functions /\ g \in Functions  BY <1>3, <1>5, <1>8, <2>2, GraphAssumption
    <3> QED  BY <1>3, <1>8, <1>9, <2>2, <3>1, <3>2
  <2> QED  BY <1>3, <2>1, <2>2
<1>18. \A p \in PlanIds' : Queued(p)' \subseteq plans'[p].define
  <2> SUFFICES ASSUME NEW p \in PlanIds' PROVE Queued(p)' \subseteq plans'[p].define
    OBVIOUS
  <2>1. CASE p \in PlanIds
    BY <1>3, <2>1 DEF TableInv
  <2> QED  BY <1>3, <1>4, <2>1
<1>19. \A p \in PlanIds' : plans'[p].attached => ~plans'[p].broken
  BY <1>3, <1>8 DEF TableInv
<1>20. TableInv'
  BY <1>12, <1>13, <1>14, <1>15, <1>16, <1>17, <1>18, <1>19 DEF TableInv
<1> QED  BY <1>11, <1>20

\* A reservation of functions together with what they call.
LEMMA ReserveTable ==
    ASSUME TypeOK, TableInv, NEW batch \in SUBSET Functions, \A f \in batch : Calls[f] \subseteq batch,
           Reserve(batch), UNCHANGED <<failed, defined>>
    PROVE  TableInv' /\ Kept
<1>0. PICK n : n = Len(plans) + 1
  OBVIOUS
<1>1. PICK r : r = [define |-> {f \in batch : NeedsCompile(f)}, elsewhere |-> {f \in batch : Compiling(f)},
                    broken |-> FALSE, attached |-> FALSE, queue |-> <<>>]
  OBVIOUS
<1>2. r \in PlanSet /\ ~r.attached /\ r.queue = <<>>
  BY <1>1, SMTT(20) DEF PlanSet
<1>3. r.define = {f \in batch : NeedsCompile(f)} /\ r.elsewhere = {f \in batch : Compiling(f)}
  BY <1>1
<1>4. /\ plans' = Append(plans, r)
      /\ entry' = [f \in Functions |-> IF f \in r.define THEN [st |-> "compiling", plan |-> n] ELSE entry[f]]
  BY <1>0, <1>1, <1>3 DEF Reserve
<1>5. \A f \in batch : f \in r.define \/ f \in r.elsewhere \/ Ready(f)
  BY <1>3 DEF NeedsCompile, Compiling, Ready, TypeOK
<1>6. \A f \in r.define : entry[f].st = "declared" /\ f \in batch
  BY <1>3 DEF NeedsCompile
<1>7. \A f \in r.elsewhere : Compiling(f)
  BY <1>3
<1> QED  BY <1>0, <1>2, <1>4, <1>5, <1>6, <1>7, NewPlanTable

\* One that breaks off.
LEMMA ReserveBreakTable ==
    ASSUME TypeOK, TableInv, NEW root, NEW batch \in SUBSET Functions, ReserveBreak(root, batch),
           UNCHANGED <<failed, defined>>
    PROVE  TableInv' /\ Kept
<1>0. PICK n : n = Len(plans) + 1
  OBVIOUS
<1>1. PICK done \in SUBSET {f \in batch : NeedsCompile(f)} :
         /\ plans' = Append(plans, [define |-> done, elsewhere |-> {}, broken |-> TRUE, attached |-> FALSE, queue |-> <<>>])
         /\ entry' = [f \in Functions |-> IF f \in done THEN [st |-> "compiling", plan |-> n] ELSE entry[f]]
  BY <1>0 DEF ReserveBreak
<1>2. PICK r : r = [define |-> done, elsewhere |-> {}, broken |-> TRUE, attached |-> FALSE, queue |-> <<>>]
  OBVIOUS
<1>3. r \in PlanSet /\ ~r.attached /\ r.queue = <<>> /\ r.define = done /\ r.elsewhere = {} /\ r.broken
  BY <1>2, SMTT(20) DEF PlanSet
<1>4. \A f \in r.define : entry[f].st = "declared"
  BY <1>1, <1>3 DEF NeedsCompile
<1> QED  BY <1>0, <1>1, <1>2, <1>3, <1>4, NewPlanTable

\* What a step that adds no plan has to show of the table: no reservation is
\* new, and only functions, failures and queues have to be looked at.
LEMMA TableInvKept ==
    ASSUME TableInv, PlanIds' = PlanIds, failed \subseteq failed',
           \A q \in PlanIds : /\ plans'[q].define = plans[q].define /\ plans'[q].elsewhere = plans[q].elsewhere
                              /\ plans'[q].broken = plans[q].broken
                              /\ Queued(q)' \subseteq plans[q].define
                              /\ plans'[q].attached => ~plans[q].broken,
           \A f \in Functions : Compiling(f)' => Compiling(f) /\ entry'[f] = entry[f],
           \A w \in failed' : w \in PlanIds \X Functions /\ w[2] \in plans[w[1]].define /\ Dead(w[1])' /\ ~plans[w[1]].broken,
           \A q \in PlanIds : \A f \in plans[q].define : By(f, q)' \/ Ready(f)' \/ <<q, f>> \in failed',
           \A q \in PlanIds : ~plans[q].broken =>
              \A f \in plans[q].define : \A g \in Calls[f] : g \in plans[q].define \cup plans[q].elsewhere \/ Ready(g)'
    PROVE  TableInv'
<1>1. \A f \in Functions : Compiling(f)' => entry'[f].plan \in PlanIds /\ f \in plans'[entry'[f].plan].define
  BY DEF TableInv
<1>2. \A w \in failed' : w[1] \in PlanIds
  BY SMTT(20)
<1>3. \A w \in failed' : w \in PlanIds \X Functions /\ w[2] \in plans'[w[1]].define /\ Dead(w[1])' /\ ~plans'[w[1]].broken
  BY <1>2
<1>4. \A q \in PlanIds : \A f \in plans'[q].define : By(f, q)' \/ Ready(f)' \/ <<q, f>> \in failed'
  OBVIOUS
<1>5. \A q, r \in PlanIds : q < r => \A f \in plans'[q].define \cap plans'[r].define : <<q, f>> \in failed'
  BY DEF TableInv
<1>6. \A q \in PlanIds : \A f \in plans'[q].elsewhere : \E r \in PlanIds : r < q /\ f \in plans'[r].define
  <2> SUFFICES ASSUME NEW q \in PlanIds, NEW f \in plans'[q].elsewhere
               PROVE  \E r \in PlanIds : r < q /\ f \in plans'[r].define
    OBVIOUS
  <2>1. f \in plans[q].elsewhere
    OBVIOUS
  <2>2. PICK r \in PlanIds : r < q /\ f \in plans[r].define
    BY <2>1 DEF TableInv
  <2>3. f \in plans'[r].define
    BY <2>2
  <2> QED  BY <2>2, <2>3
<1>7. \A q \in PlanIds : ~plans'[q].broken =>
         \A f \in plans'[q].define : \A g \in Calls[f] : g \in plans'[q].define \cup plans'[q].elsewhere \/ Ready(g)'
  OBVIOUS
<1>8. \A q \in PlanIds : Queued(q)' \subseteq plans'[q].define /\ (plans'[q].attached => ~plans'[q].broken)
  OBVIOUS
<1> QED  BY <1>1, <1>3, <1>4, <1>5, <1>6, <1>7, <1>8 DEF TableInv

\* A commit by whatever plan.
LEMMA MarkReadyTable ==
    ASSUME TypeOK, TableInv, NEW group, MarkReady(group), UNCHANGED plans, defined \subseteq defined'
    PROVE  TableInv' /\ Kept
<1>1. /\ plans' = plans /\ failed' = failed /\ PlanIds' = PlanIds /\ \A p \in PlanIds : Queued(p)' = Queued(p)
      /\ entry' = [f \in Functions |-> IF f \in group THEN [st |-> "ready", plan |-> 0] ELSE entry[f]]
  BY DEF MarkReady, PlanIds, Queued
<1>2. \A f \in Functions : /\ Ready(f)' <=> Ready(f) \/ f \in group
                           /\ \A p \in PlanIds : By(f, p)' <=> By(f, p) /\ f \notin group
                           /\ Compiling(f)' => Compiling(f) /\ entry'[f] = entry[f]
  BY <1>1 DEF Ready, By, Compiling
<1>3. Kept
  BY <1>1, <1>2 DEF Kept
<1>4. \A p \in PlanIds : Dead(p) => Dead(p)'
  BY <1>2 DEF Dead
<1>5. \A p \in PlanIds : plans[p].define \subseteq Functions
  BY PlanParts DEF TypeOK, PlanSet
<1>6. \A p \in PlanIds : \A f \in plans[p].define : By(f, p)' \/ Ready(f)' \/ <<p, f>> \in failed
  BY <1>2, <1>5 DEF TableInv
<1>7. \A p \in PlanIds : ~plans[p].broken =>
          \A f \in plans[p].define : \A g \in Calls[f] : g \in plans[p].define \cup plans[p].elsewhere \/ Ready(g)'
  BY <1>2, <1>5, GraphAssumption DEF TableInv
<1>8. \A w \in failed : w \in PlanIds \X Functions /\ w[2] \in plans[w[1]].define /\ Dead(w[1])' /\ ~plans[w[1]].broken
  <2>1. \A w \in failed : w[1] \in PlanIds
    BY SMTT(20) DEF TableInv
  <2> QED  BY <1>4, <2>1 DEF TableInv
<1>9. \A q \in PlanIds : Queued(q)' \subseteq plans[q].define /\ (plans[q].attached => ~plans[q].broken)
  BY <1>1 DEF TableInv
<1>10. TableInv'
  BY <1>1, <1>2, <1>6, <1>7, <1>8, <1>9, TableInvKept
<1> QED  BY <1>3, <1>10

\* The failure of a plan kills it.
LEMMA FailTable ==
    ASSUME TypeOK, TableInv, NEW p \in PlanIds, ~plans[p].broken, FailBatch(p), UNCHANGED <<plans, defined>>
    PROVE  TableInv' /\ Kept /\ Dead(p)'
<1> DEFINE mine == {f \in plans[p].define : entry[f] = [st |-> "compiling", plan |-> p]}
<1>1. /\ plans' = plans /\ PlanIds' = PlanIds /\ \A q \in PlanIds : Queued(q)' = Queued(q)
      /\ entry' = [f \in Functions |-> IF f \in mine THEN Idle ELSE entry[f]]
      /\ failed' = failed \cup {<<p, f>> : f \in mine}
  BY DEF FailBatch, PlanIds, Queued
<1>2. \A q \in PlanIds : plans[q].define \subseteq Functions
  BY PlanParts DEF TypeOK, PlanSet
<1>3. \A f \in Functions : f \in mine <=> By(f, p)
  BY SMTT(20) DEF TypeOK, TableInv, By, Compiling
<1>4. mine \subseteq plans[p].define
  OBVIOUS
<1> HIDE DEF mine
<1>5. \A f \in Functions : /\ Ready(f)' <=> Ready(f)
                           /\ \A q \in PlanIds : By(f, q)' <=> By(f, q) /\ q # p
                           /\ Compiling(f)' => Compiling(f) /\ entry'[f] = entry[f]
  BY <1>1, <1>3 DEF Ready, By, Compiling, Idle
<1>6. Kept
  BY <1>1, <1>5 DEF Kept
<1>7. Dead(p)' /\ \A q \in PlanIds : Dead(q) => Dead(q)'
  BY <1>5 DEF Dead
<1>8. \A w \in failed' : w \in PlanIds \X Functions /\ w[2] \in plans[w[1]].define /\ Dead(w[1])' /\ ~plans[w[1]].broken
  <2> SUFFICES ASSUME NEW w \in failed' PROVE w \in PlanIds \X Functions /\ w[2] \in plans[w[1]].define /\ Dead(w[1])' /\ ~plans[w[1]].broken
    OBVIOUS
  <2>1. CASE w \in failed
    BY <1>7, <2>1 DEF TableInv
  <2>2. CASE w \notin failed
    <3>1. PICK f \in mine : w = <<p, f>>  BY <1>1, <2>2
    <3> QED  BY <1>2, <1>4, <1>7, <3>1
  <2> QED  BY <2>1, <2>2
<1>9. \A q \in PlanIds : \A f \in plans[q].define : By(f, q)' \/ Ready(f)' \/ <<q, f>> \in failed'
  BY <1>1, <1>2, <1>3, <1>5 DEF TableInv
<1>10. \A q \in PlanIds : ~plans[q].broken =>
          \A f \in plans[q].define : \A g \in Calls[f] : g \in plans[q].define \cup plans[q].elsewhere \/ Ready(g)'
  BY <1>2, <1>5, GraphAssumption DEF TableInv
<1>11. \A q \in PlanIds : Queued(q)' \subseteq plans[q].define /\ (plans[q].attached => ~plans[q].broken)
  BY <1>1 DEF TableInv
<1>12. failed \subseteq failed'
  BY <1>1
<1>13. TableInv'
  BY <1>1, <1>5, <1>8, <1>9, <1>10, <1>11, <1>12, TableInvKept
<1> QED  BY <1>6, <1>7, <1>13

\* A step that changes the queue of one plan, or makes it visible.
LEMMA QueueTable ==
    ASSUME TypeOK, TableInv, UNCHANGED <<entry, failed, defined>>,
           NEW p \in PlanIds, NEW r, plans' = [plans EXCEPT ![p] = r],
           r.define = plans[p].define, r.elsewhere = plans[p].elsewhere, r.broken = plans[p].broken,
           r \in PlanSet, Elements(r.queue) \subseteq plans[p].define,
           plans[p].attached => r.attached /\ Elements(r.queue) \subseteq Queued(p),
           r.attached => ~plans[p].broken,
           r.attached => plans[p].attached \/ bg'.pc = "collect"
    PROVE  /\ TableInv' /\ Kept
           /\ plans' \in Seq(PlanSet) /\ PlanIds' = PlanIds
           /\ plans'[p] = r /\ Queued(p)' = Elements(r.queue)
           /\ \A q \in PlanIds \ {p} : plans'[q] = plans[q] /\ Queued(q)' = Queued(q)
<1>1. plans \in Seq(PlanSet) /\ p \in 1..Len(plans)
  BY DEF TypeOK, PlanSet, PlanIds
<1>2. plans' \in Seq(PlanSet) /\ Len(plans') = Len(plans) /\ plans'[p] = r /\ \A q \in 1..Len(plans) : q # p => plans'[q] = plans[q]
  BY <1>1, SMTT(20)
<1>3. /\ plans' \in Seq(PlanSet) /\ PlanIds' = PlanIds
      /\ plans'[p] = r /\ Queued(p)' = Elements(r.queue)
      /\ \A q \in PlanIds \ {p} : plans'[q] = plans[q] /\ Queued(q)' = Queued(q)
  BY <1>1, <1>2, SMTT(20) DEF PlanIds, Queued, Elements
<1>4. \A f \in Functions : /\ Ready(f)' <=> Ready(f)
                           /\ \A q \in PlanIds : By(f, q)' <=> By(f, q)
                           /\ Compiling(f)' <=> Compiling(f)
  BY DEF Ready, By, Compiling
<1>5. \A q \in PlanIds : Dead(q) => Dead(q)'
  BY <1>4 DEF Dead
<1>6. \A q \in PlanIds : /\ plans'[q].define = plans[q].define /\ plans'[q].elsewhere = plans[q].elsewhere
                         /\ plans'[q].broken = plans[q].broken
                         /\ Queued(q)' \subseteq plans[q].define
                         /\ plans'[q].attached => ~plans[q].broken
                         /\ plans[q].attached => plans'[q].attached /\ Queued(q)' \subseteq Queued(q)
                         /\ plans'[q].attached => plans[q].attached \/ bg'.pc = "collect"
  BY <1>3, SMTT(20) DEF TableInv
<1>7. Kept
  BY <1>3, <1>4, <1>6 DEF Kept
<1>8. \A q \in PlanIds : plans[q].define \subseteq Functions
  BY <1>1, PlanParts
<1>9. \A q \in PlanIds : ~plans[q].broken =>
          \A f \in plans[q].define : \A g \in Calls[f] : g \in plans[q].define \cup plans[q].elsewhere \/ Ready(g)'
  BY <1>4, <1>8, GraphAssumption DEF TableInv
<1>10. \A q \in PlanIds : \A f \in plans[q].define : By(f, q)' \/ Ready(f)' \/ <<q, f>> \in failed
  BY <1>4, <1>8 DEF TableInv
<1>11. \A w \in failed : w \in PlanIds \X Functions /\ w[2] \in plans[w[1]].define /\ Dead(w[1])' /\ ~plans[w[1]].broken
  <2>1. \A w \in failed : w[1] \in PlanIds
    BY SMTT(20) DEF TableInv
  <2> QED  BY <1>5, <2>1 DEF TableInv
<1>12. TableInv'
  BY <1>3, <1>4, <1>6, <1>9, <1>10, <1>11, TableInvKept
<1> QED  BY <1>3, <1>7, <1>12

--------------------------------------------------------------------------------
(* Types.                                                                   *)

\* The table's part of the type invariant.
TableTypes ==
    /\ entry \in [Functions -> [st : {"declared", "compiling", "ready"}, plan : {0} \cup PlanIds]]
    /\ plans \in Seq(PlanSet)
    /\ open \cup failed \subseteq PlanIds \X Functions /\ defined \subseteq Functions

\* A reservation adds a plan.
LEMMA NewPlanTypes ==
    ASSUME TableTypes, NEW define \in SUBSET Functions, NEW r \in PlanSet,
           plans' = Append(plans, r), UNCHANGED <<failed, defined>>,
           entry' = [f \in Functions |-> IF f \in define THEN [st |-> "compiling", plan |-> Len(plans) + 1] ELSE entry[f]],
           open' = open \cup {<<Len(plans) + 1, f>> : f \in define}
    PROVE  TableTypes' /\ PlanIds \subseteq PlanIds' /\ Len(plans) + 1 \in PlanIds'
<1>1. plans' \in Seq(PlanSet) /\ PlanIds' = PlanIds \cup {Len(plans) + 1} /\ Len(plans) \in Nat
  BY AppendPlan DEF TableTypes
<1>2. PICK n : n = Len(plans) + 1 OBVIOUS
<1>3. PlanIds' = PlanIds \cup {n}  BY <1>1, <1>2
<1>4. entry' \in [Functions -> [st : {"declared", "compiling", "ready"}, plan : {0} \cup PlanIds']]
  <2> SUFFICES ASSUME NEW f \in Functions
               PROVE (IF f \in define THEN [st |-> "compiling", plan |-> n] ELSE entry[f])
                        \in [st : {"declared", "compiling", "ready"}, plan : {0} \cup PlanIds']
    BY <1>2
  <2> QED  BY <1>3 DEF TableTypes
<1>5. open' \cup failed' \subseteq PlanIds' \X Functions
  BY <1>2, <1>3, SMTT(20) DEF TableTypes
<1> QED  BY <1>1, <1>4, <1>5 DEF TableTypes

\* Both reservations keep the types.
LEMMA ReserveTypes ==
    ASSUME TableTypes, NEW root, NEW batch \in SUBSET Functions, UNCHANGED <<failed, defined>>,
           Reserve(batch) \/ ReserveBreak(root, batch)
    PROVE  TableTypes' /\ PlanIds \subseteq PlanIds' /\ Len(plans) + 1 \in PlanIds'
<1>1. CASE Reserve(batch)
  <2> DEFINE define == {f \in batch : NeedsCompile(f)}
             r == [define |-> define, elsewhere |-> {f \in batch : Compiling(f)}, broken |-> FALSE, attached |-> FALSE, queue |-> <<>>]
  <2>1. define \in SUBSET Functions /\ r \in PlanSet
    BY SMTT(20) DEF PlanSet
  <2>2. /\ plans' = Append(plans, r)
        /\ entry' = [f \in Functions |-> IF f \in define THEN [st |-> "compiling", plan |-> Len(plans) + 1] ELSE entry[f]]
        /\ open' = open \cup {<<Len(plans) + 1, f>> : f \in define}
    BY <1>1 DEF Reserve
  <2> HIDE DEF define, r
  <2> QED  BY <2>1, <2>2, NewPlanTypes
<1>2. CASE ReserveBreak(root, batch)
  <2>1. PICK done \in SUBSET {f \in batch : NeedsCompile(f)} :
           /\ plans' = Append(plans, [define |-> done, elsewhere |-> {}, broken |-> TRUE, attached |-> FALSE, queue |-> <<>>])
           /\ entry' = [f \in Functions |-> IF f \in done THEN [st |-> "compiling", plan |-> Len(plans) + 1] ELSE entry[f]]
           /\ open' = open \cup {<<Len(plans) + 1, f>> : f \in done}
    BY <1>2 DEF ReserveBreak
  <2> DEFINE r == [define |-> done, elsewhere |-> {}, broken |-> TRUE, attached |-> FALSE, queue |-> <<>>]
  <2>2. done \in SUBSET Functions /\ r \in PlanSet
    BY SMTT(20) DEF PlanSet
  <2>3. plans' = Append(plans, r)  BY <2>1
  <2> HIDE DEF r
  <2> QED  BY <2>1, <2>2, <2>3, NewPlanTypes
<1> QED  BY <1>1, <1>2

\* A commit and a failure keep the types.
LEMMA TableOpTypes ==
    ASSUME TableTypes, UNCHANGED plans, defined' \subseteq Functions,
           (\E group : MarkReady(group)) \/ (\E p \in PlanIds : FailBatch(p))
    PROVE  TableTypes' /\ PlanIds' = PlanIds
<1>1. PlanIds' = PlanIds  BY DEF PlanIds
<1>2. ASSUME NEW group, MarkReady(group) PROVE TableTypes'
  BY <1>1, <1>2 DEF MarkReady, TableTypes
<1>3. ASSUME NEW p \in PlanIds, FailBatch(p) PROVE TableTypes'
  <2> DEFINE mine == {f \in plans[p].define : entry[f] = [st |-> "compiling", plan |-> p]}
  <2>1. /\ entry' = [f \in Functions |-> IF f \in mine THEN Idle ELSE entry[f]]
        /\ open' = open \ {<<p, f>> : f \in mine}
        /\ failed' = failed \cup {<<p, f>> : f \in mine}
    BY <1>3 DEF FailBatch
  <2>2. mine \subseteq Functions
    BY PlanParts DEF TableTypes
  <2> HIDE DEF mine
  <2> QED  BY <1>1, <2>1, <2>2, SMTT(20) DEF TableTypes, Idle
<1> QED  BY <1>1, <1>2, <1>3

\* Threads keep their types while plans are added.
LEMMA TypesGrow ==
    ASSUME PlanIds \subseteq PlanIds'
    PROVE  BgSet \subseteq BgSet' /\ CallerSet \subseteq CallerSet'
BY SMTT(20) DEF BgSet, CallerSet

\* So does what a commit adds to the module.
LEMMA CommitTypes ==
    ASSUME TypeOK, NEW group \in SUBSET Functions, Commit(group) \/ CommitError(group)
    PROVE  TableTypes' /\ PlanIds' = PlanIds /\ faults' \in 0..MaxFaults
<1>1. defined' \subseteq Functions /\ plans' = plans /\ (\E g : MarkReady(g)) /\ faults' \in 0..MaxFaults
  <2>1. CASE Commit(group)
    BY <2>1 DEF Commit, TypeOK
  <2>2. CASE CommitError(group)
    <3>1. PICK done \in SUBSET (group \ defined), published \in SUBSET group :
             /\ group \cap defined = {} => faults < MaxFaults
             /\ faults' = IF group \cap defined = {} THEN faults + 1 ELSE faults
             /\ defined' = defined \cup done
             /\ MarkReady(published) /\ UNCHANGED plans
      BY <2>2 DEF CommitError
    <3>2. faults' \in 0..MaxFaults
      <4>1. faults \in 0..MaxFaults /\ MaxFaults \in Nat  BY GraphAssumption DEF TypeOK
      <4> QED  BY <3>1, <4>1, SMTT(20)
    <3> QED  BY <3>1, <3>2 DEF TypeOK
  <2> QED  BY <2>1, <2>2
<1> QED  BY <1>1, TableOpTypes DEF TypeOK, TableTypes

\* A fault stays within the bound.
LEMMA FaultTypes == ASSUME TypeOK, Fault PROVE faults' \in 0..MaxFaults
<1>1. faults \in 0..MaxFaults /\ MaxFaults \in Nat  BY GraphAssumption DEF TypeOK
<1> QED  BY <1>1, SMTT(20) DEF Fault

\* A step that leaves the table alone.
LEMMA SameTable == ASSUME UNCHANGED table PROVE PlanIds' = PlanIds /\ (TableTypes => TableTypes')
<1>1. PlanIds' = PlanIds  BY DEF table, PlanIds
<1> QED  BY <1>1 DEF table, TableTypes

\* The steps of the background thread keep the types.
LEMMA BgTypes == ASSUME TypeOK, BgInv, BgNext PROVE TypeOK'
<1>0. TableTypes /\ bg \in BgSet /\ Module \in SUBSET Functions
  BY ModuleInside DEF TypeOK, TableTypes
<1> DEFINE Rest == /\ gil' \in Callers \cup {NoOne} /\ stop' \in BOOLEAN /\ stranded' \in BOOLEAN
                   /\ worker' \in [Workers -> [pc : {"loop", "pop", "compile", "exit"}, f : Functions]]
                   /\ chan' \in Seq([f : Functions, ok : BOOLEAN])
<1>a. ASSUME TableTypes', faults' \in 0..MaxFaults, bg' \in BgSet', PlanIds \subseteq PlanIds', caller' = caller, Rest
      PROVE  TypeOK'
  <2>1. CallerSet \subseteq CallerSet'
    BY <1>a, TypesGrow
  <2>2. caller' \in [Callers -> CallerSet']
    BY <1>a, <2>1 DEF TypeOK
  <2> QED  BY <1>a, <2>2 DEF TypeOK, TableTypes
<1>b. ASSUME UNCHANGED <<gil, pool, stranded>> PROVE Rest
  BY <1>b DEF TypeOK, pool
<1> HIDE DEF Rest
<1>c. ASSUME PlanIds' = PlanIds PROVE BgSet' = BgSet
  BY <1>c DEF BgSet
<1>1. CASE BgScan
  <2>1. ASSUME NEW S \in SUBSET (1..Len(Order)), S # {} PROVE (CHOOSE i \in S : \A j \in S : i <= j) \in 1..Len(Order)
    <3>1. \E i \in S : \A j \in S : i <= j
      <4>1. S \in SUBSET Nat  BY <2>1, SMTT(20)
      <4> QED  BY <2>1, <4>1, LeastNat
    <3> QED  BY <3>1
  <2>2. bg' \in BgSet
    <3> DEFINE needed == {i \in 1..Len(Order) : NeedsCompile(Order[i])}
    <3>1. CASE needed = {}
      BY <1>0, <1>1, <3>1 DEF BgScan, BgSet
    <3>2. CASE needed # {}
      <4>1. (CHOOSE i \in needed : \A j \in needed : i <= j) \in 1..Len(Order)
        BY <2>1, <3>2
      <4>2. Order[CHOOSE i \in needed : \A j \in needed : i <= j] \in Functions
        BY <4>1, GraphAssumption, SMTT(20)
      <4>3. bg' = [bg EXCEPT !.pc = "reserve", !.root = Order[CHOOSE i \in needed : \A j \in needed : i <= j]]
        BY <1>1, <3>2 DEF BgScan
      <4> HIDE DEF needed
      <4> QED  BY <1>0, <4>2, <4>3 DEF BgSet
    <3> QED  BY <3>1, <3>2
  <2>3. UNCHANGED table /\ UNCHANGED <<gil, pool, stranded>> /\ faults' = faults /\ caller' = caller
    BY <1>1 DEF BgScan
  <2> QED  BY <1>0, <1>a, <1>b, <1>c, <2>2, <2>3, SameTable DEF TypeOK
<1>2. CASE BgReserve
  <2>1. UNCHANGED <<gil, pool, stranded>> /\ caller' = caller /\ UNCHANGED <<failed, defined>>
    BY <1>2 DEF BgReserve
  <2>2. CASE UNCHANGED <<entry, plans, open, faults>>
    <3>1. UNCHANGED table  BY <2>1, <2>2 DEF table
    <3>2. bg' = [bg EXCEPT !.pc = "scan"] \/ (Compiling(bg.root) /\ bg' = [bg EXCEPT !.pc = "join", !.plan = entry[bg.root].plan])
            \/ (bg' = [bg EXCEPT !.pc = "plan", !.plan = Len(plans) + 1] /\ Len(plans') # Len(plans))
            \/ bg' = [bg EXCEPT !.pc = "done"]
      <4>1. ASSUME Reserve(Module) PROVE Len(plans') # Len(plans)
        BY <1>0, <4>1, SMTT(20) DEF Reserve, TableTypes
      <4> QED  BY <1>2, <4>1 DEF BgReserve
    <3>3. bg.root \in Functions  BY <1>0 DEF BgSet
    <3>4. entry[bg.root].plan \in {0} \cup PlanIds  BY <1>0, <3>3 DEF TableTypes
    <3>5. bg' \in BgSet
      BY <1>0, <2>2, <3>2, <3>4 DEF BgSet
    <3> QED  BY <1>0, <1>a, <1>b, <1>c, <2>1, <2>2, <3>1, <3>5, SameTable DEF TypeOK
  <2>3. CASE Reserve(Module) /\ bg' = [bg EXCEPT !.pc = "plan", !.plan = Len(plans) + 1] /\ UNCHANGED faults
    <3>1. TableTypes' /\ PlanIds \subseteq PlanIds' /\ Len(plans) + 1 \in PlanIds'
      BY <1>0, <2>1, <2>3, ReserveTypes
    <3>2. bg \in BgSet'  BY <1>0, <3>1, TypesGrow
    <3>3. bg' \in BgSet'
      BY <2>3, <3>1, <3>2 DEF BgSet
    <3> QED  BY <1>a, <1>b, <2>1, <2>3, <3>1, <3>3 DEF TypeOK
  <2>4. CASE ReserveBreak(bg.root, Module) /\ bg' = [bg EXCEPT !.pc = "done"]
    <3>1. TableTypes' /\ PlanIds \subseteq PlanIds'
      BY <1>0, <2>1, <2>4, ReserveTypes
    <3>2. bg \in BgSet'  BY <1>0, <3>1, TypesGrow
    <3>3. bg' \in BgSet'
      BY <2>4, <3>2 DEF BgSet
    <3>4. faults' \in 0..MaxFaults
      BY <2>4, FaultTypes DEF ReserveBreak, Fault
    <3> QED  BY <1>a, <1>b, <2>1, <3>1, <3>3, <3>4
  <2> QED  BY <1>2, <2>2, <2>3, <2>4 DEF BgReserve
<1>3. CASE BgJoin
  <2>1. UNCHANGED table /\ UNCHANGED <<gil, pool, stranded>> /\ faults' = faults /\ caller' = caller
    BY <1>3 DEF BgJoin
  <2>2. bg' \in BgSet  BY <1>0, <1>3 DEF BgJoin, BgSet
  <2> QED  BY <1>0, <1>a, <1>b, <1>c, <2>1, <2>2, SameTable DEF TypeOK
<1>4. CASE BgPlan
  <2>1. UNCHANGED table /\ UNCHANGED <<gil, pool, stranded>> /\ caller' = caller /\ faults' \in 0..MaxFaults
    BY <1>4, FaultTypes DEF BgPlan, TypeOK
  <2>2. bg' \in BgSet  BY <1>0, <1>4 DEF BgPlan, BgSet
  <2> QED  BY <1>0, <1>a, <1>b, <1>c, <2>1, <2>2, SameTable
<1>5. CASE BgAttach
  <2>1. bg.plan \in PlanIds /\ plans[bg.plan] \in PlanSet
    BY <1>0, <1>5, PlanParts DEF BgInv, Active, BgAttach, TableTypes
  <2> DEFINE define == plans[bg.plan].define
  <2>2. define \subseteq Functions /\ Keep(Order, define) \in Seq(Functions)
    BY <2>1, KeepFacts, GraphAssumption DEF PlanSet
  <2>3. [plans[bg.plan] EXCEPT !.attached = TRUE, !.queue = Keep(Order, define)] \in PlanSet
    BY <2>1, <2>2 DEF PlanSet
  <2>4. plans' = [plans EXCEPT ![bg.plan] = [plans[bg.plan] EXCEPT !.attached = TRUE, !.queue = Keep(Order, define)]]
    BY <1>5 DEF BgAttach
  <2>5. plans' \in Seq(PlanSet) /\ PlanIds' = PlanIds
    <3>1. plans \in Seq(PlanSet) /\ bg.plan \in 1..Len(plans)  BY <1>0, <2>1 DEF TableTypes, PlanIds
    <3> HIDE DEF define
    <3>2. plans' \in Seq(PlanSet) /\ Len(plans') = Len(plans)  BY <2>3, <2>4, <3>1, SMTT(20)
    <3> QED  BY <3>2 DEF PlanIds
  <2>6. TableTypes'
    BY <1>0, <1>5, <2>5 DEF TableTypes, BgAttach
  <2>7. bg' \in BgSet
    BY <1>0, <1>5, <2>2 DEF BgAttach, BgSet
  <2>8. Rest
    <3>1. worker' \in [Workers -> [pc : {"loop", "pop", "compile", "exit"}, f : Functions]]
      BY <1>5 DEF BgAttach, TypeOK
    <3>2. gil' = gil /\ stop' = FALSE /\ stranded' = stranded /\ chan' = <<>>
      BY <1>5 DEF BgAttach
    <3>3. chan' \in Seq([f : Functions, ok : BOOLEAN])
      BY <3>2, SMTT(20)
    <3> QED  BY <3>1, <3>2, <3>3 DEF Rest, TypeOK
  <2> QED  BY <1>5, <1>a, <1>c, <2>5, <2>6, <2>7, <2>8 DEF BgAttach, TypeOK
<1>6. CASE BgReceive
  <2>1. UNCHANGED table /\ UNCHANGED <<gil, stranded, worker>> /\ faults' = faults /\ caller' = caller
    BY <1>6 DEF BgReceive
  <2>2. chan # <<>> /\ chan \in Seq([f : Functions, ok : BOOLEAN]) /\ chan' = Tail(chan)
    BY <1>6 DEF BgReceive, TypeOK
  <2>3. Head(chan).f \in Functions /\ chan' \in Seq([f : Functions, ok : BOOLEAN])
    <3> DEFINE Messages == [f : Functions, ok : BOOLEAN]
    <3>1. \A m \in Messages : m.f \in Functions  OBVIOUS
    <3> HIDE DEF Messages
    <3>2. chan \in Seq(Messages)  BY <2>2 DEF Messages
    <3>3. Head(chan) \in Messages /\ Tail(chan) \in Seq(Messages)
      BY <2>2, <3>2, SMTT(20)
    <3> QED  BY <2>2, <3>1, <3>3 DEF Messages
  <2>4. stop' \in BOOLEAN
    BY <1>6 DEF BgReceive, TypeOK
  <2>5. \A S, R, D : CommitReady(S, R, D) \subseteq S
    BY DEF CommitReady
  <2>6. bg' \in BgSet
    <3> DEFINE remaining == {g \in bg.remaining : ~Ready(g)}
               pending == bg.pending \cup {Head(chan).f}
               group == CommitReady(pending, remaining, plans[bg.plan].define)
    <3>1. remaining \subseteq Functions /\ pending \subseteq Functions
      BY <1>0, <2>3 DEF BgSet
    <3>2. group \subseteq Functions
      BY <2>5, <3>1
    <3>3. \/ bg' = [bg EXCEPT !.error = TRUE] \/ bg' = bg
          \/ bg' = [bg EXCEPT !.pending = pending \ group, !.remaining = remaining, !.group = group,
                              !.pc = IF group = {} THEN "collect" ELSE "commit"]
      BY <1>6 DEF BgReceive
    <3> HIDE DEF remaining, pending, group
    <3>4. [bg EXCEPT !.error = TRUE] \in BgSet
      BY <1>0 DEF BgSet
    <3>5. [bg EXCEPT !.pending = pending \ group, !.remaining = remaining, !.group = group,
                     !.pc = IF group = {} THEN "collect" ELSE "commit"] \in BgSet
      BY <1>0, <3>1, <3>2 DEF BgSet
    <3> QED  BY <1>0, <3>3, <3>4, <3>5
  <2>7. Rest
    BY <2>1, <2>3, <2>4 DEF Rest, TypeOK
  <2> QED  BY <1>0, <1>a, <1>c, <2>1, <2>6, <2>7, SameTable DEF TypeOK
<1>7. CASE BgCommit
  <2>1. bg.group \in SUBSET Functions /\ (Commit(bg.group) \/ CommitError(bg.group))
    BY <1>0, <1>7 DEF BgCommit, BgSet
  <2>2. TableTypes' /\ PlanIds' = PlanIds /\ faults' \in 0..MaxFaults
    BY <2>1, CommitTypes
  <2>3. bg' \in BgSet
    <3>1. [bg EXCEPT !.pc = "collect", !.remaining = @ \ bg.group, !.group = {}] \in BgSet
      BY <1>0 DEF BgSet
    <3>2. [bg EXCEPT !.pc = "collect", !.error = TRUE, !.group = {}] \in BgSet
      BY <1>0 DEF BgSet
    <3> QED  BY <1>7, <3>1, <3>2 DEF BgCommit
  <2>4. Rest
    BY <1>7 DEF BgCommit, Rest, TypeOK
  <2> QED  BY <1>7, <1>a, <1>c, <2>2, <2>3, <2>4 DEF BgCommit
<1>8. CASE BgDrain
  <2>1. UNCHANGED table /\ UNCHANGED <<gil, pool>> /\ faults' = faults /\ caller' = caller /\ stranded' \in BOOLEAN
    BY <1>8 DEF BgDrain, TypeOK
  <2>2. \A S, R, D : CommitReady(S, R, D) \subseteq S
    BY DEF CommitReady
  <2>3. bg' \in BgSet
    <3> DEFINE group == CommitReady(bg.pending, {g \in bg.remaining : ~Ready(g)}, plans[bg.plan].define)
    <3>1. group \subseteq Functions
      BY <1>0, <2>2 DEF BgSet
    <3>2. \/ bg' = [bg EXCEPT !.pc = "fail"] \/ bg' = [bg EXCEPT !.pc = "scan"]
          \/ bg' = [bg EXCEPT !.pc = "last", !.pending = @ \ group, !.group = group]
      BY <1>8 DEF BgDrain
    <3> HIDE DEF group
    <3>3. [bg EXCEPT !.pc = "fail"] \in BgSet /\ [bg EXCEPT !.pc = "scan"] \in BgSet
      BY <1>0 DEF BgSet
    <3>4. [bg EXCEPT !.pending = @ \ group, !.pc = "last", !.group = group] \in BgSet
      BY <1>0, <3>1 DEF BgSet
    <3> QED  BY <3>2, <3>3, <3>4
  <2>4. Rest
    BY <2>1 DEF Rest, TypeOK, pool
  <2> QED  BY <1>0, <1>a, <1>c, <2>1, <2>3, <2>4, SameTable DEF TypeOK
<1>9. CASE BgLastCommit
  <2>1. bg.group \in SUBSET Functions /\ (Commit(bg.group) \/ CommitError(bg.group))
    BY <1>0, <1>9 DEF BgLastCommit, BgSet
  <2>2. TableTypes' /\ PlanIds' = PlanIds /\ faults' \in 0..MaxFaults
    BY <2>1, CommitTypes
  <2>3. bg' \in BgSet
    BY <1>0, <1>9 DEF BgLastCommit, BgSet
  <2>4. Rest
    BY <1>9 DEF BgLastCommit, Rest, TypeOK, pool
  <2> QED  BY <1>9, <1>a, <1>c, <2>2, <2>3, <2>4 DEF BgLastCommit
<1>10. CASE BgFail
  <2>1. bg.plan \in PlanIds /\ FailBatch(bg.plan) /\ UNCHANGED <<plans, defined>>
    BY <1>10 DEF BgFail, BgInv, Active
  <2>2. TableTypes' /\ PlanIds' = PlanIds
    BY <1>0, <2>1, TableOpTypes DEF TableTypes
  <2>3. bg' \in BgSet
    BY <1>0, <1>10 DEF BgFail, BgSet
  <2> QED  BY <1>10, <1>a, <1>b, <1>c, <2>2, <2>3 DEF BgFail, TypeOK
<1> QED  BY <1>1, <1>2, <1>3, <1>4, <1>5, <1>6, <1>7, <1>8, <1>9, <1>10 DEF BgNext

\* The steps of the workers keep the types.
LEMMA WorkerTypes == ASSUME TypeOK, BgInv, NEW w \in Workers, WorkerNext(w) PROVE TypeOK'
<1> DEFINE States == [pc : {"loop", "pop", "compile", "exit"}, f : Functions]
           Messages == [f : Functions, ok : BOOLEAN]
<1>0. worker \in [Workers -> States] /\ worker[w] \in States /\ worker[w].f \in Functions /\ chan \in Seq(Messages) /\ TableTypes
  BY DEF TypeOK, TableTypes
<1>a. ASSUME TableTypes', PlanIds' = PlanIds, faults' \in 0..MaxFaults, worker' \in [Workers -> States], chan' \in Seq(Messages),
             stop' \in BOOLEAN, UNCHANGED <<gil, bg, caller, stranded>>
      PROVE  TypeOK'
  <2>1. BgSet' = BgSet /\ CallerSet' = CallerSet
    BY <1>a DEF BgSet, CallerSet
  <2> QED  BY <1>a, <2>1 DEF TypeOK, TableTypes
<1>b. \A x \in {"loop", "pop", "compile", "exit"} : [worker EXCEPT ![w].pc = x] \in [Workers -> States]
  BY <1>0
<1>1. CASE WorkerCheck(w)
  <2>1. worker' \in [Workers -> States]
    BY <1>1, <1>b DEF WorkerCheck
  <2>2. UNCHANGED table /\ UNCHANGED <<gil, bg, caller, stranded, stop, chan, faults>>
    BY <1>1 DEF WorkerCheck
  <2> HIDE DEF States, Messages
  <2> QED  BY <1>0, <1>a, <2>1, <2>2, SameTable DEF TypeOK
<1>2. CASE WorkerPop(w)
  <2>0. bg.plan \in PlanIds /\ plans[bg.plan] \in PlanSet /\ plans[bg.plan].queue \in Seq(Functions)
    <3>1. bg.pc \in {"collect", "commit"}
      BY <1>2 DEF WorkerPop, BgInv
    <3>2. bg.plan \in PlanIds
      BY <3>1 DEF BgInv, Active, Running
    <3> QED  BY <1>0, <3>2, PlanParts DEF TableTypes
  <2> DEFINE q == plans[bg.plan].queue
  <2>1. CASE q = <<>> /\ worker' = [worker EXCEPT ![w].pc = "exit"] /\ UNCHANGED plans
    <3>1. worker' \in [Workers -> States]
      BY <1>b, <2>1
    <3>2. UNCHANGED table /\ UNCHANGED <<gil, bg, caller, stranded, stop, chan, faults>>
      BY <1>2, <2>1 DEF WorkerPop, table
    <3> HIDE DEF States, Messages
    <3> QED  BY <1>0, <1>a, <3>1, <3>2, SameTable DEF TypeOK
  <2>2. CASE q # <<>> /\ worker' = [worker EXCEPT ![w] = [pc |-> "compile", f |-> Head(q)]]
              /\ plans' = [plans EXCEPT ![bg.plan].queue = Tail(q)]
    <3>1. Head(q) \in Functions /\ Tail(q) \in Seq(Functions)
      BY <2>0, <2>2, SMTT(20)
    <3>2. worker' \in [Workers -> States]
      BY <1>0, <2>2, <3>1
    <3>3. [plans[bg.plan] EXCEPT !.queue = Tail(q)] \in PlanSet
      BY <2>0, <3>1 DEF PlanSet
    <3>4. plans' \in Seq(PlanSet) /\ PlanIds' = PlanIds
      <4>1. plans \in Seq(PlanSet) /\ bg.plan \in 1..Len(plans)  BY <1>0, <2>0 DEF TableTypes, PlanIds
      <4> HIDE DEF q
      <4>2. plans' = [plans EXCEPT ![bg.plan] = [plans[bg.plan] EXCEPT !.queue = Tail(q)]]  BY <2>2
      <4>3. plans' \in Seq(PlanSet) /\ Len(plans') = Len(plans)  BY <3>3, <4>1, <4>2, SMTT(20)
      <4> QED  BY <4>3 DEF PlanIds
    <3>5. TableTypes'
      BY <1>0, <1>2, <3>4 DEF TableTypes, WorkerPop
    <3>6. UNCHANGED <<gil, bg, caller, stranded, stop, chan, faults>>
      BY <1>2 DEF WorkerPop
    <3> HIDE DEF States, Messages
    <3> QED  BY <1>0, <1>a, <3>2, <3>4, <3>5, <3>6 DEF TypeOK
  <2> QED  BY <1>2, <2>1, <2>2 DEF WorkerPop
<1>3. CASE WorkerCompile(w)
  <2>1. worker' \in [Workers -> States]
    BY <1>3, <1>b DEF WorkerCompile
  <2>2. \A b \in BOOLEAN : Append(chan, [f |-> worker[w].f, ok |-> b]) \in Seq(Messages)
    <3>1. \A b \in BOOLEAN : [f |-> worker[w].f, ok |-> b] \in Messages  BY <1>0
    <3> HIDE DEF Messages
    <3> QED  BY <1>0, <3>1, SMTT(20)
  <2>3. chan' \in Seq(Messages)
    BY <1>3, <2>2 DEF WorkerCompile
  <2>4. UNCHANGED table /\ UNCHANGED <<gil, bg, caller, stranded>> /\ stop' \in BOOLEAN /\ faults' \in 0..MaxFaults
    BY <1>3, FaultTypes DEF WorkerCompile, TypeOK
  <2> HIDE DEF States, Messages
  <2> QED  BY <1>0, <1>a, <2>1, <2>3, <2>4, SameTable
<1> QED  BY <1>1, <1>2, <1>3 DEF WorkerNext

\* The set a caller takes from, and the waiters it collects.
LEMMA TakenTypes ==
    ASSUME TypeOK, NEW c \in Callers, caller[c].work \in PlanIds
    PROVE  /\ Wanted(c) \subseteq Functions
           /\ {<<entry[f].plan, f>> : f \in {g \in Wanted(c) : Compiling(g)}} \subseteq ({0} \cup PlanIds) \X Functions
<1>1. plans[caller[c].work].define \subseteq Functions
  BY PlanParts DEF TypeOK
<1>2. Wanted(c) \subseteq Functions
  BY <1>1, ClosureInside DEF Wanted
<1> QED  BY <1>2, SMTT(20) DEF TypeOK

\* A caller's queue is replaced by a sequence of functions.
LEMMA QueueTypes ==
    ASSUME TypeOK, NEW p \in PlanIds, NEW q \in Seq(Functions), plans' = [plans EXCEPT ![p].queue = q],
           UNCHANGED <<entry, open, failed, defined>>
    PROVE  TableTypes' /\ PlanIds' = PlanIds
<1>1. plans \in Seq(PlanSet) /\ p \in 1..Len(plans) /\ plans[p] \in PlanSet
  BY PlanParts DEF TypeOK, PlanIds
<1>2. PICK r : r = [plans[p] EXCEPT !.queue = q]  OBVIOUS
<1>3. r \in PlanSet
  BY <1>1, <1>2 DEF PlanSet
<1>4. plans' = [plans EXCEPT ![p] = r]
  BY <1>2
<1>5. plans' \in Seq(PlanSet) /\ Len(plans') = Len(plans)
  BY <1>1, <1>3, <1>4, SMTT(20)
<1>6. PlanIds' = PlanIds
  BY <1>5 DEF PlanIds
<1> QED  BY <1>5, <1>6 DEF TableTypes, TypeOK

\* The steps of a caller keep the types.
LEMMA CallerTypes == ASSUME TypeOK, TableInv, NEW c \in Callers, CallerInv(c), CallerNext(c) PROVE TypeOK'
<1> DEFINE me == caller[c]
<1>0. TableTypes /\ caller \in [Callers -> CallerSet] /\ me \in CallerSet /\ gil \in Callers \cup {NoOne}
  BY DEF TypeOK, TableTypes
<1>a. ASSUME TableTypes', PlanIds \subseteq PlanIds', faults' \in 0..MaxFaults, gil' \in Callers \cup {NoOne},
             caller' \in [Callers -> CallerSet'], UNCHANGED <<bg, pool, stranded>>
      PROVE  TypeOK'
  <2>1. BgSet \subseteq BgSet'
    BY <1>a, TypesGrow
  <2>2. bg' \in BgSet'
    BY <1>a, <2>1 DEF TypeOK
  <2> QED  BY <1>a, <2>2 DEF TypeOK, TableTypes, pool
<1>b. ASSUME PlanIds \subseteq PlanIds', NEW r \in CallerSet', caller' = [caller EXCEPT ![c] = r] PROVE caller' \in [Callers -> CallerSet']
  <2>1. CallerSet \subseteq CallerSet'  BY <1>b, TypesGrow
  <2> QED  BY <1>0, <1>b, <2>1
<1>c. ASSUME PlanIds \subseteq PlanIds' PROVE me \in CallerSet'
  BY <1>0, <1>c, TypesGrow
<1>d. ASSUME PlanIds \subseteq PlanIds', NEW ok \in BOOLEAN, Return(c, ok) PROVE caller' \in [Callers -> CallerSet'] /\ gil' = NoOne
  <2> DEFINE r == [me EXCEPT !.pc = "done", !.ok = ok, !.claimed = {}, !.deps = {}]
  <2>1. r \in CallerSet'  BY <1>c, <1>d DEF CallerSet
  <2>2. caller' = [caller EXCEPT ![c] = r] /\ gil' = NoOne  BY <1>0, <1>d DEF Return
  <2> HIDE DEF r
  <2> QED  BY <1>b, <1>d, <2>1, <2>2
<1>e. ASSUME PlanIds \subseteq PlanIds', NEW pc \in {"try", "compile", "commit", "fail", "assist", "publish", "generate", "wait", "promote"}, Goto(c, pc)
      PROVE caller' \in [Callers -> CallerSet']
  <2> DEFINE r == [me EXCEPT !.pc = pc]
  <2>1. r \in CallerSet'  BY <1>c, <1>e DEF CallerSet
  <2>2. caller' = [caller EXCEPT ![c] = r]  BY <1>0, <1>e DEF Goto
  <2> HIDE DEF r
  <2> QED  BY <1>b, <1>e, <2>1, <2>2
<1>f. ASSUME UNCHANGED table PROVE TableTypes' /\ PlanIds \subseteq PlanIds' /\ PlanIds' = PlanIds
  BY <1>0, <1>f, SameTable
<1>1. CASE Enter(c)
  <2>1. UNCHANGED table /\ UNCHANGED <<faults, bg, pool, stranded>> /\ Goto(c, "try") /\ gil' = c
    BY <1>1 DEF Enter
  <2> QED  BY <1>a, <1>e, <1>f, <2>1 DEF TypeOK
<1>2. CASE Try(c)
  <2> DEFINE batch == Closure(Target[c], Functions)
  <2>0. batch \in SUBSET Functions /\ Target[c] \in Functions /\ UNCHANGED <<bg, pool, stranded, failed, defined>>
    BY <1>2, ClosureInside, GraphAssumption DEF Try
  <2>1. CASE Return(c, TRUE) /\ UNCHANGED <<entry, plans, open, faults>>
    <3>1. UNCHANGED table  BY <2>0, <2>1 DEF table
    <3> QED  BY <1>a, <1>d, <1>f, <2>0, <2>1, <3>1 DEF TypeOK
  <2>2. CASE caller' = [caller EXCEPT ![c].pc = "assist", ![c].plan = entry[Target[c]].plan] /\ UNCHANGED <<entry, plans, open, faults, gil>>
    <3>1. UNCHANGED table  BY <2>0, <2>2 DEF table
    <3> DEFINE r == [me EXCEPT !.pc = "assist", !.plan = entry[Target[c]].plan]
    <3>2. entry[Target[c]].plan \in {0} \cup PlanIds'  BY <1>0, <1>f, <2>0, <3>1 DEF TableTypes
    <3>3. r \in CallerSet'  BY <1>c, <1>f, <3>1, <3>2 DEF CallerSet
    <3>4. caller' = [caller EXCEPT ![c] = r]  BY <1>0, <2>2
    <3> HIDE DEF r
    <3> QED  BY <1>a, <1>b, <1>f, <2>0, <2>2, <3>1, <3>3, <3>4 DEF TypeOK
  <2>3. CASE Reserve(batch) /\ UNCHANGED <<faults, gil>> /\ caller' = [caller EXCEPT ![c].pc = "compile", ![c].work = Len(plans) + 1]
    <3>1. TableTypes' /\ PlanIds \subseteq PlanIds' /\ Len(plans) + 1 \in PlanIds'
      <4> HIDE DEF batch
      <4> QED  BY <1>0, <2>0, <2>3, ReserveTypes
    <3> DEFINE r == [me EXCEPT !.pc = "compile", !.work = Len(plans) + 1]
    <3>2. r \in CallerSet'  BY <1>c, <3>1 DEF CallerSet
    <3>3. caller' = [caller EXCEPT ![c] = r]  BY <1>0, <2>3
    <3> HIDE DEF r
    <3> QED  BY <1>a, <1>b, <2>0, <2>3, <3>1, <3>2, <3>3 DEF TypeOK
  <2>4. CASE ReserveBreak(Target[c], batch) /\ Return(c, FALSE)
    <3>1. TableTypes' /\ PlanIds \subseteq PlanIds'
      <4> HIDE DEF batch
      <4> QED  BY <1>0, <2>0, <2>4, ReserveTypes
    <3>2. faults' \in 0..MaxFaults
      BY <2>4, FaultTypes DEF ReserveBreak, Fault
    <3> QED  BY <1>a, <1>d, <2>0, <2>4, <3>1, <3>2
  <2> QED  BY <1>2, <2>1, <2>2, <2>3, <2>4 DEF Try
<1>3. CASE Compile(c) \/ Generate(c)
  <2>1. UNCHANGED table /\ UNCHANGED <<gil, bg, pool, stranded>> /\ faults' \in 0..MaxFaults
    BY <1>3, FaultTypes DEF Compile, Generate, TypeOK
  <2>2. Goto(c, "commit") \/ Goto(c, "fail") \/ Goto(c, "publish")
    BY <1>3 DEF Compile, Generate
  <2> QED  BY <1>0, <1>a, <1>e, <1>f, <2>1, <2>2
<1>4. CASE CommitBatch(c)
  <2>1. plans[caller[c].work].define \in SUBSET Functions
    BY <1>0, <1>4, PlanParts DEF CommitBatch, CallerInv, At, TableTypes
  <2>2. TableTypes' /\ PlanIds' = PlanIds /\ faults' \in 0..MaxFaults
    BY <1>4, <2>1, CommitTypes DEF CommitBatch
  <2>3. Return(c, TRUE) \/ (Goto(c, "fail") /\ UNCHANGED gil)
    BY <1>4 DEF CommitBatch
  <2>4. UNCHANGED <<bg, pool, stranded>>  BY <1>4 DEF CommitBatch
  <2> QED  BY <1>0, <1>a, <1>d, <1>e, <2>2, <2>3, <2>4
<1>5. CASE Fail(c)
  <2>1. caller[c].work \in PlanIds /\ FailBatch(caller[c].work) /\ UNCHANGED <<plans, defined>> /\ UNCHANGED <<faults, bg, pool, stranded>>
    BY <1>5 DEF Fail, CallerInv, At
  <2>2. TableTypes' /\ PlanIds' = PlanIds
    BY <1>0, <2>1, TableOpTypes DEF TableTypes
  <2>3. Return(c, FALSE)
    BY <1>5 DEF Fail
  <2> QED  BY <1>a, <1>d, <2>1, <2>2, <2>3 DEF TypeOK
<1>6. CASE Assist(c)
  <2>1. UNCHANGED table /\ UNCHANGED <<gil, faults, bg, pool, stranded>>
    BY <1>6 DEF Assist
  <2>2. CASE caller' = [caller EXCEPT ![c].pc = "take", ![c].work = entry[Target[c]].plan]
    <3> DEFINE r == [me EXCEPT !.pc = "take", !.work = entry[Target[c]].plan]
    <3>1. entry[Target[c]].plan \in {0} \cup PlanIds'  BY <1>0, <1>f, <2>1, GraphAssumption DEF TableTypes
    <3>2. r \in CallerSet'  BY <1>c, <1>f, <2>1, <3>1 DEF CallerSet
    <3>3. caller' = [caller EXCEPT ![c] = r]  BY <1>0, <2>2
    <3> HIDE DEF r
    <3> QED  BY <1>a, <1>b, <1>f, <2>1, <3>2, <3>3 DEF TypeOK
  <2>3. CASE Goto(c, "promote")
    BY <1>a, <1>e, <1>f, <2>1, <2>3 DEF TypeOK
  <2> QED  BY <1>6, <2>2, <2>3 DEF Assist, Goto
<1>7. CASE AssistTake(c)
  <2> DEFINE p == caller[c].work
             claimed == Wanted(c) \cap Queued(p)
  <2>1. p \in PlanIds /\ Wanted(c) \subseteq Functions /\ plans[p].queue \in Seq(Functions)
    BY <1>0, <1>7, TakenTypes, PlanParts DEF AssistTake, CallerInv, At, TableTypes
  <2>2. Keep(plans[p].queue, Functions \ claimed) \in Seq(Functions)
    BY <2>1, KeepFacts
  <2>3. plans' = [plans EXCEPT ![p].queue = Keep(plans[p].queue, Functions \ claimed)] /\ UNCHANGED <<entry, open, failed, defined>>
    BY <1>7 DEF AssistTake, Wanted
  <2>4. TableTypes' /\ PlanIds' = PlanIds
    <3> HIDE DEF p, claimed
    <3> QED  BY <2>1, <2>2, <2>3, QueueTypes
  <2>5. UNCHANGED <<gil, faults, bg, pool, stranded>>
    BY <1>7 DEF AssistTake
  <2>6. CASE caller' = [caller EXCEPT ![c].pc = "deps", ![c].claimed = claimed]
    <3> DEFINE r == [me EXCEPT !.pc = "deps", !.claimed = claimed]
    <3>1. claimed \subseteq Functions  BY <2>1
    <3> HIDE DEF claimed
    <3>2. r \in CallerSet'  BY <1>c, <2>4, <3>1 DEF CallerSet
    <3>3. caller' = [caller EXCEPT ![c] = r]  BY <1>0, <2>6
    <3> HIDE DEF r
    <3> QED  BY <1>a, <1>b, <2>4, <2>5, <3>2, <3>3 DEF TypeOK
  <2>7. CASE Goto(c, "promote")
    BY <1>a, <1>e, <2>4, <2>5, <2>7 DEF TypeOK
  <2> QED  BY <1>7, <2>6, <2>7 DEF AssistTake, Goto, Wanted
<1>8. CASE AssistDeps(c)
  <2> DEFINE deps == {<<entry[f].plan, f>> : f \in {g \in Wanted(c) \ me.claimed : Compiling(g)}}
             r == [me EXCEPT !.deps = deps, !.pc = IF deps = {} THEN "generate" ELSE "depwait"]
  <2>1. UNCHANGED table /\ UNCHANGED <<faults, bg, pool, stranded>> /\ gil' \in {c, NoOne}
    BY <1>8 DEF AssistDeps
  <2>2. Wanted(c) \subseteq Functions
    BY <1>8, TakenTypes DEF AssistDeps, CallerInv, At, Assisting
  <2>3. deps \subseteq PlanIds \X Functions
    BY <1>0, <2>2, SMTT(20) DEF TableInv, TableTypes
  <2>4. caller' = [caller EXCEPT ![c] = r]
    BY <1>0, <1>8 DEF AssistDeps, Wanted
  <2> HIDE DEF deps
  <2>5. r \in CallerSet'
    BY <1>c, <1>f, <2>1, <2>3 DEF CallerSet
  <2> HIDE DEF r
  <2> QED  BY <1>a, <1>b, <1>f, <2>1, <2>4, <2>5 DEF TypeOK
<1>9. CASE DepWait(c)
  <2>1. UNCHANGED table /\ UNCHANGED <<faults, bg, pool, stranded>>
    BY <1>9 DEF DepWait
  <2>2. PICK w \in me.deps : \/ Return(c, FALSE)
                             \/ /\ caller' = [caller EXCEPT ![c].deps = @ \ {w}, ![c].pc = IF caller[c].deps = {w} THEN "generate" ELSE @]
                                /\ gil' = IF caller[c].deps = {w} THEN c ELSE NoOne
    BY <1>9 DEF DepWait
  <2>3. CASE Return(c, FALSE)
    BY <1>a, <1>d, <1>f, <2>1, <2>3 DEF TypeOK
  <2>4. CASE /\ caller' = [caller EXCEPT ![c].deps = @ \ {w}, ![c].pc = IF caller[c].deps = {w} THEN "generate" ELSE @]
             /\ gil' = IF caller[c].deps = {w} THEN c ELSE NoOne
    <3> DEFINE r == [me EXCEPT !.deps = me.deps \ {w}, !.pc = IF me.deps = {w} THEN "generate" ELSE me.pc]
    <3>1. r \in CallerSet'
      BY <1>c, <1>f, <2>1 DEF CallerSet
    <3>2. caller' = [caller EXCEPT ![c] = r]
      BY <1>0, <2>4
    <3> HIDE DEF r
    <3> QED  BY <1>a, <1>b, <1>f, <2>1, <2>4, <3>1, <3>2 DEF TypeOK
  <2> QED  BY <2>2, <2>3, <2>4
<1>10. CASE Publish(c)
  <2>1. me.claimed \in SUBSET Functions
    BY <1>0 DEF CallerSet
  <2>2. TableTypes' /\ PlanIds' = PlanIds /\ faults' \in 0..MaxFaults
    BY <1>10, <2>1, CommitTypes DEF Publish
  <2>3. UNCHANGED <<bg, pool, stranded>>
    BY <1>10 DEF Publish
  <2>4. CASE caller' = [caller EXCEPT ![c].pc = "wait", ![c].claimed = {}] /\ gil' = NoOne
    <3> DEFINE r == [me EXCEPT !.pc = "wait", !.claimed = {}]
    <3>1. r \in CallerSet'  BY <1>c, <2>2 DEF CallerSet
    <3>2. caller' = [caller EXCEPT ![c] = r]  BY <1>0, <2>4
    <3> HIDE DEF r
    <3> QED  BY <1>a, <1>b, <2>2, <2>3, <2>4, <3>1, <3>2
  <2>5. CASE Goto(c, "fail") /\ UNCHANGED gil
    BY <1>0, <1>a, <1>e, <2>2, <2>3, <2>5
  <2> QED  BY <1>10, <2>4, <2>5 DEF Publish
<1>11. CASE Promote(c)
  <2> DEFINE f == Target[c]
             p == entry[f].plan
  <2>1. UNCHANGED <<entry, open, failed, defined>> /\ UNCHANGED <<faults, bg, pool, stranded>> /\ Goto(c, "wait") /\ gil' = NoOne
    BY <1>11 DEF Promote
  <2>2. CASE plans' = plans
    <3>1. UNCHANGED table  BY <2>1, <2>2 DEF table
    <3> QED  BY <1>a, <1>e, <1>f, <2>1, <3>1 DEF TypeOK
  <2>3. CASE Compiling(f) /\ plans' = [plans EXCEPT ![p].queue = <<f>> \o Keep(plans[p].queue, Functions \ {f})]
    <3>1. f \in Functions /\ p \in PlanIds
      BY <2>3, GraphAssumption DEF TableInv
    <3>2. Keep(plans[p].queue, Functions \ {f}) \in Seq(Functions)
      BY <1>0, <3>1, PlanParts, KeepFacts DEF TableTypes
    <3>3. <<f>> \o Keep(plans[p].queue, Functions \ {f}) \in Seq(Functions)
      BY <3>1, <3>2, SMTT(20)
    <3>4. TableTypes' /\ PlanIds' = PlanIds
      <4> HIDE DEF f, p
      <4> QED  BY <2>1, <2>3, <3>1, <3>3, QueueTypes
    <3> QED  BY <1>a, <1>e, <2>1, <3>4 DEF TypeOK
  <2> QED  BY <1>11, <2>2, <2>3 DEF Promote
<1>12. CASE WaitTimeout(c)
  <2>1. UNCHANGED table /\ UNCHANGED <<faults, bg, pool, stranded>> /\ Goto(c, "assist") /\ gil' = c
    BY <1>12 DEF WaitTimeout
  <2> QED  BY <1>a, <1>e, <1>f, <2>1 DEF TypeOK
<1>13. CASE WaitResult(c)
  <2>1. UNCHANGED table /\ UNCHANGED <<faults, bg, pool, stranded>>
    BY <1>13 DEF WaitResult
  <2>2. CASE Return(c, TRUE) \/ Return(c, FALSE)
    BY <1>a, <1>d, <1>f, <2>1, <2>2 DEF TypeOK
  <2>3. CASE /\ Waiter(c) \in failed => caller[c].errors < MaxWaitErrors /\ gil' = c
             /\ gil' = c
             /\ caller' = [caller EXCEPT ![c].errors = IF Waiter(c) \in failed THEN @ + 1 ELSE @, ![c].pc = "try"]
    <3> DEFINE r == [me EXCEPT !.errors = IF Waiter(c) \in failed THEN me.errors + 1 ELSE me.errors, !.pc = "try"]
    <3>1. (IF Waiter(c) \in failed THEN me.errors + 1 ELSE me.errors) \in 0..MaxWaitErrors
      <4>1. me.errors \in 0..MaxWaitErrors /\ MaxWaitErrors \in Nat  BY <1>0, GraphAssumption DEF CallerSet
      <4> QED  BY <2>3, <4>1, SMTT(20)
    <3>2. r \in CallerSet'
      BY <1>c, <1>f, <2>1, <3>1 DEF CallerSet
    <3>3. caller' = [caller EXCEPT ![c] = r]
      BY <1>0, <2>3
    <3> HIDE DEF r
    <3> QED  BY <1>a, <1>b, <1>f, <2>1, <2>3, <3>2, <3>3 DEF TypeOK
  <2> QED  BY <1>13, <2>2, <2>3 DEF WaitResult
<1> QED  BY <1>1, <1>2, <1>3, <1>4, <1>5, <1>6, <1>7, <1>8, <1>9, <1>10, <1>11, <1>12, <1>13 DEF CallerNext

--------------------------------------------------------------------------------
(* Every step keeps the table's invariant and what is never undone.         *)

\* Nothing happens to the table.
LEMMA SameTableKept == ASSUME TypeOK, TableInv, UNCHANGED table PROVE TableInv' /\ Kept
<1>1. PlanIds' = PlanIds /\ \A p \in PlanIds : Queued(p)' = Queued(p)
  BY DEF table, PlanIds, Queued
<1>2. \A f \in Functions : /\ Ready(f)' <=> Ready(f)
                           /\ \A q \in PlanIds : By(f, q)' <=> By(f, q)
                           /\ Compiling(f)' <=> Compiling(f)
  BY DEF table, Ready, By, Compiling
<1>3. Kept
  BY <1>1, <1>2 DEF Kept, table
<1>4. \A q \in PlanIds : Dead(q) => Dead(q)'
  BY <1>2 DEF Dead
<1>5. \A q \in PlanIds : plans[q].define \subseteq Functions
  BY PlanParts DEF TypeOK
<1>6. \A q \in PlanIds : ~plans[q].broken =>
          \A f \in plans[q].define : \A g \in Calls[f] : g \in plans[q].define \cup plans[q].elsewhere \/ Ready(g)'
  BY <1>2, <1>5, GraphAssumption DEF TableInv
<1>7. \A q \in PlanIds : \A f \in plans[q].define : By(f, q)' \/ Ready(f)' \/ <<q, f>> \in failed
  BY <1>2, <1>5 DEF TableInv
<1>8. \A w \in failed : w \in PlanIds \X Functions /\ w[2] \in plans[w[1]].define /\ Dead(w[1])' /\ ~plans[w[1]].broken
  <2>1. \A w \in failed : w[1] \in PlanIds
    BY SMTT(20) DEF TableInv
  <2> QED  BY <1>4, <2>1 DEF TableInv
<1>9. \A q \in PlanIds : Queued(q)' \subseteq plans[q].define /\ (plans[q].attached => ~plans[q].broken)
  BY <1>1 DEF TableInv
<1>10. plans' = plans /\ failed' = failed /\ entry' = entry
  BY DEF table
<1>11. TableInv'
  BY <1>1, <1>2, <1>6, <1>7, <1>8, <1>9, <1>10, TableInvKept
<1> QED  BY <1>3, <1>11

\* A commit, by whoever holds the group.
LEMMA CommitTable ==
    ASSUME TypeOK, TableInv, NEW group, Commit(group) \/ CommitError(group)
    PROVE  TableInv' /\ Kept
<1>1. PICK g : MarkReady(g) /\ plans' = plans /\ defined \subseteq defined'
  BY DEF Commit, CommitError
<1> QED  BY <1>1, MarkReadyTable

\* The steps of the background thread.
LEMMA BgTable == ASSUME TypeOK, TableInv, BgInv, BgNext PROVE TableInv' /\ Kept
<1>1. CASE BgScan \/ BgJoin \/ BgPlan \/ BgReceive \/ BgDrain
  <2>1. UNCHANGED table  BY <1>1 DEF BgScan, BgJoin, BgPlan, BgReceive, BgDrain
  <2> QED  BY <2>1, SameTableKept
<1>2. CASE BgReserve
  <2>1. UNCHANGED <<failed, defined>>  BY <1>2 DEF BgReserve
  <2>2. UNCHANGED table \/ Reserve(Module) \/ ReserveBreak(bg.root, Module)
    BY <1>2 DEF BgReserve, table
  <2>3. \A f \in Module : Calls[f] \subseteq Module
    BY GraphAssumption
  <2> QED  BY <2>1, <2>2, <2>3, ModuleInside, SameTableKept, ReserveTable, ReserveBreakTable
<1>3. CASE BgAttach
  <2>1. PICK p : p = bg.plan  OBVIOUS
  <2>2. p \in PlanIds /\ ~plans[p].attached /\ ~plans[p].broken /\ plans[p] \in PlanSet
    BY <1>3, <2>1, PlanParts DEF BgInv, Active, BgAttach, TypeOK
  <2>3. PICK r : r = [plans[p] EXCEPT !.attached = TRUE, !.queue = Keep(Order, plans[p].define)]
    OBVIOUS
  <2>4. Keep(Order, plans[p].define) \in Seq(Functions) /\ Elements(Keep(Order, plans[p].define)) \subseteq plans[p].define
    BY KeepFacts, GraphAssumption, SMTT(20)
  <2>5. /\ r \in PlanSet /\ r.define = plans[p].define /\ r.elsewhere = plans[p].elsewhere /\ r.broken = plans[p].broken
        /\ r.queue = Keep(Order, plans[p].define)
    BY <2>2, <2>3, <2>4 DEF PlanSet
  <2>6. plans' = [plans EXCEPT ![p] = r] /\ UNCHANGED <<entry, failed, defined>> /\ bg'.pc = "collect"
    <3>1. UNCHANGED <<entry, failed, defined>> /\ bg'.pc = "collect"
      BY <1>3 DEF BgAttach, TypeOK, BgSet
    <3>2. plans' = [plans EXCEPT ![p].attached = TRUE, ![p].queue = Keep(Order, plans[p].define)]
      BY <1>3, <2>1 DEF BgAttach
    <3>3. plans' = [plans EXCEPT ![p] = r]
      BY <2>3, <3>2
    <3> QED  BY <3>1, <3>3
  <2> QED  BY <2>2, <2>4, <2>5, <2>6, QueueTable
<1>4. CASE BgCommit \/ BgLastCommit
  <2>1. Commit(bg.group) \/ CommitError(bg.group)
    BY <1>4 DEF BgCommit, BgLastCommit
  <2> QED  BY <2>1, CommitTable
<1>5. CASE BgFail
  <2>1. bg.plan \in PlanIds /\ ~plans[bg.plan].broken /\ FailBatch(bg.plan) /\ UNCHANGED <<plans, defined>>
    BY <1>5 DEF BgFail, BgInv, Active
  <2> QED  BY <2>1, FailTable
<1> QED  BY <1>1, <1>2, <1>3, <1>4, <1>5 DEF BgNext

\* A worker takes the head of the queue.
LEMMA PopQueue ==
    ASSUME TypeOK, TableInv, BgInv, NEW w \in Workers, WorkerPop(w), NEW p, p = bg.plan, plans[p].queue # <<>>
    PROVE  /\ TableInv' /\ Kept /\ p \in PlanIds /\ PlanIds' = PlanIds
           /\ Head(plans[p].queue) \in Queued(p)
           /\ Queued(p) = Queued(p)' \cup {Head(plans[p].queue)}
           /\ \A q \in PlanIds \ {p} : plans'[q] = plans[q] /\ Queued(q)' = Queued(q)
<1>1. bg.pc \in {"collect", "commit"}
  BY DEF WorkerPop, BgInv
<1>2. p \in PlanIds /\ plans[p] \in PlanSet /\ plans[p].queue \in Seq(Functions)
  BY <1>1, PlanParts DEF BgInv, Active, Running, TypeOK
<1>3. PICK q : q = plans[p].queue
  OBVIOUS
<1>4. Tail(q) \in Seq(Functions) /\ Elements(q) = Elements(Tail(q)) \cup {Head(q)}
  <2>1. q \in Seq(Functions) /\ q # <<>>  BY <1>2, <1>3
  <2>2. /\ Tail(q) \in Seq(Functions) /\ Len(Tail(q)) = Len(q) - 1 /\ Len(q) \in Nat /\ Len(q) > 0 /\ Head(q) = q[1]
        /\ \A i \in 1..(Len(q) - 1) : Tail(q)[i] = q[i + 1]
    BY <2>1, SMTT(20)
  <2>3. ASSUME NEW x \in Elements(q) PROVE x \in Elements(Tail(q)) \cup {Head(q)}
    <3>1. PICK i \in 1..Len(q) : x = q[i]  BY <2>3 DEF Elements
    <3>2. CASE i = 1
      BY <2>2, <3>1, <3>2
    <3>3. CASE i # 1
      <4>1. i - 1 \in 1..(Len(q) - 1) /\ (i - 1) + 1 = i  BY <2>2, <3>1, <3>3, SMTT(20)
      <4>2. x = Tail(q)[i - 1]  BY <2>2, <3>1, <4>1
      <4> QED  BY <2>2, <4>1, <4>2 DEF Elements
    <3> QED  BY <3>2, <3>3
  <2>4. ASSUME NEW x \in Elements(Tail(q)) PROVE x \in Elements(q)
    <3>1. PICK i \in 1..(Len(q) - 1) : x = Tail(q)[i]  BY <2>2, <2>4 DEF Elements
    <3>2. i + 1 \in 1..Len(q) /\ x = q[i + 1]  BY <2>2, <3>1, SMTT(20)
    <3> QED  BY <3>2 DEF Elements
  <2>5. Head(q) \in Elements(q)
    <3>1. 1 \in 1..Len(q)  BY <2>2, SMTT(20)
    <3> QED  BY <2>2, <3>1 DEF Elements
  <2> QED  BY <2>2, <2>3, <2>4, <2>5
<1>5. PICK r : r = [plans[p] EXCEPT !.queue = Tail(q)]
  OBVIOUS
<1>6. /\ r \in PlanSet /\ r.define = plans[p].define /\ r.elsewhere = plans[p].elsewhere /\ r.broken = plans[p].broken
      /\ r.attached = plans[p].attached /\ r.queue = Tail(q)
  BY <1>2, <1>4, <1>5 DEF PlanSet
<1>7. plans' = [plans EXCEPT ![p] = r] /\ UNCHANGED <<entry, failed, defined>>
  BY <1>3, <1>5 DEF WorkerPop
<1>8. Queued(p) = Elements(q)
  BY <1>3 DEF Queued, Elements
<1>9. Queued(p) \subseteq plans[p].define /\ (plans[p].attached => ~plans[p].broken)
  BY <1>2 DEF TableInv
<1>10. /\ TableInv' /\ Kept /\ PlanIds' = PlanIds /\ Queued(p)' = Elements(Tail(q))
       /\ \A x \in PlanIds \ {p} : plans'[x] = plans[x] /\ Queued(x)' = Queued(x)
  <2>1. Elements(r.queue) \subseteq plans[p].define /\ Elements(r.queue) \subseteq Queued(p)
    BY <1>4, <1>6, <1>8, <1>9
  <2>2. Elements(r.queue) = Elements(Tail(q))
    BY <1>6
  <2>3. /\ plans[p].attached => r.attached /\ Elements(r.queue) \subseteq Queued(p)
        /\ r.attached => ~plans[p].broken /\ plans[p].attached
    BY <1>6, <1>9, <2>1
  <2> QED  BY <1>2, <1>6, <1>7, <2>1, <2>2, <2>3, QueueTable
<1> QED  BY <1>2, <1>3, <1>4, <1>8, <1>10, SMTT(20)

\* The steps of the workers.
LEMMA WorkerTable == ASSUME TypeOK, TableInv, BgInv, NEW w \in Workers, WorkerNext(w) PROVE TableInv' /\ Kept
<1>1. CASE UNCHANGED table
  BY <1>1, SameTableKept
<1>2. CASE WorkerPop(w) /\ plans[bg.plan].queue # <<>>
  BY <1>2, PopQueue
<1> QED  BY <1>1, <1>2 DEF WorkerNext, WorkerCheck, WorkerPop, WorkerCompile, table

\* A caller takes the wanted functions out of the queue.
LEMMA TakeQueue ==
    ASSUME TypeOK, TableInv, NEW c \in Callers, CallerInv(c), AssistTake(c), NEW p, p = caller[c].work
    PROVE  /\ TableInv' /\ Kept /\ p \in PlanIds /\ PlanIds' = PlanIds
           /\ Queued(p)' = Queued(p) \ Wanted(c)
           /\ \A q \in PlanIds \ {p} : plans'[q] = plans[q] /\ Queued(q)' = Queued(q)
<1>1. p \in PlanIds /\ plans[p] \in PlanSet /\ plans[p].queue \in Seq(Functions)
  BY PlanParts DEF AssistTake, At, CallerInv, TypeOK
<1>2. PICK q : q = Keep(plans[p].queue, Functions \ (Wanted(c) \cap Queued(p)))
  OBVIOUS
<1>3. q \in Seq(Functions) /\ Elements(q) = Elements(plans[p].queue) \cap (Functions \ (Wanted(c) \cap Queued(p)))
  BY <1>1, <1>2, KeepFacts, SMTT(20)
<1>4. Queued(p) = Elements(plans[p].queue) /\ Queued(p) \subseteq Functions
  BY <1>1, SMTT(20) DEF Queued, Elements
<1>5. Elements(q) = Queued(p) \ Wanted(c)
  BY <1>3, <1>4
<1>6. PICK r : r = [plans[p] EXCEPT !.queue = q]
  OBVIOUS
<1>7. /\ r \in PlanSet /\ r.define = plans[p].define /\ r.elsewhere = plans[p].elsewhere /\ r.broken = plans[p].broken
      /\ r.attached = plans[p].attached /\ r.queue = q
  BY <1>1, <1>3, <1>6 DEF PlanSet
<1>8. plans' = [plans EXCEPT ![p] = r] /\ UNCHANGED <<entry, failed, defined>>
  BY <1>2, <1>6 DEF AssistTake, Wanted
<1>9. Queued(p) \subseteq plans[p].define /\ (plans[p].attached => ~plans[p].broken)
  BY <1>1 DEF TableInv
<1>10. Elements(r.queue) \subseteq plans[p].define /\ Elements(r.queue) \subseteq Queued(p) /\ Elements(r.queue) = Elements(q)
  BY <1>5, <1>7, <1>9
<1> QED  BY <1>1, <1>5, <1>7, <1>8, <1>9, <1>10, QueueTable

\* A caller moves its function to the front of the queue.
LEMMA PromoteQueue ==
    ASSUME TypeOK, TableInv, NEW c \in Callers, Promote(c)
    PROVE  TableInv' /\ Kept /\ PlanIds' = PlanIds /\ \A q \in PlanIds : Queued(q)' = Queued(q) /\ plans'[q].attached = plans[q].attached
<1> DEFINE f == Target[c]
<1>1. CASE plans' = plans
  <2>1. UNCHANGED table  BY <1>1 DEF Promote, table
  <2> QED  BY <1>1, <2>1, SameTableKept DEF PlanIds, Queued
<1>2. CASE plans' # plans
  <2>0. PICK p : p = entry[f].plan  OBVIOUS
  <2>1. Compiling(f) /\ f \in Queued(p) /\ plans' = [plans EXCEPT ![p].queue = <<f>> \o Keep(plans[p].queue, Functions \ {f})]
    BY <1>2, <2>0 DEF Promote
  <2>2. f \in Functions /\ p \in PlanIds
    BY <2>0, <2>1, GraphAssumption DEF TableInv
  <2>3. plans[p] \in PlanSet /\ plans[p].queue \in Seq(Functions)
    BY <2>2, PlanParts DEF TypeOK
  <2>4. PICK k : k = Keep(plans[p].queue, Functions \ {f})
    OBVIOUS
  <2>5. k \in Seq(Functions) /\ Elements(k) = Elements(plans[p].queue) \cap (Functions \ {f})
    BY <2>3, <2>4, KeepFacts
  <2>6. Queued(p) = Elements(plans[p].queue) /\ Queued(p) \subseteq Functions
    BY <2>3, SMTT(20) DEF Queued, Elements
  <2>7. <<f>> \o k \in Seq(Functions) /\ Elements(<<f>> \o k) = {f} \cup Elements(k)
    <3>1. /\ <<f>> \o k \in Seq(Functions) /\ Len(<<f>> \o k) = 1 + Len(k) /\ Len(k) \in Nat
          /\ (<<f>> \o k)[1] = f /\ \A i \in 1..Len(k) : (<<f>> \o k)[i + 1] = k[i]
      BY <2>2, <2>5, SMTT(20)
    <3> DEFINE s == <<f>> \o k
    <3> HIDE DEF s
    <3>2. Len(s) = 1 + Len(k) /\ s[1] = f /\ \A i \in 1..Len(k) : s[i + 1] = k[i]
      BY <3>1 DEF s
    <3>3. ASSUME NEW x \in Elements(s) PROVE x \in {f} \cup Elements(k)
      <4>1. PICK i \in 1..(1 + Len(k)) : x = s[i]  BY <3>2, <3>3 DEF Elements
      <4>2. CASE i = 1  BY <3>2, <4>1, <4>2
      <4>3. CASE i # 1
        <5>1. i - 1 \in 1..Len(k) /\ (i - 1) + 1 = i  BY <3>1, <4>1, <4>3, SMTT(20)
        <5>2. x = k[i - 1]  BY <3>2, <4>1, <5>1
        <5> QED  BY <5>1, <5>2 DEF Elements
      <4> QED  BY <4>2, <4>3
    <3>4. ASSUME NEW x \in Elements(k) PROVE x \in Elements(s)
      <4>1. PICK i \in 1..Len(k) : x = k[i]  BY <3>4 DEF Elements
      <4>2. i + 1 \in 1..Len(s) /\ x = s[i + 1]  BY <3>1, <3>2, <4>1, SMTT(20)
      <4> QED  BY <4>2 DEF Elements
    <3>5. f \in Elements(s)
      <4>1. 1 \in 1..Len(s)  BY <3>1, <3>2, SMTT(20)
      <4> QED  BY <3>2, <4>1 DEF Elements
    <3>6. Elements(s) = {f} \cup Elements(k)
      BY <3>3, <3>4, <3>5
    <3> QED  BY <3>1, <3>6 DEF s
  <2> HIDE DEF f
  <2>8. Elements(<<f>> \o k) = Queued(p)
    BY <2>1, <2>2, <2>5, <2>6, <2>7
  <2>9. PICK r : r = [plans[p] EXCEPT !.queue = <<f>> \o k]
    OBVIOUS
  <2>10. /\ r \in PlanSet /\ r.define = plans[p].define /\ r.elsewhere = plans[p].elsewhere /\ r.broken = plans[p].broken
         /\ r.attached = plans[p].attached /\ r.queue = <<f>> \o k
    BY <2>3, <2>7, <2>9 DEF PlanSet
  <2>11. plans' = [plans EXCEPT ![p] = r] /\ UNCHANGED <<entry, failed, defined>>
    BY <2>1, <2>4, <2>9 DEF Promote
  <2>12. Queued(p) \subseteq plans[p].define /\ (plans[p].attached => ~plans[p].broken)
    BY <2>2 DEF TableInv
  <2>13. Elements(r.queue) = Queued(p)
    BY <2>8, <2>10
  <2>14. /\ TableInv' /\ Kept /\ PlanIds' = PlanIds /\ plans'[p] = r /\ Queued(p)' = Elements(r.queue)
         /\ \A q \in PlanIds \ {p} : plans'[q] = plans[q] /\ Queued(q)' = Queued(q)
    <3>1. /\ Elements(r.queue) \subseteq plans[p].define
          /\ plans[p].attached => r.attached /\ Elements(r.queue) \subseteq Queued(p)
          /\ r.attached => ~plans[p].broken /\ plans[p].attached
      BY <2>10, <2>12, <2>13
    <3> QED  BY <2>2, <2>10, <2>11, <3>1, QueueTable
  <2> QED  BY <2>10, <2>13, <2>14
<1> QED  BY <1>1, <1>2

\* The steps of a caller.
LEMMA CallerTable == ASSUME TypeOK, TableInv, NEW c \in Callers, CallerInv(c), CallerNext(c) PROVE TableInv' /\ Kept
<1>1. CASE Enter(c) \/ Compile(c) \/ Assist(c) \/ AssistDeps(c) \/ DepWait(c) \/ Generate(c) \/ WaitTimeout(c) \/ WaitResult(c)
  <2>1. UNCHANGED table
    BY <1>1 DEF Enter, Compile, Assist, AssistDeps, DepWait, Generate, WaitTimeout, WaitResult
  <2> QED  BY <2>1, SameTableKept
<1>2. CASE AssistTake(c)
  BY <1>2, TakeQueue
<1>3. CASE Promote(c)
  BY <1>3, PromoteQueue
<1>4. CASE Try(c)
  <2> DEFINE batch == Closure(Target[c], Functions)
  <2>1. batch \in SUBSET Functions  BY ClosureInside
  <2>2. \A f \in batch : Calls[f] \subseteq batch
    BY <2>1, ClosureStep, GraphAssumption
  <2>3. UNCHANGED table \/ Reserve(batch) \/ ReserveBreak(Target[c], batch)
    BY <1>4 DEF Try, table
  <2>4. UNCHANGED <<failed, defined>>  BY <1>4 DEF Try
  <2> HIDE DEF batch
  <2> QED  BY <2>1, <2>2, <2>3, <2>4, SameTableKept, ReserveTable, ReserveBreakTable
<1>5. CASE CommitBatch(c)
  BY <1>5, CommitTable DEF CommitBatch
<1>6. CASE Publish(c)
  BY <1>6, CommitTable DEF Publish
<1>7. CASE Fail(c)
  <2>1. caller[c].work \in PlanIds /\ ~plans[caller[c].work].broken /\ FailBatch(caller[c].work) /\ UNCHANGED <<plans, defined>>
    BY <1>7 DEF Fail, CallerInv, At
  <2> QED  BY <2>1, FailTable
<1> QED  BY <1>1, <1>2, <1>3, <1>4, <1>5, <1>6, <1>7 DEF CallerNext

--------------------------------------------------------------------------------
(* What a caller knows of the plan it works on.                             *)

\* What a caller knows stays true under the steps of the others.
LEMMA CallerFrame ==
    ASSUME TypeOK, TableInv, Kept, NEW c \in Callers, caller'[c] = caller[c], CallerInv(c)
    PROVE  CallerInv(c)'
<1>0. PICK p : p = caller[c].work  OBVIOUS
<1>1. caller[c].pc \in {"compile", "commit", "fail", "take"} \cup Assisting =>
          p \in PlanIds /\ p \in PlanIds' /\ ~plans[p].broken /\ ~plans'[p].broken /\ plans'[p].define = plans[p].define
  BY <1>0 DEF CallerInv, Kept
<1>2. caller[c].pc \in {"take"} \cup Assisting =>
          plans'[p].attached /\ Target[c] \in plans'[p].define /\ Queued(p)' \subseteq Queued(p) /\ Wanted(c)' = Wanted(c)
  <2>1. caller'[c].work = p
    BY <1>0
  <2> SUFFICES ASSUME caller[c].pc \in {"take"} \cup Assisting
               PROVE  plans'[p].attached /\ Target[c] \in plans'[p].define /\ Queued(p)' \subseteq Queued(p) /\ Wanted(c)' = Wanted(c)
    OBVIOUS
  <2>2. p \in PlanIds /\ plans'[p].define = plans[p].define
    BY <1>1
  <2>3. plans[p].attached /\ Target[c] \in plans[p].define
    BY <1>0 DEF CallerInv
  <2>4. plans'[p].attached /\ Queued(p)' \subseteq Queued(p)
    BY <2>2, <2>3 DEF Kept
  <2>5. Wanted(c)' = Wanted(c)
    BY <1>0, <2>1, <2>2 DEF Wanted, Closure
  <2> QED  BY <2>2, <2>3, <2>4, <2>5
<1>3. \A q \in PlanIds : Dead(q) => Dead(q)'
  BY DEF Kept, Dead
<1>4. At(c, "depwait") => p \in PlanIds /\ \A w \in caller[c].deps :
           /\ w \in PlanIds' \X Functions /\ w[2] \in plans'[w[1]].define
           /\ w[1] = p \/ Dead(p)'
  BY <1>0, <1>1, <1>3 DEF CallerInv, Kept, At, Assisting
<1>5. caller[c].pc \in {"depwait", "generate", "publish"} => Wanted(c) \subseteq Functions
  BY <1>0, <1>1, TakenTypes DEF Assisting
<1>6. caller[c].pc \in {"depwait", "generate", "publish"} =>
          \A g \in Wanted(c)' \ caller[c].claimed :
             \/ Ready(g)' \/ <<p, g>> \in failed'
             \/ At(c, "depwait") /\ \E w \in caller[c].deps : w[2] = g
  BY <1>0, <1>2, <1>5 DEF CallerInv, Kept, Assisting
<1>7. caller[c].pc \in Assisting =>
          Target[c] \in caller[c].claimed /\ caller[c].claimed \subseteq Wanted(c)' /\ Wanted(c)' \cap Queued(p)' = {}
  BY <1>0, <1>2 DEF CallerInv
<1>8. caller'[c].pc = caller[c].pc /\ caller'[c].work = p /\ caller'[c].claimed = caller[c].claimed /\ caller'[c].deps = caller[c].deps
      /\ (At(c, "depwait")' <=> At(c, "depwait")) /\ Queued(caller[c].work)' = Queued(p)' /\ Dead(caller[c].work)' = Dead(p)'
  BY <1>0 DEF At, Queued, Dead, By
<1> QED  BY <1>1, <1>2, <1>4, <1>6, <1>7, <1>8 DEF CallerInv

\* A caller that works on no plan.
LEMMA CallerFree ==
    ASSUME NEW c \in Callers, caller'[c].pc \in {"try", "assist", "promote", "wait", "done"} PROVE CallerInv(c)'
BY DEF CallerInv, At, Assisting

\* A waiter without an error that is no longer open was told of a commit.
LEMMA WaiterTold ==
    ASSUME TypeOK, TableInv, WaitersReachable, NEW w \in PlanIds \X Functions, w[2] \in plans[w[1]].define,
           w \notin open, w \notin failed
    PROVE  Ready(w[2])
<1>1. w = <<w[1], w[2]>> /\ w[1] \in PlanIds /\ w[2] \in Functions
  BY SMTT(20)
<1>2. ~By(w[2], w[1])
  BY <1>1 DEF WaitersReachable, By
<1> QED  BY <1>1, <1>2 DEF TableInv

\* What a caller's own step tells it.
LEMMA CallerOwn ==
    ASSUME TypeOK, TypeOK', TableInv, TableInv', Kept, WaitersReachable, NEW c \in Callers, CallerInv(c), CallerNext(c)
    PROVE  CallerInv(c)'
<1> DEFINE me == caller[c]
<1>0. caller \in [Callers -> CallerSet] /\ me \in CallerSet
  BY DEF TypeOK
<1>a. ASSUME NEW ok, Return(c, ok) PROVE CallerInv(c)'
  <2>1. caller'[c].pc = "done"  BY <1>0, <1>a DEF Return, CallerSet
  <2> QED  BY <2>1, CallerFree
<1>b. ASSUME NEW pc \in {"try", "assist", "promote", "wait"}, Goto(c, pc) PROVE CallerInv(c)'
  <2>1. caller'[c].pc = pc  BY <1>0, <1>b DEF Goto, CallerSet
  <2> QED  BY <2>1, CallerFree
<1>c. ASSUME NEW pc \in {"commit", "fail"}, Goto(c, pc), me.pc \in {"compile", "commit", "generate", "publish"} PROVE CallerInv(c)'
  <2>1. caller'[c].pc = pc /\ caller'[c].work = me.work  BY <1>0, <1>c DEF Goto, CallerSet
  <2>2. me.work \in PlanIds /\ ~plans[me.work].broken  BY <1>c DEF CallerInv, Assisting
  <2>3. me.work \in PlanIds' /\ ~plans'[me.work].broken  BY <2>2 DEF Kept
  <2> QED  BY <1>c, <2>1, <2>3 DEF CallerInv, At, Assisting
<1>1. CASE Enter(c) \/ WaitTimeout(c) \/ Promote(c)
  BY <1>1, <1>b DEF Enter, WaitTimeout, Promote
<1>2. CASE Try(c)
  <2>1. CASE \E ok : Return(c, ok)
    BY <1>a, <2>1
  <2>2. CASE caller' = [caller EXCEPT ![c].pc = "assist", ![c].plan = entry[Target[c]].plan]
    <3>1. caller'[c].pc = "assist"  BY <1>0, <2>2 DEF CallerSet
    <3> QED  BY <3>1, CallerFree
  <2>3. CASE Reserve(Closure(Target[c], Functions)) /\ caller' = [caller EXCEPT ![c].pc = "compile", ![c].work = Len(plans) + 1]
    <3> DEFINE batch == Closure(Target[c], Functions)
    <3>1. PICK n : n = Len(plans) + 1  OBVIOUS
    <3>2. caller'[c].pc = "compile" /\ caller'[c].work = n  BY <1>0, <2>3, <3>1 DEF CallerSet
    <3>3. PICK r : r = [define |-> {f \in batch : NeedsCompile(f)}, elsewhere |-> {f \in batch : Compiling(f)},
                        broken |-> FALSE, attached |-> FALSE, queue |-> <<>>]
      OBVIOUS
    <3>4. r \in PlanSet /\ r.broken = FALSE
      BY <3>3, ClosureInside, SMTT(20) DEF PlanSet
    <3>5. plans' = Append(plans, r)
      BY <2>3, <3>3 DEF Reserve
    <3>6. n \in PlanIds' /\ plans'[n] = r
      BY <3>1, <3>4, <3>5, AppendPlan DEF TypeOK
    <3> QED  BY <3>2, <3>4, <3>6 DEF CallerInv, At, Assisting
  <2> QED  BY <1>2, <2>1, <2>2, <2>3 DEF Try
<1>3. CASE Compile(c)
  BY <1>3, <1>c DEF Compile, At
<1>4. CASE CommitBatch(c)
  BY <1>4, <1>a, <1>c DEF CommitBatch, At
<1>5. CASE Fail(c)
  BY <1>5, <1>a DEF Fail
<1>6. CASE Assist(c)
  <2>1. CASE Compiling(Target[c]) /\ plans[entry[Target[c]].plan].attached
    <3>1. PICK p : p = entry[Target[c]].plan  OBVIOUS
    <3>2. caller'[c].pc = "take" /\ caller'[c].work = p
      BY <1>0, <1>6, <2>1, <3>1 DEF Assist, CallerSet
    <3>3. p \in PlanIds /\ plans[p].attached /\ Target[c] \in plans[p].define /\ ~plans[p].broken
      BY <2>1, <3>1, GraphAssumption DEF TableInv
    <3>4. plans' = plans /\ PlanIds' = PlanIds
      BY <1>6 DEF Assist, table, PlanIds
    <3> QED  BY <3>2, <3>3, <3>4 DEF CallerInv, At, Assisting
  <2>2. CASE ~(Compiling(Target[c]) /\ plans[entry[Target[c]].plan].attached)
    <3>1. caller'[c].pc = "promote"  BY <1>0, <1>6, <2>2 DEF Assist, CallerSet
    <3> QED  BY <3>1, CallerFree
  <2> QED  BY <2>1, <2>2
<1>7. CASE AssistTake(c)
  <2>1. PICK p : p = me.work  OBVIOUS
  <2>2. p \in PlanIds /\ ~plans[p].broken /\ plans[p].attached /\ Target[c] \in plans[p].define
    BY <1>7, <2>1 DEF AssistTake, At, CallerInv
  <2>3. p \in PlanIds' /\ ~plans'[p].broken /\ plans'[p].attached /\ Target[c] \in plans'[p].define /\ plans'[p].define = plans[p].define
    BY <2>2 DEF Kept
  <2>4. Queued(p)' = Queued(p) \ Wanted(c)
    BY <1>7, <2>1, TakeQueue
  <2>5. CASE Target[c] \in Wanted(c) \cap Queued(p)
    <3>1. caller' = [caller EXCEPT ![c].pc = "deps", ![c].claimed = Wanted(c) \cap Queued(p)]
      BY <1>7, <2>1, <2>5 DEF AssistTake, Wanted
    <3>2. caller'[c].pc = "deps" /\ caller'[c].work = p /\ caller'[c].claimed = Wanted(c) \cap Queued(p)
      <4> HIDE DEF me
      <4> QED  BY <1>0, <2>1, <3>1 DEF CallerSet, me
    <3>3. Wanted(c)' = Wanted(c)
      BY <2>1, <2>3, <3>2 DEF Wanted, Closure
    <3>4. Queued(caller[c].work)' = Queued(p)'
      BY <3>2 DEF Queued
    <3> QED  BY <2>3, <2>4, <2>5, <3>2, <3>3, <3>4 DEF CallerInv, At, Assisting
  <2>6. CASE Target[c] \notin Wanted(c) \cap Queued(p)
    <3>1. caller'[c].pc = "promote"  BY <1>0, <1>7, <2>1, <2>6 DEF AssistTake, Wanted, CallerSet
    <3> QED  BY <3>1, CallerFree
  <2> QED  BY <2>5, <2>6
<1>8. CASE AssistDeps(c)
  <2> DEFINE deps == {<<entry[f].plan, f>> : f \in {g \in Wanted(c) \ me.claimed : Compiling(g)}}
  <2>1. PICK p : p = me.work  OBVIOUS
  <2>2. /\ p \in PlanIds /\ ~plans[p].broken /\ plans[p].attached /\ Target[c] \in plans[p].define
        /\ Target[c] \in me.claimed /\ me.claimed \subseteq Wanted(c) /\ Wanted(c) \cap Queued(p) = {}
    BY <1>8, <2>1 DEF AssistDeps, At, CallerInv, Assisting
  <2>3. UNCHANGED table  BY <1>8 DEF AssistDeps
  <2>4. plans' = plans /\ PlanIds' = PlanIds /\ Queued(p)' = Queued(p) /\ failed' = failed /\ \A f \in Functions : Ready(f)' <=> Ready(f)
    BY <2>3 DEF table, PlanIds, Queued, Ready
  <2>5. /\ caller'[c].pc = (IF deps = {} THEN "generate" ELSE "depwait") /\ caller'[c].work = p /\ caller'[c].claimed = me.claimed
        /\ caller'[c].deps = deps
    BY <1>0, <1>8, <2>1 DEF AssistDeps, Wanted, CallerSet
  <2>6. Wanted(c)' = Wanted(c) /\ Wanted(c) \subseteq plans[p].define /\ plans[p].define \subseteq Functions
    <3>1. Wanted(c)' = Wanted(c)
      BY <2>1, <2>2, <2>4, <2>5 DEF Wanted, Closure
    <3>2. Wanted(c) \subseteq plans[p].define
      BY <2>1, ClosureInside DEF Wanted
    <3>3. plans[p].define \subseteq Functions
      BY <2>2, PlanParts DEF TypeOK
    <3> QED  BY <3>1, <3>2, <3>3
  <2>7. ASSUME NEW g \in Wanted(c) \ me.claimed PROVE Ready(g) \/ <<p, g>> \in failed \/ \E w \in deps : w[2] = g
    <3>1. CASE Compiling(g)
      <4>1. <<entry[g].plan, g>> \in deps  BY <2>7, <3>1
      <4> QED  BY <4>1
    <3>2. CASE ~Compiling(g)
      BY <2>2, <2>6, <2>7, <3>2 DEF TableInv, By
    <3> QED  BY <3>1, <3>2
  <2>8. ASSUME NEW w \in deps PROVE w \in PlanIds \X Functions /\ w[2] \in plans[w[1]].define /\ (w[1] = p \/ Dead(p))
    <3>1. PICK g \in Wanted(c) : Compiling(g) /\ w = <<entry[g].plan, g>>  BY <2>8
    <3>2. g \in Functions /\ g \in plans[p].define /\ entry[g].plan \in PlanIds /\ g \in plans[entry[g].plan].define
      BY <2>6, <3>1 DEF TableInv
    <3>3. entry[g].plan = p \/ <<p, g>> \in failed
      BY <2>2, <3>1, <3>2 DEF TableInv, By, Compiling, Ready
    <3> QED  BY <3>1, <3>2, <3>3 DEF TableInv
  <2>9. Dead(p) => Dead(p)'
    BY <2>2 DEF Kept, Dead
  <2>10. Queued(caller[c].work)' = Queued(p)' /\ Dead(caller[c].work)' = Dead(p)'
    BY <2>5 DEF Queued, Dead, By
  <2> HIDE DEF deps
  <2>11. \A g \in Wanted(c)' \ me.claimed : Ready(g)' \/ <<p, g>> \in failed' \/ (deps # {} /\ \E w \in deps : w[2] = g)
    BY <2>4, <2>6, <2>7
  <2> QED  BY <2>2, <2>4, <2>5, <2>6, <2>8, <2>9, <2>10, <2>11 DEF CallerInv, At, Assisting
<1>9. CASE DepWait(c)
  <2>1. PICK p : p = me.work  OBVIOUS
  <2>2. PICK w \in me.deps \ open : \/ Return(c, FALSE)
                             \/ /\ w \notin failed
                                /\ caller' = [caller EXCEPT ![c].deps = @ \ {w}, ![c].pc = IF caller[c].deps = {w} THEN "generate" ELSE @]
    BY <1>9 DEF DepWait
  <2>3. CASE Return(c, FALSE)
    BY <1>a, <2>3
  <2>4. CASE /\ w \notin failed
             /\ caller' = [caller EXCEPT ![c].deps = @ \ {w}, ![c].pc = IF caller[c].deps = {w} THEN "generate" ELSE @]
    <3>1. /\ p \in PlanIds /\ ~plans[p].broken /\ plans[p].attached /\ Target[c] \in plans[p].define
          /\ Target[c] \in me.claimed /\ me.claimed \subseteq Wanted(c) /\ Wanted(c) \cap Queued(p) = {}
          /\ \A v \in me.deps : v \in PlanIds \X Functions /\ v[2] \in plans[v[1]].define /\ (v[1] = p \/ Dead(p))
          /\ \A g \in Wanted(c) \ me.claimed : Ready(g) \/ <<p, g>> \in failed \/ \E v \in me.deps : v[2] = g
      BY <1>9, <2>1 DEF DepWait, At, CallerInv, Assisting
    <3>2. UNCHANGED table  BY <1>9 DEF DepWait
    <3>3. plans' = plans /\ PlanIds' = PlanIds /\ Queued(p)' = Queued(p) /\ failed' = failed /\ \A f \in Functions : Ready(f)' <=> Ready(f)
      BY <3>2 DEF table, PlanIds, Queued, Ready
    <3>4. /\ caller'[c].pc = (IF me.deps = {w} THEN "generate" ELSE "depwait") /\ caller'[c].work = p /\ caller'[c].claimed = me.claimed
          /\ caller'[c].deps = me.deps \ {w}
      <4>1. me.pc = "depwait"  BY <1>9 DEF DepWait, At
      <4> QED  BY <1>0, <2>1, <2>4, <4>1 DEF CallerSet
    <3>5. Wanted(c)' = Wanted(c) /\ Wanted(c) \subseteq plans[p].define /\ plans[p].define \subseteq Functions
      <4>1. Wanted(c)' = Wanted(c)
        BY <2>1, <3>1, <3>3, <3>4 DEF Wanted, Closure
      <4>2. Wanted(c) \subseteq plans[p].define
        BY <2>1, ClosureInside DEF Wanted
      <4>3. plans[p].define \subseteq Functions
        BY <3>1, PlanParts DEF TypeOK
      <4> QED  BY <4>1, <4>2, <4>3
    <3>6. Ready(w[2])
      BY <2>2, <2>4, <3>1, WaiterTold
    <3>7. Dead(p) => Dead(p)'
      BY <3>1 DEF Kept, Dead
    <3>8. Queued(caller[c].work)' = Queued(p)' /\ Dead(caller[c].work)' = Dead(p)'
      BY <3>4 DEF Queued, Dead, By
    <3>9. \A g \in Wanted(c)' \ me.claimed : Ready(g)' \/ <<p, g>> \in failed' \/ (me.deps # {w} /\ \E v \in me.deps \ {w} : v[2] = g)
      <4> SUFFICES ASSUME NEW g \in Wanted(c) \ me.claimed, ~Ready(g), <<p, g>> \notin failed
                   PROVE  me.deps # {w} /\ \E v \in me.deps \ {w} : v[2] = g
        BY <3>3, <3>5
      <4>1. PICK v \in me.deps : v[2] = g  BY <3>1
      <4>2. v # w  BY <3>6, <4>1
      <4> QED  BY <4>1, <4>2
    <3> HIDE DEF me
    <3>10. caller'[c].pc \in {"depwait", "generate"} /\ (At(c, "depwait")' => me.deps # {w})
      BY <3>4 DEF At
    <3>11. caller'[c].work \in PlanIds' /\ ~plans'[caller'[c].work].broken
      BY <3>1, <3>3, <3>4
    <3>12. plans'[caller'[c].work].attached /\ Target[c] \in plans'[caller'[c].work].define
      BY <3>1, <3>3, <3>4
    <3>13. /\ Target[c] \in caller'[c].claimed /\ caller'[c].claimed \subseteq Wanted(c)'
           /\ Wanted(c)' \cap Queued(caller[c].work)' = {}
      BY <3>1, <3>3, <3>4, <3>5, <3>8
    <3>14. \A v \in caller'[c].deps : /\ v \in PlanIds' \X Functions /\ v[2] \in plans'[v[1]].define
                                      /\ v[1] = caller'[c].work \/ Dead(caller[c].work)'
      BY <3>1, <3>3, <3>4, <3>7, <3>8
    <3>15. \A g \in Wanted(c)' \ caller'[c].claimed :
             \/ Ready(g)' \/ <<caller'[c].work, g>> \in failed'
             \/ At(c, "depwait")' /\ \E v \in caller'[c].deps : v[2] = g
      BY <3>4, <3>9 DEF At
    <3> QED  BY <3>10, <3>11, <3>12, <3>13, <3>14, <3>15 DEF CallerInv, Assisting
  <2> QED  BY <2>2, <2>3, <2>4
<1>10. CASE Generate(c)
  <2>1. CASE Goto(c, "fail")
    BY <1>10, <1>c, <2>1 DEF Generate, At
  <2>2. CASE Goto(c, "publish")
    <3>1. PICK p : p = me.work  OBVIOUS
    <3>2. /\ p \in PlanIds /\ ~plans[p].broken /\ plans[p].attached /\ Target[c] \in plans[p].define
          /\ Target[c] \in me.claimed /\ me.claimed \subseteq Wanted(c) /\ Wanted(c) \cap Queued(p) = {}
          /\ \A g \in Wanted(c) \ me.claimed : Ready(g) \/ <<p, g>> \in failed
      BY <1>10, <3>1 DEF Generate, At, CallerInv, Assisting
    <3>3. UNCHANGED table  BY <1>10 DEF Generate
    <3>4. plans' = plans /\ PlanIds' = PlanIds /\ Queued(p)' = Queued(p) /\ failed' = failed /\ \A f \in Functions : Ready(f)' <=> Ready(f)
      BY <3>3 DEF table, PlanIds, Queued, Ready
    <3>5. caller'[c].pc = "publish" /\ caller'[c].work = p /\ caller'[c].claimed = me.claimed
      BY <1>0, <2>2, <3>1 DEF Goto, CallerSet
    <3>6. Wanted(c)' = Wanted(c) /\ Wanted(c) \subseteq plans[p].define /\ plans[p].define \subseteq Functions
      <4>1. Wanted(c)' = Wanted(c)
        BY <3>1, <3>2, <3>4, <3>5 DEF Wanted, Closure
      <4>2. Wanted(c) \subseteq plans[p].define
        BY <3>1, ClosureInside DEF Wanted
      <4>3. plans[p].define \subseteq Functions
        BY <3>2, PlanParts DEF TypeOK
      <4> QED  BY <4>1, <4>2, <4>3
    <3>7. Queued(caller[c].work)' = Queued(p)'
      BY <3>5 DEF Queued
    <3>8. \A g \in Wanted(c)' \ me.claimed : Ready(g)' \/ <<p, g>> \in failed'
      BY <3>2, <3>4, <3>6
    <3> HIDE DEF me
    <3> QED  BY <3>2, <3>4, <3>5, <3>6, <3>7, <3>8 DEF CallerInv, At, Assisting
  <2> QED  BY <1>10, <2>1, <2>2 DEF Generate
<1>11. CASE Publish(c)
  <2>1. CASE Goto(c, "fail")
    BY <1>11, <1>c, <2>1 DEF Publish, At
  <2>2. CASE caller' = [caller EXCEPT ![c].pc = "wait", ![c].claimed = {}]
    <3>1. caller'[c].pc = "wait"  BY <1>0, <2>2 DEF CallerSet
    <3> QED  BY <3>1, CallerFree
  <2> QED  BY <1>11, <2>1, <2>2 DEF Publish
<1>12. CASE WaitResult(c)
  <2>1. CASE \E ok : Return(c, ok)
    BY <1>a, <2>1
  <2>2. CASE caller' = [caller EXCEPT ![c].errors = IF Waiter(c) \in failed THEN @ + 1 ELSE @, ![c].pc = "try"]
    <3>1. caller'[c].pc = "try"  BY <1>0, <2>2 DEF CallerSet
    <3> QED  BY <3>1, CallerFree
  <2> QED  BY <1>12, <2>1, <2>2 DEF WaitResult
<1> QED  BY <1>1, <1>2, <1>3, <1>4, <1>5, <1>6, <1>7, <1>8, <1>9, <1>10, <1>11, <1>12 DEF CallerNext

--------------------------------------------------------------------------------
(* What the background thread knows of its batch.                           *)

\* It stays true under the steps of the callers.
LEMMA BgFrame ==
    ASSUME TypeOK, TableInv, Kept, UNCHANGED <<bg, stop, worker, chan>>, BgInv PROVE BgInv'
<1>0. PICK p : p = bg.plan  OBVIOUS
<1>1. Active' = Active /\ Running' = Running /\ InFlight' = InFlight /\ Bad' = Bad
  BY DEF Active, Running, InFlight, Group, Bad
<1>2. Active => /\ p \in PlanIds /\ p \in PlanIds' /\ ~plans'[p].broken /\ plans'[p].define = plans[p].define
                /\ Define' = Define /\ Define \subseteq Functions /\ Define \subseteq Module
  BY <1>0, PlanParts DEF BgInv, Kept, Define, TypeOK
<1>3. bg.pc \in {"attach", "plan"} => ~plans'[p].attached
  BY <1>0, <1>2 DEF BgInv, Kept, Active
<1>4. Running => /\ plans'[p].attached /\ Queued(p)' \subseteq Queued(p) /\ Active
                 /\ \A f \in Define : f \in bg.remaining \/ Ready(f)'
  BY <1>0, <1>2 DEF BgInv, Kept, Active
<1>5. bg.pc \in {"commit", "last"} => \A f \in bg.group : \A g \in Calls[f] \cap Define : g \in bg.group \/ Ready(g)'
  <2>1. bg.pc \in {"commit", "last"} => Active
    BY DEF Active, Running
  <2> QED  BY <1>2, <2>1 DEF BgInv, Kept
<1>6. bg'.plan = p /\ Queued(bg.plan)' = Queued(p)' /\ Queued(bg.plan) = Queued(p)
  BY <1>0 DEF Queued
<1>7. Running => \A w \in Workers : worker[w].pc = "exit" => stop \/ Queued(p)' = {}
  BY <1>4, <1>6 DEF BgInv
<1>8. bg.pc \in {"commit", "last"} => Active
  BY DEF Active, Running
<1> QED  BY <1>0, <1>1, <1>2, <1>3, <1>4, <1>5, <1>6, <1>7, <1>8 DEF BgInv

\* The parts of what is in flight.
Compiled == {worker[w].f : w \in {v \in Workers : worker[v].pc = "compile"}}
Sent == {chan[i].f : i \in 1..Len(chan)}

\* It stays true under the steps of the workers.
LEMMA BgWorkers ==
    ASSUME TypeOK, TableInv, Kept, BgInv, NEW w \in Workers, WorkerNext(w)
    PROVE  /\ BgInv'
           /\ InFlight \cup Queued(bg.plan) = InFlight' \cup Queued(bg.plan)'
           /\ InFlight \subseteq InFlight'
<1> DEFINE States == [pc : {"loop", "pop", "compile", "exit"}, f : Functions]
<1>0. worker \in [Workers -> States]
  BY DEF TypeOK
<1>a. bg.pc \in {"collect", "commit"} /\ Running /\ Active /\ bg.plan \in PlanIds
  BY DEF BgInv, WorkerNext, WorkerCheck, WorkerPop, WorkerCompile, Running, Active
<1>b. PICK p : p = bg.plan  OBVIOUS
<1>c. /\ bg' = bg /\ p \in PlanIds /\ p \in PlanIds' /\ ~plans'[p].broken /\ plans'[p].define = plans[p].define
      /\ plans[p].attached /\ plans'[p].attached /\ Queued(p)' \subseteq Queued(p) /\ Queued(p) \subseteq plans[p].define
      /\ Define' = Define /\ Define = plans[p].define /\ Define \subseteq Functions /\ Define \subseteq Module
      /\ \A f \in Functions : Ready(f) => Ready(f)'
  <2>1. bg' = bg  BY DEF WorkerNext, WorkerCheck, WorkerPop, WorkerCompile
  <2>2. p \in PlanIds /\ ~plans[p].broken /\ plans[p].attached /\ Define = plans[p].define /\ Define \subseteq Module
    BY <1>a, <1>b DEF BgInv, Define
  <2>3. Define \subseteq Functions  BY <2>2, PlanParts DEF TypeOK
  <2>4. /\ p \in PlanIds' /\ plans'[p].define = plans[p].define /\ plans'[p].broken = plans[p].broken
        /\ plans'[p].attached /\ Queued(p)' \subseteq Queued(p) /\ \A f \in Functions : Ready(f) => Ready(f)'
    BY <2>2 DEF Kept
  <2>5. Define' = Define  BY <1>b, <2>1, <2>2, <2>4 DEF Define
  <2>6. Queued(p) \subseteq plans[p].define  BY <2>2 DEF TableInv
  <2> QED  BY <2>1, <2>2, <2>3, <2>4, <2>5, <2>6
<1>d. Queued(bg.plan)' = Queued(p)' /\ Queued(bg.plan) = Queued(p)
  BY <1>b, <1>c DEF Queued
<1>e. InFlight = Compiled \cup Sent \cup bg.pending \cup Group /\ InFlight' = Compiled' \cup Sent' \cup bg.pending \cup Group
  BY <1>c DEF InFlight, Compiled, Sent, Group
<1>f. ASSUME InFlight' \subseteq Define, \A v \in Workers : worker'[v].pc = "exit" => stop' \/ Queued(p)' = {}, stop' => bg.error \/ Bad'
      PROVE  BgInv'
  <2>1. \A f \in Define : f \in bg.remaining \/ Ready(f)'
    BY <1>a, <1>c DEF BgInv
  <2>2. bg.pc = "commit" => ~bg.error /\ \A f \in bg.group : \A g \in Calls[f] \cap Define : g \in bg.group \/ Ready(g)'
    BY <1>c DEF BgInv
  <2>3. bg'.pc = bg.pc /\ Running' /\ Active' /\ bg'.plan = p /\ bg.pc \notin {"attach", "plan", "last"}
    BY <1>a, <1>b, <1>c DEF Running, Active
  <2> QED  BY <1>a, <1>c, <1>d, <1>f, <2>1, <2>2, <2>3 DEF BgInv
<1>g. /\ \A v \in Workers : worker[v].pc = "exit" => stop \/ Queued(p) = {}
      /\ stop => bg.error \/ Bad
      /\ InFlight \subseteq Define
  BY <1>a, <1>d DEF BgInv
<1>1. CASE WorkerCheck(w)
  <2>1. worker' = [worker EXCEPT ![w].pc = IF stop THEN "exit" ELSE "pop"] /\ worker[w].pc = "loop" /\ stop' = stop /\ chan' = chan /\ plans' = plans
    BY <1>1 DEF WorkerCheck, table
  <2>2. /\ \A v \in Workers : v # w => worker'[v] = worker[v]
        /\ worker'[w].pc = IF stop THEN "exit" ELSE "pop"
    BY <1>0, <2>1
  <2>3. Compiled' = Compiled
    BY <2>1, <2>2, SMTT(20) DEF Compiled
  <2>4. Sent' = Sent /\ Bad' = Bad /\ Queued(p)' = Queued(p)
    BY <2>1 DEF Sent, Bad, Queued
  <2>5. InFlight' = InFlight
    BY <1>e, <2>3, <2>4
  <2>6. \A v \in Workers : worker'[v].pc = "exit" => stop' \/ Queued(p)' = {}
    BY <1>g, <2>1, <2>2, <2>4, SMTT(20)
  <2> QED  BY <1>d, <1>f, <1>g, <2>1, <2>4, <2>5, <2>6
<1>2. CASE WorkerPop(w) /\ plans[bg.plan].queue = <<>>
  <2>1. worker' = [worker EXCEPT ![w].pc = "exit"] /\ worker[w].pc = "pop" /\ stop' = stop /\ chan' = chan /\ plans' = plans
    BY <1>2 DEF WorkerPop
  <2>2. /\ \A v \in Workers : v # w => worker'[v] = worker[v]
        /\ worker'[w].pc = "exit"
    BY <1>0, <2>1
  <2>3. Compiled' = Compiled
    BY <2>1, <2>2, SMTT(20) DEF Compiled
  <2>4. Sent' = Sent /\ Bad' = Bad /\ Queued(p)' = Queued(p)
    BY <2>1 DEF Sent, Bad, Queued
  <2>5. Queued(p) = {}
    BY <1>2, <1>b, SMTT(20) DEF Queued
  <2>6. InFlight' = InFlight
    BY <1>e, <2>3, <2>4
  <2>7. \A v \in Workers : worker'[v].pc = "exit" => stop' \/ Queued(p)' = {}
    BY <2>4, <2>5
  <2> QED  BY <1>d, <1>f, <1>g, <2>1, <2>4, <2>6, <2>7
<1>3. CASE WorkerPop(w) /\ plans[bg.plan].queue # <<>>
  <2>1. /\ worker' = [worker EXCEPT ![w] = [pc |-> "compile", f |-> Head(plans[p].queue)]]
        /\ worker[w].pc = "pop" /\ stop' = stop /\ chan' = chan
    BY <1>3, <1>b DEF WorkerPop
  <2>2. /\ \A v \in Workers : v # w => worker'[v] = worker[v]
        /\ worker'[w].pc = "compile" /\ worker'[w].f = Head(plans[p].queue)
    BY <1>0, <2>1
  <2>3. Compiled' = Compiled \cup {Head(plans[p].queue)}
    BY <2>1, <2>2, SMTT(20) DEF Compiled
  <2>4. Sent' = Sent /\ Bad' = Bad
    BY <2>1 DEF Sent, Bad
  <2>5. Head(plans[p].queue) \in Queued(p) /\ Queued(p) = Queued(p)' \cup {Head(plans[p].queue)}
    BY <1>3, <1>b, PopQueue
  <2>6. InFlight' = InFlight \cup {Head(plans[p].queue)}
    BY <1>e, <2>3, <2>4
  <2>7. \A v \in Workers : worker'[v].pc = "exit" => stop' \/ Queued(p)' = {}
    BY <1>c, <1>g, <2>1, <2>2
  <2>8. InFlight' \subseteq Define
    BY <1>c, <1>g, <2>5, <2>6
  <2> QED  BY <1>d, <1>f, <1>g, <2>1, <2>4, <2>5, <2>6, <2>7, <2>8
<1>4. CASE WorkerCompile(w)
  <2>1. PICK b \in BOOLEAN : /\ chan' = Append(chan, [f |-> worker[w].f, ok |-> b])
                             /\ worker' = [worker EXCEPT ![w].pc = IF b THEN "loop" ELSE "exit"]
                             /\ stop' = IF b THEN stop ELSE TRUE
    BY <1>4 DEF WorkerCompile
  <2>2. plans' = plans /\ worker[w].pc = "compile"
    BY <1>4 DEF WorkerCompile, table
  <2>3. /\ \A v \in Workers : v # w => worker'[v] = worker[v]
        /\ worker'[w].pc # "compile" /\ (worker'[w].pc = "exit" => stop')
    BY <1>0, <2>1
  <2>4. Compiled \cup {worker[w].f} = Compiled' \cup {worker[w].f} /\ worker[w].f \in Compiled
    BY <2>2, <2>3, SMTT(20) DEF Compiled
  <2>5. /\ Len(chan') = Len(chan) + 1 /\ Len(chan) \in Nat
        /\ \A i \in 1..Len(chan) : chan'[i] = chan[i]
        /\ chan'[Len(chan) + 1] = [f |-> worker[w].f, ok |-> b]
    <3> DEFINE m == [f |-> worker[w].f, ok |-> b]
               Messages == [f : Functions, ok : BOOLEAN]
    <3>1. chan \in Seq(Messages) /\ m \in Messages /\ chan' = Append(chan, m)
      BY <1>0, <2>1 DEF TypeOK
    <3> HIDE DEF m, Messages
    <3>2. /\ Len(chan') = Len(chan) + 1 /\ Len(chan) \in Nat
          /\ \A i \in 1..Len(chan) : chan'[i] = chan[i]
          /\ chan'[Len(chan) + 1] = m
      BY <3>1, SMTT(20)
    <3> QED  BY <3>2 DEF m
  <2>6. Sent' = Sent \cup {worker[w].f}
    BY <2>5, SMTT(20) DEF Sent
  <2>7. (Bad => Bad') /\ (~b => Bad')
    BY <2>5, SMTT(20) DEF Bad
  <2>8. InFlight' = InFlight
    BY <1>e, <2>4, <2>6
  <2>9. Queued(p)' = Queued(p)
    BY <2>2 DEF Queued
  <2>10. \A v \in Workers : worker'[v].pc = "exit" => stop' \/ Queued(p)' = {}
    BY <1>g, <2>1, <2>3, <2>9
  <2>11. stop' => bg.error \/ Bad'
    BY <1>g, <2>1, <2>7
  <2> QED  BY <1>d, <1>f, <1>g, <2>8, <2>9, <2>10, <2>11
<1> QED  BY <1>1, <1>2, <1>3, <1>4 DEF WorkerNext
================================================================================
