---------------------------- MODULE TopValueCounter ----------------------------
(***************************************************************************)
(* The fixed-capacity profile counters (counter.rs): Counter<N, T>, and    *)
(* TopValueCounter, which is the same with two slots.  The counter sees a  *)
(* stream of values and keeps N of them; `seen` is the exact count of each *)
(* value in the stream so far.  A counter of capacity zero ignores its     *)
(* input and is left out.                                                  *)
(***************************************************************************)
EXTENDS Integers

CONSTANTS Values,
          Zero,       \* what an unoccupied slot holds
          N,          \* capacity
          MaxRecords  \* bound on the length of the stream

ASSUME CounterAssumption == N \in Nat \ {0} /\ MaxRecords \in Nat /\ Zero \in Values

VARIABLES slots, seen, total

counterVars == <<slots, seen, total>>

Slots == 1..N
Slot(v, count, over) == [occupied |-> TRUE, value |-> v, approx_count |-> count, max_overcount |-> over]

CounterInit == /\ slots = [i \in Slots |-> [occupied |-> FALSE, value |-> Zero, approx_count |-> 0, max_overcount |-> 0]]
               /\ seen = [v \in Values |-> 0] /\ total = 0

Holds(i, v) == slots[i].occupied /\ slots[i].value = v
Tracked(v) == \E i \in Slots : Holds(i, v)
Full == \A i \in Slots : slots[i].occupied

\* CounterEntry::lower_bound, a saturating subtraction.
LowerBound(s) == IF s.max_overcount > s.approx_count THEN 0 ELSE s.approx_count - s.max_overcount

\* min_slot_index: the first slot with the least count.
MinSlot(i) == /\ i \in Slots /\ \A j \in Slots : slots[i].approx_count <= slots[j].approx_count
              /\ \A j \in 1..(i - 1) : slots[i].approx_count < slots[j].approx_count

Hit(v) == \E i \in Slots :
    /\ Holds(i, v)
    /\ slots' = [slots EXCEPT ![i] = Slot(v, slots[i].approx_count + 1, slots[i].max_overcount)]

Fill(v) == \E i \in Slots :
    /\ ~Tracked(v) /\ ~slots[i].occupied /\ \A j \in 1..(i - 1) : slots[j].occupied
    /\ slots' = [slots EXCEPT ![i] = Slot(v, 1, 0)]

\* Mutant: the count inherited from the displaced value is not accounted for.
DisplaceForgets(v) == \E i \in Slots :
    /\ ~Tracked(v) /\ Full /\ MinSlot(i)
    /\ slots' = [slots EXCEPT ![i] = Slot(v, slots[i].approx_count + 1, 0)]

\* Mutant: the displaced slot need not be the least.
DisplaceFirst(v) == \E i \in Slots :
    /\ ~Tracked(v) /\ Full /\ i = 1
    /\ slots' = [slots EXCEPT ![i] = Slot(v, slots[i].approx_count + 1, slots[i].approx_count)]

Displace(v) == \E i \in Slots :
    /\ ~Tracked(v) /\ Full /\ MinSlot(i)
    /\ slots' = [slots EXCEPT ![i] = Slot(v, slots[i].approx_count + 1, slots[i].approx_count)]

record(v) ==
    /\ total < MaxRecords /\ total' = total + 1 /\ seen' = [seen EXCEPT ![v] = @ + 1]
    /\ Hit(v) \/ Fill(v) \/ Displace(v)

CounterNext == \E v \in Values : record(v)

CounterSpec == CounterInit /\ [][CounterNext]_counterVars

--------------------------------------------------------------------------------
\* Types; an occupied slot has counted at least one value.
CounterTypeOK == /\ slots \in [Slots -> [occupied : BOOLEAN, value : Values, approx_count : Nat, max_overcount : Nat]]
                 /\ seen \in [Values -> Nat] /\ total \in 0..MaxRecords
                 /\ \A i \in Slots : slots[i].occupied => slots[i].approx_count > 0

\* What the doc comment of Counter promises of every slot: approx_count is an
\* upper bound on the true count, and it exceeds it by at most max_overcount.
Bracketed == \A i \in Slots : slots[i].occupied =>
    /\ LowerBound(slots[i]) <= seen[slots[i].value]
    /\ seen[slots[i].value] <= slots[i].approx_count

\* A value that makes up more than one Nth of the stream is in a slot, however
\* the stream was ordered.
HeavyHittersKept == \A v \in Values : N * seen[v] > total => Tracked(v)
================================================================================
