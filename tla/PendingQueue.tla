------------------------------ MODULE PendingQueue ------------------------------
(***************************************************************************)
(* What the pending registry of a strict module promises: two queues of    *)
(* weakly held objects, each entry carrying the object's own kind and the  *)
(* invocation that gave birth to it.  Nothing here recycles storage.       *)
(***************************************************************************)
EXTENDS Naturals, Sequences, SequenceOps

CONSTANTS Objects, Kinds, ClassKinds, KindOf, Invocations, NoInv

VARIABLES queue,     \* entries awaiting finalization, in declaration order
          caps,      \* entries awaiting capability publication
          request,   \* the removal in progress, or the empty request
          open       \* the owner accepts operations

queueVars == <<queue, caps, request, open>>

Entries == [obj : Objects, kind : Kinds, inv : Invocations \cup {NoInv}]
NoRequest == [kind |-> {}, inv |-> {}, doomed |-> {}]
Requests == [kind : SUBSET Kinds, inv : SUBSET (Invocations \cup {NoInv}), doomed : SUBSET Objects]

\* A drain names the kinds and the birth invocations it may consume.
Selections ==
    {[kinds |-> Kinds, invs |-> Invocations \cup {NoInv}]}
    \cup {[kinds |-> K, invs |-> {v}] :
              K \in {Kinds, ClassKinds} \cup {{k} : k \in ClassKinds}, v \in Invocations}

Matches(e, sel) == e.kind \in sel.kinds /\ e.inv \in sel.invs

QueueInit == queue = <<>> /\ caps = <<>> /\ request = NoRequest /\ open = TRUE

Enqueue(o, v) ==
    /\ open
    /\ queue' = Append(queue, [obj |-> o, kind |-> KindOf[o], inv |-> v])
    /\ UNCHANGED <<caps, request, open>>

\* A replacement goes just before its original and belongs to its invocation.
EnqueueBefore(i, o) ==
    /\ open /\ i \in 1..Len(queue) /\ queue[i].kind = KindOf[o]
    /\ queue' = InsertAt(queue, i, [obj |-> o, kind |-> KindOf[o], inv |-> queue[i].inv])
    /\ UNCHANGED <<caps, request, open>>

Defer(o) ==
    /\ open
    /\ caps' = Append(caps, [obj |-> o, kind |-> KindOf[o], inv |-> NoInv])
    /\ UNCHANGED <<queue, request, open>>

\* A drain consumes the earliest entry it selects and no other.
Take(sel, i) ==
    /\ open /\ i \in 1..Len(queue) /\ Matches(queue[i], sel)
    /\ \A j \in 1..(i - 1) : ~Matches(queue[j], sel)
    /\ queue' = RemoveAt(queue, i)
    /\ UNCHANGED <<caps, request, open>>

TakeCapability ==
    /\ open /\ caps # <<>>
    /\ caps' = Tail(caps)
    /\ UNCHANGED <<queue, request, open>>

SetRequest ==
    /\ request' \in Requests
    /\ UNCHANGED <<queue, caps, open>>

\* A removal takes only the objects it was asked for, in the scope it was asked.
RemoveEntry(i) ==
    /\ open /\ i \in 1..Len(queue)
    /\ queue[i].kind \in request.kind /\ queue[i].inv \in request.inv
    /\ queue[i].obj \in request.doomed
    /\ queue' = RemoveAt(queue, i)
    /\ UNCHANGED <<caps, open>>
    /\ request' \in {request, NoRequest}

Close == open /\ open' = FALSE /\ queue' = <<>> /\ caps' = <<>> /\ UNCHANGED request

QueueNext ==
    \/ \E o \in Objects, v \in Invocations \cup {NoInv} : Enqueue(o, v)
    \/ \E o \in Objects, i \in 1..Len(queue) : EnqueueBefore(i, o)
    \/ \E o \in Objects : Defer(o)
    \/ \E sel \in Selections, i \in 1..Len(queue) : Take(sel, i)
    \/ \E i \in 1..Len(queue) : RemoveEntry(i)
    \/ TakeCapability \/ SetRequest \/ Close

QueueSpec == QueueInit /\ [][QueueNext]_queueVars
================================================================================
