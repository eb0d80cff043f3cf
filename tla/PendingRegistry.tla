---------------------------- MODULE PendingRegistry ----------------------------
(***************************************************************************)
(* The registry of functions and classes that await finalization, from     *)
(* crates/soac_jit/src/strict_module.rs.  A record names an edge index of  *)
(* the owner's GC-visible edge vector; the edge holds a weak reference, is *)
(* set to None when the record goes, and is recycled through a LIFO list.  *)
(* Between two steps arbitrary Python code may run: it may register, drain *)
(* or remove other records, and objects may die.                           *)
(***************************************************************************)
EXTENDS Naturals, Sequences, SequenceOps

CONSTANTS Objects,      \* functions and classes the module may create
          Kinds,        \* StrictPendingKind values
          ClassKinds,   \* those of them that are Class { source }
          KindOf,       \* the kind each object is registered under
          Invocations,  \* native invocation identities
          NoInv,        \* interpreter_invocation = None
          NoRef         \* an edge that holds None

ASSUME RegistryAssumption ==
    /\ KindOf \in [Objects -> Kinds]
    /\ ClassKinds \subseteq Kinds
    /\ NoInv \notin Invocations /\ NoRef \notin Objects

VARIABLES records,       \* PendingRegistry.records
          capabilities,  \* PendingRegistry.capabilities
          freeEdges,     \* PendingRegistry.free_edges
          edges,         \* the owner's reference vector: weak targets or NoRef
          status,        \* unborn, live, or dead: what a weak upgrade would see
          held,          \* objects a drain has upgraded and still works on
          scan,          \* the remove_pending_matching call in progress
          ownerLive      \* the owner's StrictStateRef is not terminal

vars == <<records, capabilities, freeEdges, edges, status, held, scan, ownerLive>>

Scopes == Invocations \cup {NoInv}
Record(k, e, v) == [kind |-> k, edge |-> e, inv |-> v]
NoScan == [kind |-> {}, inv |-> {}, doomed |-> {}, todo |-> <<>>]

Init == /\ records = <<>> /\ capabilities = <<>> /\ freeEdges = <<>> /\ edges = <<>>
        /\ status = [o \in Objects |-> "unborn"]
        /\ held = {} /\ scan = NoScan /\ ownerLive = TRUE

--------------------------------------------------------------------------------
(* Edges: register_pending_at_phase takes a recycled edge if there is one.  *)

TakenEdge == IF freeEdges = <<>> THEN Len(edges) + 1 ELSE Last(freeEdges)

PointEdgeAt(o) ==
    IF freeEdges = <<>>
    THEN edges' = Append(edges, o) /\ UNCHANGED freeEdges
    ELSE edges' = [edges EXCEPT ![Last(freeEdges)] = o] /\ freeEdges' = Front(freeEdges)

\* Mutant: the edge is recycled without being set to None first.
ReleaseEdgeStillSet(e) ==
    freeEdges' = Append(freeEdges, e) /\ UNCHANGED edges

ReleaseEdge(e) ==
    edges' = [edges EXCEPT ![e] = NoRef] /\ freeEdges' = Append(freeEdges, e)

--------------------------------------------------------------------------------
(* Registration.                                                            *)

Birth(o) == status[o] = "unborn" /\ status' = [status EXCEPT ![o] = "live"]

\* register_pending / register_interpreter_pending of a new object.
Register(o, v) ==
    /\ ownerLive /\ Birth(o)
    /\ PointEdgeAt(o)
    /\ records' = Append(records, Record(KindOf[o], TakenEdge, v))
    /\ UNCHANGED <<capabilities, held, scan, ownerLive>>

\* register_pending_before: the replacement precedes its live original, in the
\* original's invocation; without a live original of its kind it is refused.
RegisterBefore(o, original) ==
    /\ ownerLive /\ Birth(o) /\ status[original] = "live"
    /\ \E i \in DOMAIN records :
         /\ edges[records[i].edge] = original /\ records[i].kind = KindOf[o]
         /\ PointEdgeAt(o)
         /\ records' = InsertAt(records, i, Record(KindOf[o], TakenEdge, records[i].inv))
    /\ UNCHANGED <<capabilities, held, scan, ownerLive>>

\* defer_capability_publication for an object whose finalization just succeeded.
DeferCapability(o) ==
    /\ ownerLive /\ o \in held
    /\ PointEdgeAt(o)
    /\ capabilities' = Append(capabilities, Record(KindOf[o], TakenEdge, NoInv))
    /\ held' = held \ {o}
    /\ UNCHANGED <<records, status, scan, ownerLive>>

--------------------------------------------------------------------------------
(* Draining: one iteration of next_pending_matching.                        *)

Selections ==
    {[kinds |-> Kinds, invs |-> Scopes]}
    \cup {[kinds |-> K, invs |-> {v}] :
              K \in {Kinds, ClassKinds} \cup {{k} : k \in ClassKinds}, v \in Invocations}

\* Mutant: a drain recognizes its children by kind alone.
MatchesKindOnly(r, sel) == r.kind \in sel.kinds

Matches(r, sel) == r.kind \in sel.kinds /\ r.inv \in sel.invs

Upgraded(e) == {edges[e]} \cap {o \in Objects : status[o] = "live"}

\* The first selected record goes; a live target is handed to the caller, a
\* dead one sends the caller round the loop again.
NextPending(sel) ==
    /\ ownerLive
    /\ \E i \in DOMAIN records :
         /\ Matches(records[i], sel)
         /\ \A j \in 1..(i - 1) : ~Matches(records[j], sel)
         /\ records' = RemoveAt(records, i)
         /\ ReleaseEdge(records[i].edge)
         /\ held' = held \cup Upgraded(records[i].edge)
    /\ UNCHANGED <<capabilities, status, scan, ownerLive>>

NextCapability ==
    /\ ownerLive /\ capabilities # <<>>
    /\ capabilities' = Tail(capabilities)
    /\ ReleaseEdge(Head(capabilities).edge)
    /\ UNCHANGED <<records, status, held, scan, ownerLive>>

\* The caller is done with an upgraded target (finalized or refused).
Settle(o) ==
    /\ o \in held /\ held' = held \ {o}
    /\ UNCHANGED <<records, capabilities, freeEdges, edges, status, scan, ownerLive>>

--------------------------------------------------------------------------------
(* remove_pending and remove_pending_matching: a snapshot of candidate      *)
(* edges, then one candidate at a time; releasing an upgraded target may    *)
(* run finalizers before the next candidate is looked at.                   *)

InScope(r, s) == r.kind \in s.kind /\ r.inv \in s.inv

CandidateEdges(s) ==
    LET chosen == Keep(records, {r \in Range(records) : InScope(r, s)})
    IN  [i \in DOMAIN chosen |-> chosen[i].edge]

BeginRemove(k, vs, doomed) ==
    /\ ownerLive /\ scan = NoScan
    /\ LET s == [kind |-> {k}, inv |-> vs, doomed |-> doomed, todo |-> <<>>]
       IN  /\ CandidateEdges(s) # <<>>
           /\ scan' = [s EXCEPT !.todo = CandidateEdges(s)]
    /\ UNCHANGED <<records, capabilities, freeEdges, edges, status, held, ownerLive>>

NextScan == IF Len(scan.todo) <= 1 THEN NoScan ELSE [scan EXCEPT !.todo = Tail(@)]

\* The record that still owns the candidate edge, if it is one to remove.
Removable(i) ==
    /\ records[i].edge = Head(scan.todo)
    /\ InScope(records[i], scan)
    /\ Upgraded(records[i].edge) \cap scan.doomed # {}

RemoveStep ==
    /\ ownerLive /\ scan # NoScan
    /\ \/ \E i \in DOMAIN records :
            /\ Removable(i)
            /\ records' = RemoveAt(records, i)
            /\ ReleaseEdge(records[i].edge)
       \/ /\ \A i \in DOMAIN records : ~Removable(i)
          /\ UNCHANGED <<records, freeEdges, edges>>
    /\ scan' = NextScan
    /\ UNCHANGED <<capabilities, status, held, ownerLive>>

\* The owner became terminal while the removal was suspended: it reports that.
AbandonRemove ==
    /\ ~ownerLive /\ scan # NoScan /\ scan' = NoScan
    /\ UNCHANGED <<records, capabilities, freeEdges, edges, status, held, ownerLive>>

--------------------------------------------------------------------------------
\* External: an object with no strong reference left is deallocated.
Die(o) ==
    /\ status[o] = "live" /\ o \notin held
    /\ status' = [status EXCEPT ![o] = "dead"]
    /\ UNCHANGED <<records, capabilities, freeEdges, edges, held, scan, ownerLive>>

\* take_references: the owner turns terminal and gives up its edge vector.
OwnerTerminal ==
    /\ ownerLive /\ ownerLive' = FALSE /\ edges' = <<>>
    /\ UNCHANGED <<records, capabilities, freeEdges, status, held, scan>>

Next ==
    \/ \E o \in Objects : \/ \E v \in Scopes : Register(o, v)
                          \/ \E b \in Objects : RegisterBefore(o, b)
                          \/ DeferCapability(o) \/ Settle(o) \/ Die(o)
    \/ \E sel \in Selections : NextPending(sel)
    \/ NextCapability
    \/ \E k \in Kinds, vs \in {Scopes} \cup {{v} : v \in Invocations} :
         \E doomed \in (SUBSET {o \in Objects : KindOf[o] = k}) \ {{}} : BeginRemove(k, vs, doomed)
    \/ RemoveStep \/ AbandonRemove \/ OwnerTerminal

Spec == Init /\ [][Next]_vars

--------------------------------------------------------------------------------
(* Properties.                                                              *)

EdgeOf(rs) == {rs[i].edge : i \in DOMAIN rs}
DistinctEdges(rs) == \A i, j \in DOMAIN rs : rs[i].edge = rs[j].edge => i = j
UsedEdges == EdgeOf(records) \cup EdgeOf(capabilities)
FreeSet == Range(freeEdges)

CoreTyped ==
    /\ records \in Seq([kind : Kinds, edge : Nat \ {0}, inv : Scopes])
    /\ capabilities \in Seq([kind : Kinds, edge : Nat \ {0}, inv : Scopes])
    /\ freeEdges \in Seq(Nat \ {0}) /\ edges \in Seq(Objects \cup {NoRef})
    /\ status \in [Objects -> {"unborn", "live", "dead"}]
    /\ held \subseteq Objects /\ ownerLive \in BOOLEAN

\* Every variable keeps the type of its Rust counterpart.
TypeOK ==
    /\ CoreTyped
    /\ scan \in [kind : SUBSET Kinds, inv : SUBSET Scopes, doomed : SUBSET Objects,
                 todo : Seq(Nat \ {0})]

\* Recycling is sound while the owner lives: each edge of the vector is either
\* free, exactly once and cleared, or owned by exactly one record of one of the
\* two queues and pointing at an object, so no record can come to stand for
\* another record's object.
EdgeOwnership ==
    ownerLive =>
      /\ DistinctEdges(records) /\ DistinctEdges(capabilities)
      /\ EdgeOf(records) \cap EdgeOf(capabilities) = {}
      /\ IsInjective(freeEdges)
      /\ UsedEdges \cup FreeSet = DOMAIN edges
      /\ \A e \in DOMAIN edges : edges[e] = NoRef <=> e \in FreeSet
      /\ UsedEdges \cap FreeSet = {}

\* Without edges: each record as the object, kind and invocation it stands for.
AsEntries(rs) ==
    IF ownerLive
    THEN [i \in DOMAIN rs |-> [obj |-> edges[rs[i].edge], kind |-> rs[i].kind, inv |-> rs[i].inv]]
    ELSE <<>>

Queue == INSTANCE PendingQueue WITH
    queue <- AsEntries(records), caps <- AsEntries(capabilities), open <- ownerLive,
    request <- [kind |-> scan.kind, inv |-> scan.inv, doomed |-> scan.doomed]

\* Through any interleaving of registrations, scoped drains, suspended removals
\* and deaths, the recycled-edge registry behaves as two plain queues: declaration
\* order is kept, a drain consumes the earliest record of its own scope, and a
\* removal never takes an object it was not asked for.
ImplementsQueue == Queue!QueueSpec
================================================================================
