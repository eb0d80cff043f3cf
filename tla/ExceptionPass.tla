---------------------------- MODULE ExceptionPass ----------------------------
(***************************************************************************)
(* What happens to the lowered blocks before they run: arguments for every *)
(* edge (name_binding.rs, bb_shape.rs) and the passes over exception flow  *)
(* (blockpy_to_bb/exception_pass).                                         *)
(*                                                                         *)
(* Three things have to come out right together.  A step that may raise    *)
(* and has changed a binding ends its block, so that the exception edge    *)
(* leaves from a known state.  A value that waits for a finally suite to   *)
(* finish is given up at exactly the point where control abandons it, and  *)
(* only after the handlers entered inside the suite have been left.  And a *)
(* caught exception is cleared from its parameter as soon as nothing will  *)
(* read it and no handler has still to be entered with it.                 *)
(***************************************************************************)
EXTENDS TryLowering

(* The elements of a set in some order.                                    *)
ListOf(S) == FoldSet(LAMBDA x, list : Append(list, x), <<>>, S)

-----------------------------------------------------------------------------
(* Arguments of edges.                                                     *)

(* Mutant: the source's exception is taken for the target's.               *)
ForwardByRole(p, b) ==
    IF p.name \in Names(b.params) THEN NameArg(p.name)
    ELSE IF p.role = "exc" /\ ExceptionParam(b) # <<>>
      THEN NameArg(ExceptionParam(b)[1].name)
    ELSE NoneArg

(* A parameter without a written argument keeps its value where the source *)
(* has it too.  Another region's exception is never adopted for its role.  *)
Forward(p, b) ==
    IF p.name \in Names(b.params) THEN NameArg(p.name) ELSE NoneArg

(* populate_jump_edge_args: written arguments are the last ones.           *)
JumpArgs(blocks) ==
    LET filled(b) ==
            LET edge == b.term.edge
                params == blocks[edge.to].params
                written == Len(params) - Len(edge.args)
                arg(i) == IF i > written THEN edge.args[i - written]
                          ELSE Forward(params[i], b)
            IN [b EXCEPT !.term.edge.args = [i \in DOMAIN params |-> arg(i)]]
    IN Map(LAMBDA b : IF b.term.t = "jump" THEN filled(b) ELSE b, blocks)

(* populate_exception_edge_args: the target's own exception parameter      *)
(* takes the exception that was raised.                                    *)
ExceptionArgs(blocks) ==
    LET filled(b) ==
            LET target == blocks[b.exc.to]
                params == target.params
                aliases == IF target.term.t # "jump" THEN {}
                           ELSE {a.n : a \in {x \in ToSet(target.term.edge.args) :
                                     x.a = "name" /\ x.n[1] = "try_exc"}}
                raised(p) ==
                    \/ p.role = "exc"
                    \/ p.role # "enclosing_exc" /\ p.name \in aliases
                arg(p) == IF raised(p) THEN CurrentArg ELSE Forward(p, b)
            IN [b EXCEPT !.exc.args = [i \in DOMAIN params |-> arg(params[i])]]
    IN Map(LAMBDA b : IF b.exc # NoEdge THEN filled(b) ELSE b, blocks)

-----------------------------------------------------------------------------
(* split_exception_blocks_for_expr_checks: every instruction here changes  *)
(* a binding, so each one but the last gets a block of its own.            *)

Derived(label, n) == <<label[1], label[2], Append(label[3], n)>>

SplitBlocks(blocks, round) ==
    LET splits(b) == b.exc # NoEdge /\ Len(b.body) > 1
        part(l, i) == IF i = 1 THEN l ELSE Derived(l, 100 * round + i)
        pieces(l) ==
            LET b == blocks[l]
                n == Len(b.body)
                at(i) == [b EXCEPT !.body = <<b.body[i]>>,
                                   !.term = IF i = n THEN @
                                            ELSE Jump(part(l, i + 1), <<>>)]
                labels == {part(l, i) : i \in 1..n}
            IN [m \in labels |-> at(CHOOSE i \in 1..n : part(l, i) = m)]
        apart == {l \in DOMAIN blocks : splits(blocks[l])}
        RECURSIVE union(_)
        union(ls) == IF ls = {} THEN NoBlocks
                     ELSE LET l == CHOOSE x \in ls : TRUE
                          IN pieces(l) @@ union(ls \ {l})
    IN union(apart) @@ blocks

-----------------------------------------------------------------------------
(* Ordered views of a block's parameters, outermost first.                 *)

HandledParams(b) ==
    IF b.ctx = "terminal" THEN <<>>
    ELSE Reverse(WithRole(b.params, "enclosing_exc"))
         \o WithRole(b.params, "exc")

PendingParams(b) ==
    IF b.ctx = "terminal" THEN <<>>
    ELSE Reverse(WithRole(b.params, "enclosing_payload"))
         \o WithRole(b.params, "payload")

NameSeq(params) == [i \in DOMAIN params |-> params[i].name]

ForwardAll(params) == [i \in DOMAIN params |-> NameArg(params[i].name)]

-----------------------------------------------------------------------------
(* Pending completions (pending_cleanup.rs).                               *)

(* The payloads and the handlers around the finally that declares each.    *)
Owners(blocks) ==
    LET declares(l, n) ==
            /\ blocks[l].ctx = "regions"
            /\ WithRole(blocks[l].params, "kind") # <<>>
            /\ n \in Names(WithRole(blocks[l].params, "payload"))
        names == UNION {Names(WithRole(blocks[l].params, "payload")) :
                          l \in DOMAIN blocks}
    IN [n \in {m \in names : \E l \in DOMAIN blocks : declares(l, m)} |->
           HandledParams(blocks[CHOOSE l \in DOMAIN blocks : declares(l, n)])]

PendingStack(b, owners) ==
    SelectSeq(NameSeq(PendingParams(b)), LAMBDA n : n \in DOMAIN owners)

(* Mutant: outermost first.                                                *)
LeavingOutermost(pending, target) ==
    SubSeq(pending, Len(LongestCommonPrefix({pending, target})) + 1,
           Len(pending))

(* What is given up on the way to a target, innermost first.               *)
Leaving(pending, target) ==
    Reverse(SubSeq(pending, Len(LongestCommonPrefix({pending, target})) + 1,
                   Len(pending)))

KeepParam(params, n) ==
    IF n \in Names(params) THEN params ELSE Append(params, Param(n, "value"))

(* One dropping block: it goes back to the handlers around the finally and *)
(* clears the payload.                                                     *)
DropBlock(n, params, handlers, next) ==
    LET others == SelectSeq(params, LAMBDA p : p.name \notin Names(handlers))
        carried == [i \in DOMAIN others |-> Param(others[i].name, "value")]
    IN [body |-> <<Store(n, NoneValue)>>, term |-> Jump(next.to, next.args),
        params |-> carried \o Reverse(handlers), exc |-> NoEdge,
        ctx |-> "unwind"]

(* cleanup_chain: from the edge's source to a carrier, which keeps the     *)
(* handled state as it is, then one dropping block for each payload.       *)
CleanupChain(base, edge, targetParams, leaving, owners) ==
    LET keep(params, n) ==
            FoldLeft(KeepParam, KeepParam(params, n), NameSeq(owners[n]))
        params == FoldLeft(keep, targetParams, leaving)
        label(j) == <<base[1], base[2], Append(base[3], j)>>
        RECURSIVE drops(_)
        \* The blocks from the j-th dropping block on, and the edge into them.
        drops(j) ==
            IF j > Len(leaving)
              THEN [into |-> Edge(edge.to, ForwardAll(targetParams)),
                    blocks |-> NoBlocks]
              ELSE LET next == drops(j + 1)
                       b == DropBlock(leaving[j], params, owners[leaving[j]],
                                      next.into)
                   IN [into |-> Edge(label(j), ForwardAll(b.params)),
                       blocks |-> label(j) :> b @@ next.blocks]
        first == drops(1)
        arg(p) == LET i == SelectInSeq(targetParams, LAMBDA q : q.name = p.name)
                  IN IF i \in DOMAIN edge.args THEN edge.args[i]
                     ELSE NameArg(p.name)
        carrier == [body |-> <<>>,
                    term |-> Jump(first.into.to, first.into.args),
                    params |-> params, exc |-> NoEdge, ctx |-> "preserve"]
    IN [edge |-> Edge(label(0), [i \in DOMAIN params |-> arg(params[i])]),
        blocks |-> label(0) :> carrier @@ first.blocks]

(* The block an error that leaves the function is raised from.             *)
Escape == Label(0, "escape")
EscapeParams == <<Param(Name("escaping", 0), "exc")>>
EscapeBlock ==
    [body |-> <<>>, term |-> RaiseTerm(Load(Name("escaping", 0))),
     params |-> EscapeParams, exc |-> NoEdge, ctx |-> "unwind"]

(* An overriding return owns its value before anything pending is dropped. *)
OwnResult(l, b) ==
    LET result == Name("result", l[1])
        label == Derived(l, 999)
    IN IF b.term.t # "return" THEN [block |-> b, blocks |-> NoBlocks]
       ELSE [block |-> [b EXCEPT !.body = Append(@, Store(result, b.term.value)),
                                 !.term = Jump(label, <<>>)],
             blocks |-> label :> Block(<<>>, ReturnTerm(Load(result)),
                                       <<Param(result, "value")>>, NoEdge)]

Redirect(term, from, edge) ==
    LET moved(l) == IF l = from THEN edge.to ELSE l
    IN CASE term.t = "jump"  -> Jump(edge.to, edge.args)
         [] term.t = "if"    -> IfTerm(term.test, moved(term.then),
                                       moved(term.else))
         [] term.t = "table" -> BranchTable(term.index,
                                            Map(moved, term.targets),
                                            moved(term.default))

MaterializeBlock(l, blocks, owners) ==
    LET pending == PendingStack(blocks[l], owners)
        own == OwnResult(l, blocks[l])
        all == own.blocks @@ blocks @@ Escape :> EscapeBlock
        leaving(to) ==
            Leaving(pending, IF to \in DOMAIN blocks
                               THEN PendingStack(blocks[to], owners) ELSE <<>>)
        left == ListOf({to \in Successors(own.block) : leaving(to) # <<>>})
        edgeTo(to) == IF own.block.term.t = "jump" THEN own.block.term.edge
                      ELSE Edge(to, <<>>)
        chain(k) == CleanupChain(Derived(l, 1000 + k), edgeTo(left[k]),
                                 all[left[k]].params, leaving(left[k]), owners)
        chains == [k \in DOMAIN left |-> chain(k)]
        term == FoldLeft(LAMBDA t, k : Redirect(t, left[k], chains[k].edge),
                         own.block.term, [k \in DOMAIN left |-> k])
        error == IF blocks[l].exc # NoEdge THEN blocks[l].exc
                 ELSE Edge(Escape, <<CurrentArg>>)
        unwound == CleanupChain(Derived(l, 2000), error, all[error.to].params,
                                leaving(error.to), owners)
        moves == leaving(error.to) # <<>>
    IN FoldLeft(LAMBDA f, k : chains[k].blocks @@ f, NoBlocks,
                [k \in DOMAIN left |-> k])
       @@ (IF moves THEN unwound.blocks ELSE NoBlocks)
       @@ own.blocks
       @@ l :> [own.block EXCEPT !.term = term,
                                 !.exc = IF moves THEN unwound.edge ELSE @]

MaterializePendingUnwinds(blocks) ==
    LET owners == Owners(blocks)
        affected == {l \in DOMAIN blocks : blocks[l].ctx = "regions"
                                 /\ PendingStack(blocks[l], owners) # <<>>}
        RECURSIVE union(_)
        union(ls) == IF ls = {} THEN NoBlocks
                     ELSE LET l == CHOOSE x \in ls : TRUE
                          IN MaterializeBlock(l, blocks, owners)
                             @@ union(ls \ {l})
        escapes == \E l \in affected : blocks[l].exc = NoEdge
    IN union(affected) @@ blocks
       @@ (IF escapes THEN Escape :> EscapeBlock ELSE NoBlocks)

-----------------------------------------------------------------------------
(* Lifetimes of the exception and payload parameters                       *)
(* (transport_lifetime.rs).                                                *)

TransportRoles == {"exc", "enclosing_exc", "payload", "enclosing_payload"}

Transports(blocks) ==
    UNION {{p.name : p \in {q \in ToSet(blocks[l].params) :
                              q.role \in TransportRoles}} : l \in DOMAIN blocks}

(* The blocks an edge comes from: <<label, by an exception>>.              *)
Predecessors(blocks) ==
    [l \in DOMAIN blocks |->
        {<<m, FALSE>> : m \in {x \in DOMAIN blocks : l \in Successors(blocks[x])}}
        \cup {<<m, TRUE>> : m \in {x \in DOMAIN blocks : blocks[x].exc.to = l}}]

(* scope_states: the handlers that are entered when a block runs, and the  *)
(* handlers an exception is on its way to.                                 *)
ScopeStates(f) ==
    LET blocks == f.blocks
        preds == Predecessors(blocks)
        handled(l) == NameSeq(HandledParams(blocks[l]))
        everything == ListOf(UNION {ToSet(handled(l)) : l \in DOMAIN blocks})
        start == [l \in DOMAIN blocks |->
                    [active |-> IF blocks[l].ctx = "preserve" THEN everything
                                ELSE handled(l),
                     pending |-> {}]]
        next(states, l) ==
            LET actives == {states[p[1]].active : p \in preds[l]}
                coming(p) == IF ~p[2] THEN states[p[1]].pending
                             ELSE IF handled(l) = <<>> THEN {}
                             ELSE {Last(handled(l))}
            IN [active |-> IF blocks[l].ctx = "unwind" THEN handled(l)
                           ELSE IF l = f.entry \/ actives = {} THEN <<>>
                           ELSE LongestCommonPrefix(actives),
                pending |-> UNION {coming(p) : p \in preds[l]}]
        RECURSIVE settle(_)
        settle(states) ==
            LET new == [l \in DOMAIN blocks |->
                           IF blocks[l].ctx \in {"preserve", "unwind"}
                             THEN next(states, l) ELSE states[l]]
            IN IF new = states THEN states ELSE settle(new)
    IN settle(start)

(* The arguments of an edge bind the last parameters of its target.        *)
TrailingParams(target, edge) ==
    SubSeq(target.params, Len(target.params) - Len(edge.args) + 1,
           Len(target.params))

(* The i-th of these handlers has been entered and is not about to be      *)
(* entered again with another exception.                                   *)
Entered(source, handled, i) ==
    /\ i <= Len(source.active)
    /\ source.active[i] = handled[i]
    /\ handled[i] \notin source.pending

(* Which transports an edge needs, given what its target needs.  A handler *)
(* the target still has to enter needs its exception.                      *)
EdgeLive(edge, source, inputs, blocks, transports) ==
    LET target == blocks[edge.to]
        handled == NameSeq(HandledParams(target))
        fresh == IF target.ctx # "regions" THEN {}
                 ELSE {handled[i] : i \in {k \in DOMAIN handled :
                                   \E j \in 1..k : ~Entered(source, handled, j)}}
        required == inputs[edge.to] \cup (fresh \cap transports)
        bound == TrailingParams(target, edge)
        carry(live, i) ==
            LET p == bound[i].name
                a == edge.args[i]
            IN (live \ {p}) \cup
               (IF a.a = "name" /\ (p \in transports => p \in required)
                  THEN {a.n} \cap transports ELSE {})
    IN FoldLeft(carry, required, [i \in DOMAIN edge.args |-> i])

NormalEdges(b) ==
    IF b.term.t = "jump" THEN {b.term.edge}
    ELSE {Edge(l, <<>>) : l \in Successors(b)}

Reads(value, transports) == {value.reads} \cap transports

TermReads(term, transports) ==
    CASE term.t \in {"return", "raise"} -> Reads(term.value, transports)
      [] term.t = "if"                  -> Reads(term.test, transports)
      [] OTHER                          -> {}

(* Mutant: a pending value is needed only while something reads it.        *)
PendingIfRead(b, transports) == {}

(* A pending value is needed until it is given up, whoever reads it.       *)
PendingOwned(b, transports) == Names(PendingParams(b)) \cap transports

(* What is needed before each instruction, and last before the terminator, *)
(* of which some is needed throughout.                                     *)
NeededBefore(body, atTerm, throughout, transports) ==
    LET RECURSIVE at(_)
        at(i) == IF i > Len(body) THEN <<atTerm \cup throughout>>
                 ELSE LET later == at(i + 1)
                          instr == body[i]
                      IN <<(later[1] \ {instr.name})
                           \cup Reads(instr.value, transports)
                           \cup throughout>> \o later
    IN at(1)

(* block_liveness: the transports that are still needed at each point.     *)
BlockLiveness(b, scope, inputs, blocks, transports) ==
    LET needs(e) == EdgeLive(e, scope, inputs, blocks, transports)
    IN NeededBefore(b.body,
                    UNION {needs(e) : e \in NormalEdges(b)}
                      \cup TermReads(b.term, transports),
                    PendingOwned(b, transports)
                      \cup (IF b.exc = NoEdge THEN {} ELSE needs(b.exc)),
                    transports)

RECURSIVE SettleLive(_, _, _, _)
SettleLive(inputs, blocks, scopes, transports) ==
    LET now == [l \in DOMAIN blocks |->
                  BlockLiveness(blocks[l], scopes[l], inputs, blocks, transports)]
        new == Map(Head, now)
    IN IF new = inputs THEN now ELSE SettleLive(new, blocks, scopes, transports)

LivePoints(f, transports) ==
    SettleLive([l \in DOMAIN f.blocks |-> {}], f.blocks, ScopeStates(f),
               transports)

(* Which transports hold something: transfer_owned and edge_owned.         *)
TransferOwned(instr, owned, transports) ==
    LET hasValue == /\ instr.op = "store" /\ instr.value # NoneValue
                    /\ \/ instr.value.v # "load"
                       \/ instr.value.reads \notin transports
                       \/ instr.value.reads \in owned
    IN IF instr.name \notin transports THEN owned
       ELSE (owned \ {instr.name})
            \cup (IF hasValue THEN {instr.name} ELSE {})

EdgeOwned(edge, owned, blocks, transports) ==
    LET params == TrailingParams(blocks[edge.to], edge)
        bound == {i \in DOMAIN edge.args : params[i].name \in transports}
        hasValue(a) == \/ a.a = "current"
                       \/ a.a = "name" /\ a.n \notin transports \ owned
    IN (owned \ {params[i].name : i \in bound})
       \cup {params[i].name : i \in {k \in bound : hasValue(edge.args[k])}}

(* Blocks that unwind drop what they drop in their own order.              *)
Retires(b) == b.ctx = "regions"

(* What is held before each instruction and before the terminator.         *)
OwnedPoints(b, owned, live, transports) ==
    LET kept(i, held) == IF Retires(b) THEN held \cap live[i] ELSE held
        RECURSIVE at(_, _)
        at(i, held) ==
            IF i > Len(b.body) THEN <<held>>
            ELSE <<held>> \o at(i + 1, TransferOwned(b.body[i], kept(i, held),
                                                    transports))
    IN at(1, owned)

(* What a block passes on, by an exception from any point of it or at its  *)
(* end: pairs of a target and what is held there.                          *)
OwnedFlow(b, owned, live, blocks, transports) ==
    LET points == OwnedPoints(b, owned, live, transports)
        kept(i) == IF Retires(b) THEN points[i] \cap live[i] ELSE points[i]
        n == Len(b.body)
        raising == kept(n + 1)
                   \cup UNION {kept(i) \cup points[i + 1] : i \in 1..n}
    IN {<<e.to, EdgeOwned(e, kept(n + 1), blocks, transports)>> :
          e \in NormalEdges(b)}
       \cup (IF b.exc = NoEdge THEN {}
             ELSE {<<b.exc.to, EdgeOwned(b.exc, raising, blocks, transports)>>})

(* owned_inputs, for the blocks that are reached.                          *)
OwnedInputs(f, live, transports) ==
    LET blocks == f.blocks
        RECURSIVE settle(_)
        settle(inputs) ==
            LET flows == UNION {OwnedFlow(blocks[l], inputs[l], live[l], blocks,
                                          transports) : l \in DOMAIN inputs}
                reached == DOMAIN inputs \cup {x[1] : x \in flows}
                old(l) == IF l \in DOMAIN inputs THEN inputs[l] ELSE {}
                new == [l \in reached |->
                          old(l) \cup UNION {x[2] : x \in {y \in flows : y[1] = l}}]
            IN IF new = inputs THEN inputs ELSE settle(new)
    IN settle(f.entry :> {})

(* A transport that holds something nothing needs is cleared.              *)
RetireBlock(b, owned, live, transports) ==
    LET points == OwnedPoints(b, owned, live, transports)
        clear(names) == [i \in 1..Cardinality(names) |->
                           Store(ListOf(names)[i], NoneValue)]
        dead(i) == IF Retires(b) THEN clear(points[i] \ live[i]) ELSE <<>>
        n == Len(b.body)
    IN [b EXCEPT !.body =
           FlattenSeq([i \in 1..n |-> Append(dead(i), b.body[i])])
           \o dead(n + 1)]

RetireUnneeded(f, transports, live, inputs) ==
    [f EXCEPT !.blocks =
        [l \in DOMAIN f.blocks |->
            IF l \in DOMAIN inputs
              THEN RetireBlock(f.blocks[l], inputs[l], live[l], transports)
              ELSE f.blocks[l]]]

RetireOwned(f, transports, live) ==
    RetireUnneeded(f, transports, live, OwnedInputs(f, live, transports))

RetireTransports(f) ==
    RetireOwned(f, Transports(f.blocks), LivePoints(f, Transports(f.blocks)))

(* The names a function uses.                                              *)
LocalNames(blocks) ==
    LET ofBlock(b) == Names(b.params)
                      \cup UNION {{b.body[i].name, b.body[i].value.reads} :
                                    i \in DOMAIN b.body}
    IN UNION {ofBlock(blocks[l]) : l \in DOMAIN blocks}

=============================================================================
