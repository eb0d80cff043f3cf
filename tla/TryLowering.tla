----------------------------- MODULE TryLowering -----------------------------
(***************************************************************************)
(* How a function body with nested loops and try statements becomes basic  *)
(* blocks (soac_lowering, passes/ruff_to_blockpy).                         *)
(*                                                                         *)
(* A try statement is first rewritten to one bare handler that tests the   *)
(* written ones in turn.  Its suites are then lowered innermost last: the  *)
(* blocks of each suite form a region, and once a region is complete its   *)
(* returns are redirected into the finally suite and the names that carry  *)
(* its caught exception or its pending completion become parameters of its *)
(* blocks.  A finally suite is emitted once; the way it was entered is a   *)
(* number in one parameter and the value it has to deliver in another, and *)
(* a branch table after the suite acts on the number.                      *)
(*                                                                         *)
(* Statements are records with a number that is theirs alone.  Labels and  *)
(* compiler names are built from these numbers, so no counter is threaded  *)
(* through the lowering.  Functions only: no suspension, no cells.         *)
(***************************************************************************)
EXTENDS Naturals, Sequences, SequencesExt, TLC

Map(F(_), f) == [x \in DOMAIN f |-> F(f[x])]

-----------------------------------------------------------------------------
(* Statements.  The first six are written by the programmer.  "if", "bind",*)
(* "unbind" and "pass" only come from the rewriting of handlers.           *)

Stmt(kind, n) == [s |-> kind, id |-> n]

Call(n)   == Stmt("call", n)        \* x = f()
Return(n) == Stmt("return", n)      \* return f()
Raise(n)  == Stmt("raise", n)       \* raise
Break     == Stmt("break", 0)
Continue  == Stmt("continue", 0)

While(n, body, orelse) ==
    [s |-> "while", id |-> n, body |-> body, orelse |-> orelse]

Handler(n, typed, named, body) ==
    [id |-> n, typed |-> typed, named |-> named, body |-> body]

Try(n, body, handlers, orelse, final) ==
    [s |-> "try", id |-> n, body |-> body, handlers |-> handlers,
     orelse |-> orelse, final |-> final]

If(n, then, else) == [s |-> "if", id |-> n, then |-> then, else |-> else]

-----------------------------------------------------------------------------
(* The rewriting of handlers.                                              *)

(* The body of a handler that names its exception: the name is deleted on  *)
(* every way out.                                                          *)
WrapHandlerBody(h) ==
    <<Try(h.id, h.body, <<>>, <<>>, <<Stmt("unbind", h.id)>>)>>

HandlerTest(h, next) ==
    <<If(h.id,
         IF h.named THEN <<Stmt("bind", h.id)>> \o WrapHandlerBody(h)
                    ELSE <<Stmt("pass", h.id)>> \o h.body,
         next)>>

RECURSIVE HandlerChain(_, _)
HandlerChain(handlers, base) ==
    IF handlers = <<>> THEN base
    ELSE LET h == Head(handlers)
             next == HandlerChain(Tail(handlers), base)
         IN IF h.typed THEN HandlerTest(h, next) ELSE h.body \o next

RewriteTry(s) ==
    LET typed == \E i \in DOMAIN s.handlers : s.handlers[i].typed
        bare == \E i \in DOMAIN s.handlers : ~s.handlers[i].typed
        base == IF bare THEN <<Stmt("pass", s.id)>> ELSE <<Raise(s.id)>>
    IN IF typed
         THEN [s EXCEPT !.handlers =
                  <<Handler(s.id, FALSE, FALSE,
                            HandlerChain(s.handlers, base))>>]
         ELSE s

-----------------------------------------------------------------------------
(* Blocks.                                                                 *)

Label(n, role) == <<n, role, <<>>>>
Name(kind, n)  == <<kind, n>>

NoLabel == Label(0, "none")
End     == Label(0, "end")

NoName == Name("none", 0)

(* An expression: what it does and the name it reads.                      *)
Value(v, n, reads) == [v |-> v, n |-> n, reads |-> reads]
NoneValue == Value("none", 0, NoName)
Load(name) == Value("load", 0, name)

(* current_exception(), until it is known whose parameter that is.         *)
Current == Name("current", 0)

Arg(a, n)    == [a |-> a, n |-> n]
NameArg(n)   == Arg("name", n)
NoneArg      == Arg("none", NoName)
CurrentArg   == Arg("current", NoName)
KindArg(k)   == Arg("kind", Name("kind", k))

(* AbruptKind: how a finally suite was entered.                            *)
Fallthrough == 0
Returning   == 1
Excepting   == 2
Breaking    == 3
Continuing  == 4

Edge(target, args) == [to |-> target, args |-> args]
NoEdge == Edge(NoLabel, <<>>)
ExcEdge(target) == Edge(target, <<>>)

Jump(target, args) == [t |-> "jump", edge |-> Edge(target, args)]
ReturnTerm(value) == [t |-> "return", value |-> value]
RaiseTerm(value) == [t |-> "raise", value |-> value]
IfTerm(test, then, else) ==
    [t |-> "if", test |-> test, then |-> then, else |-> else]
BranchTable(index, targets, default) ==
    [t |-> "table", index |-> index, targets |-> targets, default |-> default]

Store(n, value) == [op |-> "store", name |-> n, value |-> value]
Del(n) == [op |-> "del", name |-> n, value |-> NoneValue]

Param(n, role) == [name |-> n, role |-> role]

Block(body, term, params, exc) ==
    [body |-> body, term |-> term, params |-> params, exc |-> exc,
     ctx |-> "regions"]

NoBlocks == <<>>
Names(params) == {params[i].name : i \in DOMAIN params}
WithRole(params, role) == SelectSeq(params, LAMBDA p : p.role = role)

(* The innermost exception a block handles, as a sequence of at most one.  *)
ExceptionParam(b) == WithRole(b.params, "exc")

EnsureParam(b, n, role) ==
    IF n \in Names(b.params) THEN b
    ELSE [b EXCEPT !.params = Append(@, Param(n, role))]

SetExceptionParam(b, n) ==
    LET kept == SelectSeq(b.params, LAMBDA p : p.role # "exc" \/ p.name = n)
    IN [b EXCEPT !.params =
           IF n \in Names(kept)
             THEN [i \in DOMAIN kept |->
                      IF kept[i].name = n THEN Param(n, "exc") ELSE kept[i]]
             ELSE Append(kept, Param(n, "exc"))]

SetRegionExcParam(region, n) ==
    [l \in DOMAIN region |->
        LET b == region[l]
            own == ExceptionParam(b)
        IN IF own = <<>> THEN SetExceptionParam(b, n)
           ELSE IF own[1].name = n THEN b
           ELSE EnsureParam(b, n, "enclosing_exc")]

-----------------------------------------------------------------------------
(* Straight-line code and the targets of a region.                         *)

(* Where control continues after a suite, where break and continue lead,   *)
(* and the block that receives an exception.                               *)
Targets(cont, loop, exc) == [cont |-> cont, loop |-> loop, exc |-> exc]
NoLoop == [brk |-> NoLabel, cnt |-> NoLabel]

IsLinear(s) == s.s \in {"call", "bind", "unbind", "pass"}

Instrs(linear) ==
    LET instr(s) ==
            CASE s.s = "call"   -> <<Store(Name("var", s.id),
                                           Value("call", s.id, NoName))>>
              [] s.s = "bind"   -> <<Store(Name("as", s.id),
                                           Value("current", 0, Current))>>
              [] s.s = "unbind" -> <<Del(Name("as", s.id))>>
              [] s.s = "pass"   -> <<>>
    IN FlattenSeq([i \in DOMAIN linear |-> instr(linear[i])])

Lowered(entry, blocks) == [entry |-> entry, blocks |-> blocks]

(* A block for straight-line code before the terminator.                   *)
TermBlock(label, linear, term, exc) ==
    Lowered(label, label :> Block(Instrs(linear), term, <<>>, ExcEdge(exc)))

LinearLabel(linear) == Label(linear[1].id, linear[1].s)

(* emit_sequence_jump_block: nothing is emitted for no code.               *)
JumpBlock(linear, target, exc) ==
    IF linear = <<>> THEN Lowered(target, NoBlocks)
    ELSE TermBlock(LinearLabel(linear), linear, Jump(target, <<>>), exc)

-----------------------------------------------------------------------------
(* The regions of a try statement whose suites have been lowered.          *)

(* A return inside a protected region stores its value where the finally   *)
(* suite delivers it from and enters the suite.                            *)
RewriteReturns(region, target, payload) ==
    [l \in DOMAIN region |->
        LET b == region[l]
        IN IF b.term.t # "return" THEN b
           ELSE [b EXCEPT !.body = Append(@, Store(payload, b.term.value)),
                          !.term = Jump(target, <<KindArg(Returning),
                                                  NameArg(payload)>>)]]

(* The ways into a finally suite other than a return.                      *)
FinallyEntries(n, exc) ==
    LET enter(kind, arg) ==
            Jump(Label(n, "finally"), <<KindArg(kind), arg>>)
        error == Name("finally_exc", n)
        entry(term) == Block(<<>>, term, <<>>, ExcEdge(exc))
    IN Label(n, "normal")   :> entry(enter(Fallthrough, NoneArg))
    @@ Label(n, "failed")   :> SetExceptionParam(
                                  entry(enter(Excepting, NameArg(error))),
                                  error)
    @@ Label(n, "break")    :> entry(enter(Breaking, NoneArg))
    @@ Label(n, "continue") :> entry(enter(Continuing, NoneArg))

(* What follows a finally suite.                                           *)
FinallyDispatch(n, rest, loop, exc) ==
    LET load == Load(Name("payload", n))
        branch(target) == IF loop = NoLoop THEN rest ELSE target
        table == BranchTable(Name("kind", n),
                             <<rest, Label(n, "deliver"), Label(n, "rethrow"),
                               branch(loop.brk), branch(loop.cnt)>>, rest)
        after(term) ==
            SetExceptionParam(
                EnsureParam(Block(<<>>, term, <<>>, ExcEdge(exc)),
                            Name("payload", n), "enclosing_payload"),
                Name("finally_exc", n))
    IN Label(n, "deliver")  :> after(ReturnTerm(load))
    @@ Label(n, "rethrow")  :> after(RaiseTerm(load))
    @@ Label(n, "dispatch") :> after(table)

(* The finally suite itself, with the block that declares its payload.     *)
FinallyRegion(n, suite, exc) ==
    LET declared == Label(n, "finally")
        payload == Name("payload", n)
        entry == declared :>
            Block(<<>>, Jump(suite.entry, <<>>),
                  <<Param(Name("kind", n), "kind"),
                    Param(payload, "payload")>>, ExcEdge(exc))
        region == SetRegionExcParam(entry @@ suite.blocks,
                                    Name("finally_exc", n))
    IN [l \in DOMAIN region |->
           IF l = declared THEN region[l]
           ELSE EnsureParam(region[l], payload, "enclosing_payload")]

-----------------------------------------------------------------------------
(* The lowering of a sequence of statements.  What follows a control       *)
(* statement is lowered before it, so that its entry is known.             *)

RECURSIVE LowerSequence(_, _)

(* Straight-line code in front of what has been lowered.                   *)
Preceded(linear, next, exc) ==
    IF linear = <<>> THEN next
    ELSE LET before == JumpBlock(linear, next.entry, exc)
         IN Lowered(before.entry, next.blocks @@ before.blocks)

LowerIf(s, linear, after, targets) ==
    LET inner == [targets EXCEPT !.cont = after.entry]
        then == LowerSequence(s.then, inner)
        else == LowerSequence(s.else, inner)
        label == Label(s.id, "if")
        test == Value("match", s.id, Current)
        branch == TermBlock(label, linear,
                            IfTerm(test, then.entry, else.entry), targets.exc)
    IN Lowered(label, (after.blocks @@ then.blocks)
                      @@ (else.blocks @@ branch.blocks))

LowerWhile(s, linear, after, targets) ==
    LET orelse == LowerSequence(s.orelse,
                                [targets EXCEPT !.cont = after.entry])
        top == Label(s.id, "while")
        body == LowerSequence(s.body,
                    Targets(top, [brk |-> after.entry, cnt |-> top],
                            targets.exc))
        test == Label(s.id, "test")
        branch == TermBlock(test, <<>>,
                      IfTerm(Value("test", s.id, NoName), body.entry,
                             orelse.entry), targets.exc)
        jump == TermBlock(top, <<>>, Jump(test, <<>>), targets.exc)
    IN Preceded(linear,
                Lowered(top, (after.blocks @@ orelse.blocks)
                             @@ (body.blocks @@ branch.blocks @@ jump.blocks)),
                targets.exc)

(* Where the suites a try statement protects lead to: past its end, out of *)
(* the loop and on an error, in each case through its finally suite.       *)
ProtectedTargets(s, rest, targets) ==
    IF s.final = <<>> THEN [targets EXCEPT !.cont = rest]
    ELSE Targets(Label(s.id, "normal"),
                 IF targets.loop = NoLoop THEN NoLoop
                 ELSE [brk |-> Label(s.id, "break"),
                       cnt |-> Label(s.id, "continue")],
                 Label(s.id, "failed"))

(* Leaving the handlers normally is a block outside their region.          *)
LowerHandler(s, inner) ==
    IF s.handlers = <<>> THEN Lowered(inner.exc, NoBlocks)
    ELSE LowerSequence(s.handlers[1].body,
                       [inner EXCEPT !.cont = Label(s.id, "leave")])

LeaveBlock(s, inner) ==
    IF s.handlers = <<>> THEN NoBlocks
    ELSE Label(s.id, "leave") :> Block(<<>>, Jump(inner.cont, <<>>), <<>>, NoEdge)

(* The finally suite runs outside the protection it gives.                 *)
LowerFinally(s, rest, targets) ==
    IF s.final = <<>> THEN NoBlocks
    ELSE FinallyRegion(s.id,
                       LowerSequence(s.final, [targets EXCEPT
                                         !.cont = Label(s.id, "dispatch")]),
                       targets.exc)
         @@ FinallyEntries(s.id, targets.exc)
         @@ FinallyDispatch(s.id, rest, targets.loop, targets.exc)

(* The protected regions, and the body that may reach the other two.       *)
LowerProtected(s, inner, handler, orelse, exc) ==
    LET body == LowerSequence(s.body, [inner EXCEPT !.cont = orelse.entry,
                                                    !.exc = handler.entry])
        protect(region) ==
            IF s.final = <<>> THEN region
            ELSE RewriteReturns(region, Label(s.id, "finally"),
                                Name("payload", s.id))
        entry == TermBlock(Label(s.id, "try"), <<>>, Jump(body.entry, <<>>),
                           exc)
    IN (SetRegionExcParam(protect(handler.blocks), Name("try_exc", s.id))
        @@ protect(orelse.blocks))
       @@ (protect(body.blocks) @@ entry.blocks @@ LeaveBlock(s, inner))

LowerTry(s, after, targets) ==
    LET inner == ProtectedTargets(s, after.entry, targets)
    IN Lowered(Label(s.id, "try"),
               after.blocks
               @@ LowerProtected(s, inner, LowerHandler(s, inner),
                                 LowerSequence(s.orelse, inner), targets.exc)
               @@ LowerFinally(s, after.entry, targets))

(* A control statement with the straight-line code before it and what was  *)
(* lowered from the statements after it.                                   *)
LowerControl(s, linear, after, targets) ==
    CASE s.s = "if"       -> LowerIf(s, linear, after, targets)
      [] s.s = "while"    -> LowerWhile(s, linear, after, targets)
      [] s.s = "break"    -> JumpBlock(linear, targets.loop.brk, targets.exc)
      [] s.s = "continue" -> JumpBlock(linear, targets.loop.cnt, targets.exc)
      [] s.s = "return"   -> TermBlock(Label(s.id, "return"), linear,
                                       ReturnTerm(Value("value", s.id, NoName)),
                                       targets.exc)
      [] s.s = "raise"    -> TermBlock(Label(s.id, "raise"), linear,
                                       RaiseTerm(NoneValue), targets.exc)
      [] s.s = "try"      -> Preceded(linear,
                                      LowerTry(RewriteTry(s), after, targets),
                                      targets.exc)

LowerFrom(stmts, control, targets) ==
    IF control = 0 THEN JumpBlock(stmts, targets.cont, targets.exc)
    ELSE LowerControl(stmts[control], SubSeq(stmts, 1, control - 1),
                      LowerSequence(SubSeq(stmts, control + 1, Len(stmts)),
                                    targets),
                      targets)

LowerSequence(stmts, targets) ==
    LowerFrom(stmts, SelectInSeq(stmts, LAMBDA s : ~IsLinear(s)), targets)

-----------------------------------------------------------------------------
(* From the lowered sequence to a function.                                *)

Successors(b) ==
    CASE b.term.t = "jump"  -> {b.term.edge.to}
      [] b.term.t = "if"    -> {b.term.then, b.term.else}
      [] b.term.t = "table" -> ToSet(b.term.targets) \cup {b.term.default}
      [] OTHER              -> {}

(* A jump without arguments, outside any protection, to a block that only  *)
(* returns becomes that return.                                            *)
FoldTrivialReturns(blocks) ==
    LET trivial(l) ==
            LET b == blocks[l]
            IN b.body = <<>> /\ b.params = <<>> /\ b.exc = NoEdge
               /\ b.term.t = "return"
        folds(b) ==
            /\ b.term.t = "jump" /\ b.exc = NoEdge
            /\ b.term.edge.args = <<>>
            /\ trivial(b.term.edge.to)
    IN [l \in DOMAIN blocks |->
           IF folds(blocks[l])
             THEN [blocks[l] EXCEPT
                      !.term = blocks[blocks[l].term.edge.to].term]
             ELSE blocks[l]]

RECURSIVE ReachableFrom(_, _)
ReachableFrom(known, blocks) ==
    LET next == known \cup UNION {Successors(blocks[l]) : l \in known}
    IN IF next = known THEN known ELSE ReachableFrom(next, blocks)

(* Every block that receives exceptions is kept, whoever refers to it.     *)
PruneUnreachable(entry, blocks) ==
    LET roots == {blocks[l].exc.to : l \in DOMAIN blocks} \ {NoLabel}
    IN Restrict(blocks, ReachableFrom({entry} \cup roots, blocks))

(* bb_params: the parameters in the order of their roles.                  *)
OrderParams(b) ==
    [b EXCEPT !.params =
        WithRole(@, "value") \o WithRole(@, "enclosing_exc")
        \o WithRole(@, "exc") \o WithRole(@, "enclosing_payload")
        \o WithRole(@, "kind") \o WithRole(@, "payload")]

(* "The current exception" is the innermost handler's parameter.           *)
RewriteCurrentException(b) ==
    LET own == ExceptionParam(b)
        rewritten(v) ==
            IF own = <<>> \/ v.reads # Current THEN v
            ELSE IF v.v = "current" THEN Load(own[1].name)
            ELSE [v EXCEPT !.reads = own[1].name]
        term == CASE b.term.t = "if" -> [b.term EXCEPT !.test = rewritten(@)]
                  [] OTHER           -> b.term
    IN [b EXCEPT !.term = term,
                 !.body = [i \in DOMAIN @ |->
                              [@[i] EXCEPT !.value = rewritten(@)]]]

FinishBlocks(lowered) ==
    LET all == lowered.blocks
               @@ End :> Block(<<>>, ReturnTerm(NoneValue), <<>>, NoEdge)
    IN Lowered(lowered.entry,
               Map(LAMBDA b : RewriteCurrentException(OrderParams(b)),
                   PruneUnreachable(lowered.entry, FoldTrivialReturns(all))))

LowerFunction(stmts) ==
    FinishBlocks(LowerSequence(stmts, Targets(End, NoLoop, NoLabel)))

=============================================================================
