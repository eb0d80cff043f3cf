---------------------------- MODULE TryExecution ----------------------------
(***************************************************************************)
(* Compiled functions with nested loops and try statements, executed block *)
(* by block next to the meaning of their source.                           *)
(*                                                                         *)
(* A function is chosen, compiled by ExceptionPass and run by the steps of *)
(* the block executor (soac_jit/src/jit/deopt_interpreter.rs) on the       *)
(* handled-exception state of soac_jit/src/handled_exception.rs.  Wherever *)
(* the function runs Python code of unknown effect, that code may complete *)
(* or raise, and the machine of PythonTry is given the same answer.        *)
(***************************************************************************)
EXTENDS ExceptionPass, PythonTry

CONSTANTS Programs,    \* function bodies
          MaxRaises,   \* bound on the exceptions raised by unknown code
          MaxTurns     \* bound on the turns of all loops together

Unbound == 97          \* the value of a local that has none
Internal == 98         \* an error that only broken code raises

NoScope == NoName

VARIABLES
    code,      \* the function: its entry and its blocks
    mode,      \* the compiler pass, or entering a block, running it,
               \* throwing an error, or done
    label, pc, \* the block and the next instruction in it
    locals,    \* the local storage
    recs,      \* handled-exception records: a region and its exception
    pending,   \* pending_scope: the region an exception is on its way to
    err,       \* the raised error
    out,       \* how the function completed
    ref,       \* where the meaning of the source stands
    before,    \* the objects waiting or handled when unknown code last ran
    fresh,     \* the next object
    raises, turns

vars == <<code, mode, label, pc, locals, recs, pending, err, out, ref,
          before, fresh, raises, turns>>

place == <<code, label, pc>>
state == <<locals, recs, pending>>
world == <<ref, before, fresh, raises, turns>>

BlockAt(l) == code.blocks[l]
Here == BlockAt(label)

-----------------------------------------------------------------------------
(* The handled-exception state (select and pop_to).                        *)

HasValue(region) == region.exc \notin {NoObject, Unbound}

(* How many of the entered regions stay, and the first one to enter.       *)
RECURSIVE Scan(_, _, _, _, _)
Scan(regions, i, common, transition, scope) ==
    IF i > Len(regions) THEN [common |-> common, start |-> i]
    ELSE IF /\ common < Len(recs)
            /\ transition = "unwind" \/ regions[i].scope # scope
            /\ regions[i].scope = recs[common + 1].scope
      THEN Scan(regions, i + 1, common + 1, transition, scope)
    ELSE IF /\ transition # "unwind"
            /\ HasValue(regions[i]) \/ regions[i].scope = scope
      THEN [common |-> common, start |-> i]
    ELSE Scan(regions, i + 1, common, transition, scope)

Select(regions, transition, scope) ==
    LET at == Scan(regions, 1, 0, transition, scope)
        entered == SelectSeq(SubSeq(regions, at.start, Len(regions)), HasValue)
    IN /\ recs' = SubSeq(recs, 1, at.common)
                  \o (IF transition = "enter" THEN entered ELSE <<>>)
       /\ pending' = IF transition = "enter" THEN NoScope ELSE scope

(* transition_handled_state: the regions of a block with the values its    *)
(* parameters have or are about to have.                                   *)
Transition(b, values, transition, scope) ==
    LET params == HandledParams(b)
        regions == [i \in DOMAIN params |->
                      [scope |-> params[i].name, exc |-> values[params[i].name]]]
    IN CASE b.ctx = "preserve" -> recs' = recs /\ pending' = scope
         [] b.ctx = "unwind"   -> Select(regions, "unwind", scope)
         [] b.ctx = "regions"  -> Select(regions, transition, scope)

(* The exception being handled.  Below the function's own records is the   *)
(* caller's, which is none.                                                *)
CurrentlyHandled == IF recs = <<>> THEN NoObject ELSE Last(recs).exc

-----------------------------------------------------------------------------
(* The end of the function: finish_handled_state.                          *)
Finish(c) ==
    /\ mode' = "done"
    /\ out' = c
    /\ recs' = <<>> /\ pending' = NoScope
    /\ err' = NoObject
    /\ UNCHANGED <<place, locals>>

(* execute_jump_edge, with the exception in flight, if any.                *)
TakeEdge(edge, scope, current) ==
    LET target == BlockAt(edge.to)
        value(a) == CASE a.a = "name"    -> locals[a.n]
                      [] a.a = "none"    -> NoObject
                      [] a.a = "kind"    -> a.n[2]
                      [] a.a = "current" -> current
        passed == DOMAIN edge.args
        values == [n \in DOMAIN locals |->
                     IF \E i \in passed : target.params[i].name = n
                       THEN value(edge.args[CHOOSE i \in passed :
                                              target.params[i].name = n])
                       ELSE locals[n]]
    IN IF \E i \in passed : value(edge.args[i]) = Unbound
         THEN Finish(Completion("raise", Internal))
         ELSE /\ Transition(target, values, "leave", scope)
              /\ locals' = values
              /\ mode' = "enter" /\ label' = edge.to /\ pc' = 1
              /\ err' = NoObject
              /\ UNCHANGED <<code, out>>

Throw(e) ==
    /\ mode' = "throw" /\ err' = e
    /\ UNCHANGED <<place, state, out>>

Goto(l) ==
    /\ Transition(BlockAt(l), locals, "leave", pending)
    /\ mode' = "enter" /\ label' = l /\ pc' = 1
    /\ UNCHANGED <<code, locals, err, out>>

Assign(n, v) ==
    /\ locals' = [locals EXCEPT ![n] = v]
    /\ pc' = pc + 1
    /\ UNCHANGED <<code, mode, label, recs, pending, err, out>>

-----------------------------------------------------------------------------
(* Compilation, pass by pass.                                              *)

Init ==
    /\ mode = "source"
    /\ \E body \in Programs :
          /\ code = [entry |-> NoLabel, blocks |-> <<>>, body |-> body]
          /\ ref = Start(body)
    /\ before = <<>>
    /\ label = NoLabel /\ pc = 1
    /\ locals = <<>>
    /\ recs = <<>> /\ pending = NoScope
    /\ err = NoObject /\ out = Through
    /\ fresh = 1 /\ raises = 0 /\ turns = 0

Pass(from, to, blocks) ==
    /\ mode = from /\ mode' = to
    /\ code' = [code EXCEPT !.blocks = blocks]
    /\ UNCHANGED <<label, pc, state, err, out, world>>

Lower ==
    /\ mode = "source" /\ mode' = "lowered"
    /\ LET f == LowerFunction(code.body)
       IN code' = [entry |-> f.entry, blocks |-> f.blocks, body |-> <<>>]
    /\ UNCHANGED <<label, pc, state, err, out, world>>

BindEdges == Pass("lowered", "bound", JumpArgs(ExceptionArgs(code.blocks)))

SplitSteps ==
    Pass("bound", "split", ExceptionArgs(SplitBlocks(code.blocks, 1)))

UnwindPending ==
    Pass("split", "unwound", MaterializePendingUnwinds(code.blocks))

SplitAgain == Pass("unwound", "resplit", SplitBlocks(code.blocks, 2))

(* The last pass; then the function is called.                             *)
Retire ==
    /\ mode = "resplit" /\ mode' = "enter"
    /\ code' = RetireTransports(code)
    /\ label' = code.entry
    /\ locals' = [n \in LocalNames(code.blocks) |-> Unbound]
    /\ UNCHANGED <<pc, recs, pending, err, out, world>>

-----------------------------------------------------------------------------
(* Steps inside compiled code.                                             *)

EnterBlock ==
    /\ mode = "enter"
    /\ Transition(Here, locals, "enter", pending)
    /\ mode' = "run"
    /\ UNCHANGED <<place, locals, err, out, world>>

InBody == mode = "run" /\ pc <= Len(Here.body)
AtTerm(t) == mode = "run" /\ pc > Len(Here.body) /\ Here.term.t = t

Move ==
    /\ InBody
    /\ LET i == Here.body[pc]
           v == IF i.op = "del" THEN Unbound
                ELSE IF i.value.v = "none" THEN NoObject
                ELSE locals[i.value.reads]
       IN /\ i.value.v \in {"none", "load"}
          /\ IF i.op = "store" /\ v = Unbound THEN Throw(Internal)
             ELSE Assign(i.name, v)
    /\ UNCHANGED world

JumpStep ==
    /\ AtTerm("jump")
    /\ TakeEdge(Here.term.edge, pending, NoObject)
    /\ UNCHANGED world

TableStep ==
    /\ AtTerm("table")
    /\ LET k == locals[Here.term.index]
       IN IF k = Unbound THEN Finish(Completion("raise", Internal))
          ELSE Goto(IF k + 1 \in DOMAIN Here.term.targets
                      THEN Here.term.targets[k + 1] ELSE Here.term.default)
    /\ UNCHANGED world

ReturnStep ==
    /\ AtTerm("return") /\ Here.term.value.v # "value"
    /\ LET v == IF Here.term.value.v = "none" THEN NoObject
                ELSE locals[Here.term.value.reads]
       IN IF v = Unbound THEN Throw(Internal)
          ELSE Finish(Completion("return", v))
    /\ UNCHANGED world

RaiseStep ==
    /\ AtTerm("raise")
    /\ Throw(IF Here.term.value = NoneValue
               THEN IF CurrentlyHandled = NoObject THEN NothingToReraise
                    ELSE CurrentlyHandled
             ELSE IF locals[Here.term.value.reads] \in {Unbound, NoObject}
               THEN Internal
             ELSE locals[Here.term.value.reads])
    /\ UNCHANGED world

(* try_dispatch_exception_edge: the region the exception is on its way to  *)
(* is marked before the edge is taken.                                     *)
Dispatch ==
    /\ mode = "throw"
    /\ IF Here.exc = NoEdge THEN Finish(Completion("raise", err))
       ELSE LET handlers == HandledParams(BlockAt(Here.exc.to))
            IN TakeEdge(Here.exc, IF handlers = <<>> THEN pending
                                  ELSE Last(handlers).name, err)
    /\ UNCHANGED world

-----------------------------------------------------------------------------
(* Steps of unknown code.                                                  *)

(* The expression about to be evaluated, if it runs unknown code.          *)
Event == IF InBody THEN Here.body[pc].value
         ELSE IF AtTerm("return") THEN Here.term.value
         ELSE IF AtTerm("if") THEN Here.term.test
         ELSE NoneValue

AtEvent == Event.v \in {"call", "value", "test", "match"}

Follow(next) == ref' = next /\ before' = Involved(ref.stack)

Completes ==
    /\ Event.v \in {"call", "value"}
    /\ LET v == IF Event.v = "value" THEN fresh ELSE NoObject
       IN /\ IF InBody THEN Assign(Here.body[pc].name, v)
             ELSE Finish(Completion("return", v))
          /\ Follow(Completed(ref, v))
    /\ fresh' = IF Event.v = "value" THEN fresh + 1 ELSE fresh
    /\ UNCHANGED <<raises, turns>>

Raises ==
    /\ AtEvent /\ raises < MaxRaises
    /\ Throw(fresh)
    /\ Follow(Raised(ref, fresh))
    /\ fresh' = fresh + 1 /\ raises' = raises + 1
    /\ UNCHANGED turns

Answers ==
    /\ Event.v \in {"test", "match"}
    /\ \E truth \in BOOLEAN :
          /\ Event.v = "test" /\ truth => turns < MaxTurns
          /\ turns' = IF Event.v = "test" /\ truth THEN turns + 1 ELSE turns
          /\ Goto(IF truth THEN Here.term.then ELSE Here.term.else)
          /\ Follow(Answered(ref, truth))
    /\ UNCHANGED <<fresh, raises>>

Terminated == mode = "done" /\ UNCHANGED vars

Next == \/ Lower \/ BindEdges \/ SplitSteps \/ UnwindPending
        \/ SplitAgain \/ Retire
        \/ EnterBlock \/ Move \/ JumpStep \/ TableStep \/ ReturnStep
        \/ RaiseStep \/ Dispatch \/ Completes \/ Raises \/ Answers
        \/ Terminated

Spec == Init /\ [][Next]_vars

-----------------------------------------------------------------------------
BoundNames ==
    {<<n[2], locals[n]>> : n \in {m \in DOMAIN locals :
                                    m[1] = "as" /\ locals[m] # Unbound}}

(* The compiled function means what its source means: it reaches the same  *)
(* unknown code in the same order, with the same exception being handled,  *)
(* the same handler names bound and the same exception given to the test   *)
(* of a handler, and it completes in the same way with the same object.    *)
MeansItsSource ==
    /\ AtEvent =>
         /\ ref.ev = Event.v /\ ref.id = Event.n
         /\ Handled(ref.stack) = CurrentlyHandled
         /\ Bound(ref.stack) = BoundNames
         /\ Event.v = "match" => locals[Event.reads] = Last(ref.stack).exc
    /\ mode = "done" => ref.ev = "done" /\ ref.end = out

Objects == 1..(fresh - 1)
Payloads == {n \in DOMAIN locals : n[1] = "payload"}

(* What the exception and payload parameters hold.                         *)
Carried ==
    {locals[n] : n \in {m \in DOMAIN locals :
        m[1] \in {"try_exc", "finally_exc", "payload", "escaping"}}}

(* Whenever unknown code runs the function's storage holds the values that *)
(* wait for a finally suite, since that code may drop every other          *)
(* reference to them, and it holds nothing else: an exception that is no   *)
(* longer handled and a value that was given up are not kept alive.        *)
HoldsWhatItMust ==
    AtEvent => /\ Awaiting(ref.stack) \cap Objects \subseteq Carried
               /\ Carried \cap Objects \subseteq ToSet(Involved(ref.stack))

(* What was waiting or handled inside the finally suite that o waited for  *)
(* and is of no more use to the source.                                    *)
AbandonedInside(o) ==
    LET i == SelectInSeq(before, LAMBDA x : x = o)
        inside == IF i = 0 THEN {}
                  ELSE {before[k] : k \in i..Len(before)} \ {o}
    IN inside \ (ToSet(Involved(ref.stack)) \cup {ref.end.v})

(* Waiting values are given up innermost first, each one only after the    *)
(* handlers entered inside its finally suite have been left, and all of    *)
(* them before the function completes: giving an object up may run its     *)
(* finalizer, which sees what is still held and what is being handled.     *)
GivenUpInOrder ==
    [][/\ \A n \in Payloads :
            locals'[n] # locals[n] =>
              LET inside == AbandonedInside(locals[n])
              IN /\ \A m \in Payloads : locals'[m] \notin inside
                 /\ \A i \in DOMAIN recs : recs[i].exc \notin inside
       /\ mode' = "done" =>
            \A n \in Payloads : locals[n] \notin ToSet(before) \ {out'.v}]_vars

=============================================================================
