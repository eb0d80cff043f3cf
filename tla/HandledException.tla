-------------------------- MODULE HandledException --------------------------
(***************************************************************************)
(* The handled-exception state of compiled functions on one thread         *)
(* (soac_jit/src/handled_exception.rs) with the block transitions that     *)
(* drive it and the preserved-state owner of a suspended activation.       *)
(*                                                                         *)
(* CPython keeps the exception being handled in a chain of items, one for  *)
(* the thread and one for each running generator.  A compiled function     *)
(* shares its caller's item; a suspendable one links an item of its own    *)
(* while it runs.  On entering a handler region the state pushes a record  *)
(* of the value it replaces; on leaving one it restores that value and     *)
(* drops the old one.  Dropping the last reference to an exception runs a  *)
(* finalizer in the middle of the transition: arbitrary Python, which may  *)
(* replace the handled exception, call compiled functions, resume          *)
(* suspended ones, or clear the owner of the very activation that is being *)
(* changed.                                                                *)
(***************************************************************************)
EXTENDS Naturals, Sequences, SequencesExt

CONSTANTS Thread,     \* the thread's own item
          Gens,       \* suspendable activations
          Funcs,      \* activations of ordinary compiled functions
          Scopes,     \* handler regions, as numbers > 0
          ScopesOf,   \* the regions of each activation's function
          Finally,    \* the regions also reached without an exception
          Parent,     \* the region a region is nested in, 0 for none
          Excs,       \* exception objects
          None,       \* no exception
          MaxStack    \* bound on the nesting of calls and finalizers

Acts == Gens \cup Funcs
Items == {Thread} \cup Gens
Values == Excs \cup {None}

(* The regions around and including region s, outermost first.             *)
Path[s \in Scopes \cup {0}] ==
    IF s = 0 THEN <<>> ELSE Append(Path[Parent[s]], s)

Paths == {Path[s] : s \in Scopes \cup {0}}

(* Room for the records of an activation: one for each of its regions.     *)
Capacity(a) == Cardinality(ScopesOf[a])

VARIABLES
    top,        \* the thread's current item (exc_info)
    prev,       \* an item's previous_item
    val,        \* an item's exc_value
    item,       \* the item an activation uses
    recs,       \* its records, each a scope and the value it replaced
    pending,    \* its pending_scope: the region a raise is on its way to
    active, terminal,
    loc,        \* the exception operand of each region of an activation
    at,         \* the block a suspended activation continues in
    clearing,   \* the preserved-state owner has begun to clear
    dropped,    \* the owner has been destroyed
    refs,       \* reference counts of the exceptions
    raised,     \* the thread's raised-error indicator
    stack,      \* what the thread executes, innermost last
    entered,    \* source view: the handler regions an activation is inside
    incoming    \* source view: the exception on its way to a handler

vars == <<top, prev, val, item, recs, pending, active, terminal, loc, at,
          clearing, dropped, refs, raised, stack, entered, incoming>>

link == <<top, prev, item, active>>
owner == <<terminal, clearing, dropped, at>>
source == <<entered, incoming>>

-----------------------------------------------------------------------------
(* Frames.  "py" runs Python code, the finalizer of fin unless that is     *)
(* None.  "edge" takes an edge to a block that it enters in mode next,     *)
(* "put" writes its operand, "entry" is about to enter the block and "run" *)
(* executes it.  "trim" and "unpin" are inside select; what follows them   *)
(* is the rest of the edge (next), or the body of the block that selected  *)
(* ("run").  "exit" is inside retire_scopes_and_detach, "locals" releases  *)
(* a finished function's operands, "terminal" is the terminal block of a   *)
(* finished generator, and "clear" and "residual" release what a suspended *)
(* activation's owner still holds.                                         *)

Py(fin, err)   == [k |-> "py", fin |-> fin, saved |-> err]
Entry(a, p, m) == [k |-> "entry", a |-> a, path |-> p, mode |-> m]
Run(a, p, m)   == [k |-> "run", a |-> a, path |-> p, mode |-> m]
Edge(k, a, p, inc, next) == [k |-> k, a |-> a, path |-> p, inc |-> inc, next |-> next]

Frame == stack[Len(stack)]
Outer == SubSeq(stack, 1, Len(stack) - 1)
With(f) == Append(Outer, f)

OnStack(a) == \E i \in 1..Len(stack) : stack[i].k # "py" /\ stack[i].a = a

(* The error a runtime check raises.  It is not one of the exceptions      *)
(* whose references are counted.                                           *)
RuntimeError == "runtime error"

Incref(rf, v) == IF v \in Excs THEN [rf EXCEPT ![v] = @ + 1] ELSE rf
Decref(rf, v) == IF v \in Excs THEN [rf EXCEPT ![v] = @ - 1] ELSE rf

(* Py_XDECREF(v) with the thread about to continue in stk: the last        *)
(* reference to an exception runs its finalizer first, with the raised     *)
(* error set aside as CPython's finalizer slot does.                       *)
Release(rf, v, stk, err) ==
    LET now == Decref(rf, v) IN
    /\ refs' = now
    /\ IF v \in Excs /\ now[v] = 0 /\ Len(stk) < MaxStack
         THEN stack' = Append(stk, Py(v, err)) /\ raised' = None
         ELSE stack' = stk /\ raised' = err

(* An exception object that may be created: nobody refers to it and it is  *)
(* not in the middle of its finalizer.                                     *)
Unused(e) ==
    /\ refs[e] = 0
    /\ \A i \in 1..Len(stack) : stack[i].k = "py" => stack[i].fin # e

Reachable(e) == refs[e] > 0 \/ Unused(e)

-----------------------------------------------------------------------------
Init ==
    /\ top = Thread
    /\ prev = [i \in Items |-> None]
    /\ val = [i \in Items |-> None]
    /\ item = [a \in Acts |-> None]
    /\ recs = [a \in Acts |-> <<>>]
    /\ pending = [a \in Acts |-> 0]
    /\ active = [a \in Acts |-> FALSE]
    /\ terminal = [a \in Acts |-> FALSE]
    /\ loc = [a \in Acts |-> [s \in Scopes |-> None]]
    /\ at = [g \in Gens |-> <<>>]
    /\ clearing = [g \in Gens |-> FALSE]
    /\ dropped = [g \in Gens |-> FALSE]
    /\ refs = [e \in Excs |-> 0]
    /\ raised = None
    /\ stack = <<Py(None, None)>>
    /\ entered = [a \in Acts |-> <<>>]
    /\ incoming = [a \in Acts |-> None]

-----------------------------------------------------------------------------
(* Python code.                                                            *)

InPython == Frame.k = "py"

(* Calling a compiled function: initialize_normal shares the current item. *)
Call(f) ==
    /\ InPython /\ raised = None
    /\ ~OnStack(f) /\ Len(stack) < MaxStack
    /\ item' = [item EXCEPT ![f] = top]
    /\ recs' = [recs EXCEPT ![f] = <<>>]
    /\ pending' = [pending EXCEPT ![f] = 0]
    /\ active' = [active EXCEPT ![f] = TRUE]
    /\ stack' = Append(stack, Entry(f, <<>>, "enter"))
    /\ UNCHANGED <<top, prev, val, loc, refs, raised, owner, source>>

(* Mutant: an enter that does not check whether the state is running.      *)
ResumeRunning(g) ==
    /\ InPython /\ raised = None /\ Len(stack) < MaxStack
    /\ ~terminal[g]
    /\ item' = [item EXCEPT ![g] = g]
    /\ prev' = [prev EXCEPT ![g] = top]
    /\ top' = g
    /\ active' = [active EXCEPT ![g] = TRUE]
    /\ stack' = Append(stack, Entry(g, at[g], "enter"))
    /\ UNCHANGED <<val, recs, pending, loc, refs, raised, owner, source>>

(* Resuming a suspendable one: enter refuses a running or closed state and *)
(* links the activation's own item in front of the current one.            *)
Resume(g) ==
    /\ InPython /\ raised = None /\ Len(stack) < MaxStack
    /\ ~active[g] /\ ~terminal[g]
    /\ item' = [item EXCEPT ![g] = g]
    /\ prev' = [prev EXCEPT ![g] = top]
    /\ top' = g
    /\ active' = [active EXCEPT ![g] = TRUE]
    /\ stack' = Append(stack, Entry(g, at[g], "enter"))
    /\ UNCHANGED <<val, recs, pending, loc, refs, raised, owner, source>>

(* PyErr_SetHandledException on the current item.                          *)
SetHandled(v) ==
    /\ InPython /\ raised = None
    /\ v # None => Reachable(v)
    /\ v # val[top]
    /\ val' = [val EXCEPT ![top] = v]
    /\ Release(Incref(refs, v), val[top], stack, None)
    /\ UNCHANGED <<link, recs, pending, loc, owner, source>>

(* Python code other than a finalizer returns to compiled code with an     *)
(* error: one it raises, or one a callee left.                             *)
RaiseFrom(e) ==
    /\ InPython /\ Frame.fin = None /\ Len(stack) > 1
    /\ raised = None /\ Reachable(e)
    /\ raised' = e
    /\ refs' = Incref(refs, e)
    /\ stack' = Outer
    /\ UNCHANGED <<link, val, recs, pending, loc, owner, source>>

Propagate ==
    /\ InPython /\ Frame.fin = None /\ Len(stack) > 1
    /\ raised # None
    /\ stack' = Outer
    /\ UNCHANGED <<link, val, recs, pending, loc, refs, raised, owner, source>>

(* An error a callee left is swallowed, always so in a finalizer.          *)
Swallow ==
    /\ InPython /\ raised # None
    /\ Release(refs, raised, stack, None)
    /\ UNCHANGED <<link, val, recs, pending, loc, owner, source>>

PyReturn ==
    /\ InPython /\ raised = None /\ Len(stack) > 1
    /\ stack' = Outer
    /\ raised' = Frame.saved
    /\ UNCHANGED <<link, val, recs, pending, loc, refs, owner, source>>

(* The preserved-state owner is cleared (tp_clear), running or not, or,    *)
(* once nothing executes on its behalf, destroyed.  Both mark the handled  *)
(* state terminal before any object is released; a second clear of an      *)
(* owner returns at once, and a destruction still drops the handled state. *)
ClearOwner(g) ==
    /\ InPython /\ raised = None /\ Len(stack) < MaxStack
    /\ ~clearing[g]
    /\ clearing' = [clearing EXCEPT ![g] = TRUE]
    /\ terminal' = [terminal EXCEPT ![g] = TRUE]
    /\ stack' = Append(stack, [k |-> "clear", a |-> g])
    /\ UNCHANGED <<link, val, recs, pending, loc, refs, raised, dropped, at, source>>

DropOwner(g) ==
    /\ InPython /\ raised = None /\ Len(stack) < MaxStack
    /\ ~dropped[g] /\ ~OnStack(g)
    /\ dropped' = [dropped EXCEPT ![g] = TRUE]
    /\ clearing' = [clearing EXCEPT ![g] = TRUE]
    /\ terminal' = [terminal EXCEPT ![g] = TRUE]
    /\ stack' = Append(stack, [k |-> IF clearing[g] THEN "residual" ELSE "clear",
                               a |-> g])
    /\ UNCHANGED <<link, val, recs, pending, loc, refs, raised, at, source>>
-----------------------------------------------------------------------------
(* Block transitions.                                                      *)

(* The regions of path p with their operands, as select receives them.     *)
Regions(a, p, inc) ==
    [i \in 1..Len(p) |->
        [scope |-> p[i],
         exc |-> IF inc # None /\ i = Len(p) THEN inc ELSE loc[a][p[i]]]]

(* Mutant: a scan that forgets which region the raise is on its way to.    *)
ScanIgnoringRaise(a, regions, mode) ==
    LET n == Len(regions)
        Matches(i, common) ==
            /\ common < Len(recs[a])
            /\ regions[i].scope = recs[a][common + 1].scope
        scan[i \in 0..n] ==
            IF i = 0 THEN [common |-> 0, fresh |-> n + 1]
            ELSE LET before == scan[i - 1] IN
                 IF before.fresh <= n THEN before
                 ELSE IF Matches(i, before.common)
                      THEN [before EXCEPT !.common = @ + 1]
                 ELSE IF mode # "unwind" /\ regions[i].exc # None
                      THEN [before EXCEPT !.fresh = i]
                 ELSE before
    IN scan[n]

(* select's scan of the regions: how many records stay, and the first      *)
(* region that is entered afresh.  A record continues whatever its operand *)
(* is now, unless a raise is on its way to that very region.               *)
Scan(a, regions, mode) ==
    LET n == Len(regions)
        Matches(i, common) ==
            /\ common < Len(recs[a])
            /\ mode = "unwind" \/ regions[i].scope # pending[a]
            /\ regions[i].scope = recs[a][common + 1].scope
        scan[i \in 0..n] ==
            IF i = 0 THEN [common |-> 0, fresh |-> n + 1]
            ELSE LET before == scan[i - 1] IN
                 IF before.fresh <= n THEN before
                 ELSE IF Matches(i, before.common)
                      THEN [before EXCEPT !.common = @ + 1]
                 ELSE IF /\ mode # "unwind"
                         /\ regions[i].exc # None \/ regions[i].scope = pending[a]
                      THEN [before EXCEPT !.fresh = i]
                 ELSE before
    IN scan[n]

HasValue(region) == region.exc # None

(* select: refuse an activation that is over; otherwise pin the operands   *)
(* of the regions to enter and start restoring the regions that are left.  *)
Select(a, p, mode, inc, next) ==
    LET regions == Regions(a, p, inc)
        found == Scan(a, regions, mode)
        fresh == SelectSeq(SubSeq(regions, found.fresh, Len(regions)), HasValue)
    IN IF ~active[a] \/ terminal[a]
         THEN /\ Release(refs, inc, With(Run(a, p, "failed")), RuntimeError)
              /\ UNCHANGED <<link, val, recs, pending, loc, owner, source>>
         ELSE /\ refs' = FoldSeq(LAMBDA r, rf : Incref(rf, r.exc), refs, fresh)
              /\ stack' = With([k |-> "trim", a |-> a, path |-> p, mode |-> mode,
                                inc |-> inc, next |-> next, keep |-> found.common,
                                fresh |-> fresh, pins |-> fresh])
              /\ UNCHANGED <<link, val, recs, pending, loc, raised, owner, source>>

(* Mutant: a pop that releases the saved value and keeps the current one.  *)
PopKeeping(a) ==
    LET n == Len(recs[a]) IN
    /\ recs' = [recs EXCEPT ![a] = SubSeq(@, 1, n - 1)]
    /\ UNCHANGED val
    /\ Release(refs, recs[a][n].previous, stack, raised)

(* One round of pop_to: the record goes and its value is back in the item  *)
(* before the old value is released.                                       *)
PopRecord(a) ==
    LET n == Len(recs[a]) IN
    /\ recs' = [recs EXCEPT ![a] = SubSeq(@, 1, n - 1)]
    /\ val' = [val EXCEPT ![item[a]] = recs[a][n].previous]
    /\ Release(refs, val[item[a]], stack, raised)

SelectPop ==
    /\ Frame.k = "trim" /\ Len(recs[Frame.a]) > Frame.keep
    /\ PopRecord(Frame.a)
    /\ UNCHANGED <<link, pending, loc, owner, source>>

(* Mutant: entering a region without a reference of the item's own.        *)
PushBorrowed ==
    LET a == Frame.a  r == Head(Frame.fresh) IN
    /\ Frame.k = "trim" /\ Len(recs[a]) = Frame.keep
    /\ Frame.mode = "enter" /\ Frame.fresh # <<>>
    /\ ~terminal[a] /\ Len(recs[a]) < Capacity(a)
    /\ recs' = [recs EXCEPT ![a] = Append(@, [scope |-> r.scope,
                                              previous |-> val[item[a]]])]
    /\ val' = [val EXCEPT ![item[a]] = r.exc]
    /\ stack' = With([Frame EXCEPT !.keep = @ + 1, !.fresh = Tail(@)])
    /\ UNCHANGED <<link, pending, loc, refs, raised, owner, source>>

(* Entering a fresh region records the value it replaces.                  *)
SelectPush ==
    LET a == Frame.a  r == Head(Frame.fresh) IN
    /\ Frame.k = "trim" /\ Len(recs[a]) = Frame.keep
    /\ Frame.mode = "enter" /\ Frame.fresh # <<>>
    /\ ~terminal[a] /\ Len(recs[a]) < Capacity(a)
    /\ recs' = [recs EXCEPT ![a] = Append(@, [scope |-> r.scope,
                                              previous |-> val[item[a]]])]
    /\ val' = [val EXCEPT ![item[a]] = r.exc]
    /\ refs' = Incref(refs, r.exc)
    /\ stack' = With([Frame EXCEPT !.keep = @ + 1, !.fresh = Tail(@)])
    /\ UNCHANGED <<link, pending, loc, raised, owner, source>>

(* Nothing more to enter, or the owner was cleared by a finalizer: the     *)
(* pins are released and select reports its outcome.                       *)
SelectEnd ==
    LET a == Frame.a
        failed == Frame.mode = "enter" /\ Frame.fresh # <<>>
    IN
    /\ Frame.k = "trim" /\ Len(recs[a]) = Frame.keep
    /\ failed => terminal[a] \/ Len(recs[a]) >= Capacity(a)
    /\ pending' = [pending EXCEPT ![a] = IF Frame.mode = "enter" THEN 0 ELSE @]
    /\ stack' = With([k |-> "unpin", a |-> a, path |-> Frame.path,
                      mode |-> IF failed THEN "failed" ELSE Frame.mode,
                      inc |-> Frame.inc, next |-> Frame.next, pins |-> Frame.pins])
    /\ UNCHANGED <<link, val, recs, loc, refs, raised, owner, source>>

Unpin ==
    /\ Frame.k = "unpin" /\ Frame.pins # <<>>
    /\ Release(refs, Head(Frame.pins).exc,
               With([Frame EXCEPT !.pins = Tail(@)]), raised)
    /\ UNCHANGED <<link, val, recs, pending, loc, owner, source>>

SelectReturn ==
    /\ Frame.k = "unpin" /\ Frame.pins = <<>>
    /\ stack' = With(IF Frame.next = "run"
                       THEN Run(Frame.a, Frame.path, Frame.mode)
                       ELSE Edge("put", Frame.a, Frame.path, Frame.inc, Frame.next))
    /\ raised' = IF Frame.mode = "failed" THEN RuntimeError ELSE raised
    /\ incoming' = [incoming EXCEPT ![Frame.a] = IF Frame.mode = "enter" THEN None ELSE @]
    /\ UNCHANGED <<link, val, recs, pending, loc, refs, owner, entered>>

(* Before the edge's operand is written the regions that are left close    *)
(* (the Leave transition on ordinary edges and in the deopt interpreter,   *)
(* Unwind if that is the target's); an exception edge of native code       *)
(* writes its operand straight away.                                       *)
LeaveForTarget ==
    /\ Frame.k = "edge"
    /\ Select(Frame.a, Frame.path, IF Frame.next = "unwind" THEN "unwind" ELSE "leave",
              Frame.inc, Frame.next)

DispatchDirectly ==
    /\ Frame.k = "edge" /\ Frame.inc # None
    /\ stack' = With([Frame EXCEPT !.k = "put"])
    /\ UNCHANGED <<link, val, recs, pending, loc, refs, raised, owner, source>>

(* The operand of the target region is written: the incoming exception, or *)
(* None where a finally region is reached without one.                     *)
WriteOperand ==
    LET a == Frame.a
        p == Frame.path
        s == Last(p)
        fresh == p # <<>> /\ (Frame.inc # None \/ ~Contains(entered[a], s))
        entry == With(Entry(a, p, Frame.next))
    IN
    /\ Frame.k = "put"
    /\ IF fresh
         THEN /\ loc' = [loc EXCEPT ![a][s] = Frame.inc]
              /\ Release(refs, loc[a][s], entry, raised)
         ELSE /\ stack' = entry
              /\ UNCHANGED <<loc, refs, raised>>
    /\ UNCHANGED <<link, val, recs, pending, owner, source>>

(* Every block selects its regions on entry; a cleanup block of an         *)
(* exception on its way to a handler unwinds instead, and one that         *)
(* preserves the context goes on in it.                                    *)
EnterBlock ==
    /\ Frame.k = "entry"
    /\ Select(Frame.a, Frame.path, Frame.mode, None, "run")

-----------------------------------------------------------------------------
(* A block's body.                                                         *)

InBody == Frame.k = "run"

CallOut ==
    /\ InBody /\ raised = None /\ Len(stack) < MaxStack
    /\ stack' = Append(stack, Py(None, None))
    /\ UNCHANGED <<link, val, recs, pending, loc, refs, raised, owner, source>>

(* The operand of a region is released as soon as the source no longer     *)
(* names it, even while its handler is running, but not before it starts.  *)
ReleaseOperand(s) ==
    LET a == Frame.a IN
    /\ InBody /\ raised = None
    /\ pending[a] # s
    /\ loc[a][s] # None
    /\ loc' = [loc EXCEPT ![a][s] = None]
    /\ Release(refs, loc[a][s], stack, None)
    /\ UNCHANGED <<link, val, recs, pending, owner, source>>

(* An error in the body takes the block's exception edge to the handler of *)
(* region s: take the raised error, mark the region, follow the edge.  In  *)
(* the source the handlers around s stay open and s is entered anew.       *)
Dispatch(s) ==
    LET a == Frame.a
        inside == IF Frame.mode = "unwind" THEN Front(Frame.path) ELSE Frame.path
    IN
    /\ InBody /\ raised \in Excs
    /\ s \in ScopesOf[a]
    /\ Parent[s] = 0 \/ Contains(inside, Parent[s])
    /\ pending' = [pending EXCEPT ![a] = s]
    /\ raised' = None
    /\ \E next \in {"enter", "unwind"} :
          stack' = With(Edge("edge", a, Path[s], raised, next))
    /\ entered' = [entered EXCEPT ![a] =
                      Append(SelectSeq(@, LAMBDA t : Contains(Path[Parent[s]], t)), s)]
    /\ incoming' = [incoming EXCEPT ![a] = raised]
    /\ UNCHANGED <<link, val, recs, loc, refs, owner>>

(* An ordinary edge stays in the region, leaves regions, or goes into a    *)
(* finally region.  In the source the handlers it leaves close.            *)
Jump(p) ==
    LET a == Frame.a IN
    /\ InBody /\ raised = None /\ Frame.mode = "enter"
    /\ \/ IsPrefix(p, Frame.path)
       \/ /\ p # <<>> /\ Front(p) = Frame.path
          /\ Last(p) \in Finally \cap ScopesOf[a]
    /\ stack' = With(Edge("edge", a, p, None, "enter"))
    /\ entered' = [entered EXCEPT ![a] = SelectSeq(@, LAMBDA t : Contains(p, t))]
    /\ UNCHANGED <<link, val, recs, pending, loc, refs, raised, owner, incoming>>

(* A cleanup block goes on to another one, or to the handler it was        *)
(* unwinding to.                                                           *)
EndUnwind ==
    /\ InBody /\ raised = None /\ Frame.mode = "unwind"
    /\ \E next \in {"enter", "unwind"} :
          stack' = With(Edge("edge", Frame.a, Frame.path, None, next))
    /\ UNCHANGED <<link, val, recs, pending, loc, refs, raised, owner, source>>

(* The activation returns, fails, or yields.  A generator does not return  *)
(* or fail in its own blocks: their edges lead to a terminal block, which  *)
(* retires the state on entry.                                             *)
Exit(yielded) ==
    LET a == Frame.a IN
    /\ InBody
    /\ Frame.mode = "unwind" => raised # None
    /\ yielded => a \in Gens /\ raised = None
    /\ at' = IF yielded THEN [at EXCEPT ![a] = Frame.path] ELSE at
    /\ terminal' = [terminal EXCEPT ![a] = a \in Gens /\ (@ \/ ~yielded)]
    /\ stack' = With([k |-> "exit", a |-> a, yielded |-> yielded, block |-> Frame.mode])
    /\ UNCHANGED <<link, val, recs, pending, loc, refs, raised, clearing, dropped, source>>

(* An instruction raises a new exception in a block without an exception   *)
(* edge, and the activation fails.                                         *)
Fail(e) ==
    LET a == Frame.a IN
    /\ InBody /\ raised = None /\ Unused(e)
    /\ raised' = e
    /\ refs' = Incref(refs, e)
    /\ terminal' = [terminal EXCEPT ![a] = a \in Gens]
    /\ stack' = With([k |-> "exit", a |-> a, yielded |-> FALSE, block |-> Frame.mode])
    /\ UNCHANGED <<link, val, recs, pending, loc, at, clearing, dropped, source>>

-----------------------------------------------------------------------------
(* Leaving an activation, and releasing what its owner holds.              *)

(* Every activation but one that yields and may be resumed pops its scopes *)
(* while its item is still linked.                                         *)
Retires == Frame.a \in Funcs \/ terminal[Frame.a]

RetirePop ==
    /\ Frame.k = "exit" /\ Retires /\ recs[Frame.a] # <<>>
    /\ PopRecord(Frame.a)
    /\ UNCHANGED <<link, pending, loc, owner, source>>

Detach ==
    LET a == Frame.a IN
    /\ Frame.k = "exit"
    /\ Retires => recs[a] = <<>>
    /\ pending' = [pending EXCEPT ![a] = IF Retires THEN 0 ELSE @]
    /\ active' = [active EXCEPT ![a] = FALSE]
    /\ IF a \in Gens
         THEN /\ top' = prev[a]
              /\ prev' = [prev EXCEPT ![a] = None]
              /\ UNCHANGED item
         ELSE /\ item' = [item EXCEPT ![a] = None]
              /\ UNCHANGED <<top, prev>>
    /\ stack' = CASE a \in Funcs -> With([k |-> "locals", a |-> a])
                  [] a \in Gens /\ ~Frame.yielded ->
                       With([k |-> IF Frame.block = "failed" THEN "residual" ELSE "terminal",
                             a |-> a])
                  [] OTHER -> Outer
    /\ entered' = [entered EXCEPT ![a] = IF Retires THEN <<>> ELSE @]
    /\ incoming' = [incoming EXCEPT ![a] = None]
    /\ UNCHANGED <<val, recs, loc, refs, raised, owner>>

(* A finished function's operands, and an owner's slots in the terminal    *)
(* block and when it is cleared, are emptied before each value is          *)
(* released.                                                               *)
DropOperand(s) ==
    LET a == Frame.a IN
    /\ Frame.k \in {"locals", "terminal", "clear"}
    /\ loc[a][s] # None
    /\ loc' = [loc EXCEPT ![a][s] = None]
    /\ Release(refs, loc[a][s], stack, raised)
    /\ UNCHANGED <<link, val, recs, pending, owner, source>>

(* An owner cleared while its activation runs leaves the handled state to  *)
(* that activation.                                                        *)
OperandsDropped ==
    LET a == Frame.a IN
    /\ Frame.k \in {"locals", "terminal", "clear"}
    /\ \A s \in Scopes : loc[a][s] = None
    /\ stack' = IF Frame.k = "terminal" \/ (Frame.k = "clear" /\ ~active[a])
                  THEN With([k |-> "residual", a |-> a])
                  ELSE Outer
    /\ UNCHANGED <<link, val, recs, pending, loc, refs, raised, owner, source>>

(* release_residual: the saved values from the top, without restoring      *)
(* them, then the item's own value.                                        *)
ReleaseRecord ==
    LET a == Frame.a  n == Len(recs[a]) IN
    /\ Frame.k = "residual" /\ n > 0
    /\ recs' = [recs EXCEPT ![a] = SubSeq(@, 1, n - 1)]
    /\ Release(refs, recs[a][n].previous, stack, raised)
    /\ UNCHANGED <<link, val, pending, loc, owner, source>>

ReleaseItem ==
    LET a == Frame.a IN
    /\ Frame.k = "residual" /\ recs[a] = <<>>
    /\ val' = [val EXCEPT ![a] = None]
    /\ pending' = [pending EXCEPT ![a] = 0]
    /\ Release(refs, val[a], Outer, raised)
    /\ UNCHANGED <<link, recs, loc, owner, source>>

-----------------------------------------------------------------------------
PythonStep ==
    \/ \E f \in Funcs : Call(f)
    \/ \E g \in Gens : Resume(g) \/ ClearOwner(g) \/ DropOwner(g)
    \/ \E v \in Values : SetHandled(v)
    \/ \E e \in Excs : RaiseFrom(e)
    \/ Propagate \/ Swallow \/ PyReturn

BodyStep ==
    \/ CallOut
    \/ \E s \in Scopes : ReleaseOperand(s) \/ Dispatch(s)
    \/ \E p \in Paths : Jump(p)
    \/ EndUnwind
    \/ \E y \in BOOLEAN : Exit(y)
    \/ \E e \in Excs : Fail(e)

TransitionStep ==
    \/ LeaveForTarget \/ DispatchDirectly \/ WriteOperand \/ EnterBlock
    \/ SelectPop \/ SelectPush \/ SelectEnd \/ Unpin \/ SelectReturn

ReleaseStep ==
    \/ RetirePop \/ Detach
    \/ \E s \in Scopes : DropOperand(s)
    \/ OperandsDropped \/ ReleaseRecord \/ ReleaseItem

Next == PythonStep \/ BodyStep \/ TransitionStep \/ ReleaseStep

Spec == Init /\ [][Next]_vars

-----------------------------------------------------------------------------
(* Properties.                                                             *)

ActivationFrames == {"edge", "put", "entry", "run", "trim", "unpin", "exit"}

(* The activations in progress, outermost first.                           *)
Running ==
    LET frames == SelectSeq(stack, LAMBDA f : f.k \in ActivationFrames)
    IN [i \in 1..Len(frames) |-> frames[i].a]

(* The items linked on the thread, outermost first.                        *)
Chain ==
    LET from[n \in 0..Cardinality(Items), i \in Items \cup {None}] ==
            IF n = 0 \/ i = None THEN <<>>
            ELSE Append(from[n - 1, prev[i]], i)
    IN from[Cardinality(Items), top]

(* The thread's chain of items is the thread's own item and then one item  *)
(* for each suspendable activation in progress, in the order of the calls: *)
(* an activation detaches only when its own item is the current one (the   *)
(* assertion in retire_scopes_and_detach), no item is linked twice, and    *)
(* an ordinary function's shared item is the one of its nearest            *)
(* suspendable caller.                                                     *)
ChainFollowsCalls ==
    /\ Chain = <<Thread>> \o SelectSeq(Running, LAMBDA a : a \in Gens)
    /\ \A a \in Acts : active[a] <=> Contains(Running, a)
    /\ Frame.k \in ActivationFrames => item[Frame.a] = top

(* While a block of a compiled function runs, the regions it has records   *)
(* for are exactly the handlers its source is inside, whatever finalizers  *)
(* did during the transitions: a handler that was re-entered has one       *)
(* record, a finally region reached without an exception has none, and an  *)
(* operand released early does not close its handler.  A handler that was  *)
(* raised to starts with that exception handled, also when the same        *)
(* handler was already open with another one.                              *)
RecordsMatchSource ==
    /\ \A i \in 1..Len(stack) :
          (stack[i].k = "run" /\ stack[i].mode = "enter") =>
             LET a == stack[i].a
             IN [n \in 1..Len(recs[a]) |-> recs[a][n].scope] = entered[a]
    /\ LET a == Frame.a IN
       (Frame.k = "unpin" /\ Frame.mode = "enter" /\ incoming[a] # None) =>
           val[item[a]] = incoming[a]

(* Every exception has exactly as many references as it has owners: the    *)
(* raised indicator, items, records, operands, pins and the error a        *)
(* finalizer set aside.  No transition, failing or not, leaks one or drops *)
(* one that is still in use, and a destroyed owner keeps none, however the *)
(* clear, the destruction and the activation's own exit were interleaved.  *)
Owners(e) ==
    LET Frames(P(_)) == Cardinality({i \in 1..Len(stack) : P(stack[i])})
        Incoming(f) == f.k \in {"edge", "put", "trim", "unpin"} /\ f.inc = e
        SetAside(f) == f.k = "py" /\ f.saved = e
        Pinned(f, n) ==
            /\ f.k \in {"trim", "unpin"}
            /\ n <= Len(f.pins) /\ f.pins[n].exc = e
        depths == 1..Cardinality(Scopes)
    IN (IF raised = e THEN 1 ELSE 0)
       + Cardinality({i \in Items : val[i] = e})
       + Cardinality({<<a, s>> \in Acts \X Scopes : loc[a][s] = e})
       + Cardinality({<<a, n>> \in Acts \X depths :
                         n <= Len(recs[a]) /\ recs[a][n].previous = e})
       + Cardinality({<<i, n>> \in (1..Len(stack)) \X depths : Pinned(stack[i], n)})
       + Frames(Incoming) + Frames(SetAside)

ReferencesBalance ==
    /\ \A e \in Excs : refs[e] = Owners(e)
    /\ \A g \in Gens :
          (dropped[g] /\ ~OnStack(g)) =>
              recs[g] = <<>> /\ val[g] = None /\ ~active[g]

-----------------------------------------------------------------------------
(* The records of a context: those of the activations running on its item, *)
(* outermost first, or those its suspended activation was left with.       *)
RecordsOf(c) ==
    LET users == SelectSeq(stack, LAMBDA f : f.k \in ActivationFrames /\ item[f.a] = c)
        all[n \in 0..Len(users)] ==
            IF n = 0 THEN <<>> ELSE all[n - 1] \o recs[users[n].a]
    IN IF c = Thread \/ active[c] THEN all[Len(users)]
       ELSE IF terminal[c] THEN <<>> ELSE recs[c]

(* The innermost value is in the item; that of an activation that is over  *)
(* is nobody's.                                                            *)
HandledIn(c) ==
    [open |-> RecordsOf(c),
     value |-> IF c # Thread /\ terminal[c] /\ ~active[c] THEN None ELSE val[c]]

Promise == INSTANCE HandledStack
    WITH chain <- Chain, handled <- [c \in Items |-> HandledIn(c)]

(* The records and items implement the source-level stacks of handled      *)
(* exceptions: only the innermost value of the current context changes, a  *)
(* caller gets back the value it had, and a suspended activation finds its *)
(* handlers as it left them.                                               *)
ImplementsHandledStack == Promise!Spec

=============================================================================
