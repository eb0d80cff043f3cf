------------------------------ MODULE PythonTry ------------------------------
(***************************************************************************)
(* What loops and try statements mean in Python, as a machine of its own:  *)
(* the statements still to run are a stack of frames, and a completion     *)
(* (falling through, break, continue, return or raise) passes from frame   *)
(* to frame until one of them keeps it.  Nothing here comes from the       *)
(* compiler.  The machine stops at every place where Python code of        *)
(* unknown effect runs: a call, the value of a return, a loop test, the    *)
(* test of a handler's exception type.                                     *)
(***************************************************************************)
EXTENDS TryLowering

NoObject == 0     \* no exception, or None as a value

(* The exception of a raise statement outside any handler.                 *)
NothingToReraise == 99

Completion(c, v) == [c |-> c, v |-> v]
Through == Completion("next", NoObject)

-----------------------------------------------------------------------------
(* Frames, innermost last.                                                 *)

SeqFrame(stmts) == [f |-> "seq", stmts |-> stmts]
LoopFrame(s) == [f |-> "loop", s |-> s]
BodyFrame(s) == [f |-> "body", s |-> s]             \* the handlers apply
GuardFrame(s) == [f |-> "guard", s |-> s]           \* the finally suite will run
MatchFrame(s, h, e) == [f |-> "match", s |-> s, h |-> h, exc |-> e]
HandlerFrame(e) == [f |-> "handler", exc |-> e]
NamedFrame(h, e) == [f |-> "named", h |-> h, exc |-> e]
FinalFrame(c) == [f |-> "final", pending |-> c]     \* it runs now

(* The exception being handled: of the innermost handler, or of a finally  *)
(* suite that an exception caused to run.                                  *)
Handled(stack) ==
    LET handles(fr) == \/ fr.f \in {"match", "handler"}
                       \/ fr.f = "final" /\ fr.pending.c = "raise"
        i == SelectLastInSeq(stack, handles)
    IN IF i = 0 THEN NoObject
       ELSE IF stack[i].f = "final" THEN stack[i].pending.v
       ELSE stack[i].exc

(* The objects that wait for a finally suite to finish.                    *)
Awaiting(stack) ==
    {stack[i].pending.v : i \in {k \in DOMAIN stack :
        stack[k].f = "final" /\ stack[k].pending.c \in {"return", "raise"}}}

(* Those and the exceptions being handled, outermost first.                *)
Involved(stack) ==
    LET ofFrame(fr) ==
            IF fr.f \in {"match", "handler"} THEN <<fr.exc>>
            ELSE IF fr.f = "final" /\ fr.pending.c \in {"return", "raise"}
              THEN <<fr.pending.v>>
            ELSE <<>>
    IN FlattenSeq([i \in DOMAIN stack |-> ofFrame(stack[i])])

(* The names bound by handlers: pairs of a handler and an exception.       *)
Bound(stack) ==
    {<<stack[i].h, stack[i].exc>> :
        i \in {k \in DOMAIN stack : stack[k].f = "named"}}

-----------------------------------------------------------------------------
(* A stop: the kind of event, the statement it belongs to, and the frames. *)
Stop(ev, n, stack) == [ev |-> ev, id |-> n, stack |-> stack,
                       end |-> Through]
Finished(c) == [ev |-> "done", id |-> 0, stack |-> <<>>, end |-> c]

RECURSIVE Settle(_, _)

(* An exception meets the handlers of s from the h-th on.                  *)
Meet(s, h, e, below) ==
    IF h > Len(s.handlers) THEN Settle(below, Completion("raise", e))
    ELSE IF s.handlers[h].typed
      THEN Stop("match", s.handlers[h].id, Append(below, MatchFrame(s, h, e)))
    ELSE Settle(below \o <<HandlerFrame(e), SeqFrame(s.handlers[h].body)>>,
                Through)

(* The next statement starts.                                              *)
Begin(s, below) ==
    CASE s.s = "call"     -> Stop("call", s.id, below)
      [] s.s = "return"   -> Stop("value", s.id, below)
      [] s.s = "break"    -> Settle(below, Completion("break", NoObject))
      [] s.s = "continue" -> Settle(below, Completion("continue", NoObject))
      [] s.s = "raise"    ->
            LET e == Handled(below)
            IN Settle(below, Completion("raise", IF e = NoObject
                                                   THEN NothingToReraise
                                                   ELSE e))
      [] s.s = "while"    -> Stop("test", s.id, Append(below, LoopFrame(s)))
      [] s.s = "try"      ->
            Settle(below \o (IF s.final = <<>> THEN <<>> ELSE <<GuardFrame(s)>>)
                         \o <<BodyFrame(s), SeqFrame(s.body)>>, Through)

(* A completion reaches the innermost frame.                               *)
Settle(stack, c) ==
    LET top == Last(stack)
        below == Front(stack)
    IN IF stack = <<>>
         THEN Finished(IF c.c = "next" THEN Completion("return", NoObject)
                       ELSE c)
       ELSE CASE top.f = "seq" ->
                   IF c.c = "next" /\ top.stmts # <<>>
                     THEN Begin(Head(top.stmts),
                                Append(below, SeqFrame(Tail(top.stmts))))
                     ELSE Settle(below, c)
              [] top.f = "loop" ->
                   IF c.c \in {"next", "continue"}
                     THEN Stop("test", top.s.id, stack)
                   ELSE IF c.c = "break" THEN Settle(below, Through)
                   ELSE Settle(below, c)
              [] top.f = "body" ->
                   IF c.c = "next"
                     THEN Settle(Append(below, SeqFrame(top.s.orelse)), Through)
                   ELSE IF c.c = "raise" THEN Meet(top.s, 1, c.v, below)
                   ELSE Settle(below, c)
              [] top.f = "guard" ->
                   Settle(below \o <<FinalFrame(c), SeqFrame(top.s.final)>>,
                          Through)
              [] top.f = "final" ->
                   Settle(below, IF c.c = "next" THEN top.pending ELSE c)
              [] OTHER -> Settle(below, c)

(* What follows an event, given its outcome: an exception e, a truth value *)
(* or the object a return delivers.                                        *)
Raised(at, e) ==
    Settle(IF at.ev \in {"match", "test"} THEN Front(at.stack) ELSE at.stack,
           Completion("raise", e))

Answered(at, truth) ==
    LET top == Last(at.stack)
        below == Front(at.stack)
    IN IF at.ev = "test"
         THEN IF truth
                THEN Settle(Append(at.stack, SeqFrame(top.s.body)), Through)
                ELSE Settle(Append(below, SeqFrame(top.s.orelse)), Through)
       ELSE LET h == top.s.handlers[top.h]
            IN IF ~truth THEN Meet(top.s, top.h + 1, top.exc, below)
               ELSE Settle(below \o <<HandlerFrame(top.exc)>>
                                 \o (IF h.named
                                       THEN <<NamedFrame(h.id, top.exc)>>
                                       ELSE <<>>)
                                 \o <<SeqFrame(h.body)>>, Through)

Completed(at, v) ==
    Settle(at.stack, IF at.ev = "value" THEN Completion("return", v)
                     ELSE Through)

Start(stmts) == Settle(<<SeqFrame(stmts)>>, Through)

=============================================================================
