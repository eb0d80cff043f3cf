---------------------------- MODULE HandledStack ----------------------------
(***************************************************************************)
(* What source-level exception handling promises about the handled         *)
(* exceptions of one thread.                                               *)
(*                                                                         *)
(* A context is a place that remembers handled exceptions: one for the     *)
(* thread itself and one for each suspendable function.  Contexts nest as  *)
(* suspendable functions resume each other; the innermost one is current.  *)
(* In a context the handlers that are open form a stack, and below them is *)
(* the value the context had before any of them was entered.  Only the     *)
(* innermost value of the current context ever changes: a handler opens    *)
(* above it, closes, or has its exception replaced.  Every outer value,    *)
(* and every suspended context, stays exactly as it was.                   *)
(***************************************************************************)
EXTENDS Naturals, Sequences

CONSTANTS Thread,   \* the thread's own context
          Gens,     \* the suspendable functions, each with its own context
          Scopes,   \* the handler regions of a function
          Excs,     \* exception objects
          None      \* no exception

VARIABLES chain,    \* the contexts in use, outermost first
          handled   \* for each context, its open handlers, outermost first, each
                    \* with the value handled before it, and the value handled now

vars == <<chain, handled>>

Contexts == {Thread} \cup Gens

Empty == [open |-> <<>>, value |-> None]

Current == chain[Len(chain)]

Linked(c) == \E i \in 1..Len(chain) : chain[i] = c

Init ==
    /\ chain = <<Thread>>
    /\ handled = [c \in Contexts |-> Empty]

(* A step of the current context; every other context stays as it is.      *)
InCurrent(Step(_, _)) ==
    /\ Step(handled[Current], handled'[Current])
    /\ \A c \in Contexts \ {Current} : handled'[c] = handled[c]

(* A handler opens in the current context.                                 *)
Enter ==
    InCurrent(LAMBDA old, new :
        \E s \in Scopes, e \in Excs :
           new = [open |-> Append(old.open, [scope |-> s, previous |-> old.value]), value |-> e])

(* The innermost handler of the current context closes, and what was       *)
(* handled before it is handled again.                                     *)
Leave ==
    InCurrent(LAMBDA old, new :
        LET n == Len(old.open) IN
        n > 0 /\ new = [open |-> SubSeq(old.open, 1, n - 1), value |-> old.open[n].previous])

(* The handled exception is replaced by another one, or by none.           *)
Replace ==
    InCurrent(LAMBDA old, new :
        \E v \in Excs \cup {None} : new = [old EXCEPT !.value = v])

(* A suspendable function starts or resumes: its context becomes current   *)
(* with the handlers it was suspended in.                                  *)
Resume ==
    /\ \E g \in Gens : ~Linked(g) /\ chain' = Append(chain, g)
    /\ UNCHANGED handled

(* It suspends, keeping its handlers, or completes with all of them closed *)
(* and forgets the value below them.                                       *)
Suspend ==
    /\ Current # Thread
    /\ chain' = SubSeq(chain, 1, Len(chain) - 1)
    /\ \/ UNCHANGED handled
       \/ /\ handled[Current].open = <<>>
          /\ handled' = [handled EXCEPT ![Current] = Empty]

(* A suspended function is abandoned with whatever it was handling.        *)
Abandon == \E g \in Gens : ~Linked(g) /\ handled' = [handled EXCEPT ![g] = Empty]

(* Some context's handlers change, and the nesting of contexts does not.   *)
Handle ==
    /\ handled' # handled /\ UNCHANGED chain
    /\ Enter \/ Leave \/ Replace \/ Abandon

(* The nesting of contexts changes.                                        *)
Switch == chain' # chain /\ (Resume \/ Suspend)

Next == Handle \/ Switch

Spec == Init /\ [][Next]_vars

=============================================================================
