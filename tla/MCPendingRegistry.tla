--------------------------- MODULE MCPendingRegistry ---------------------------
(* Three objects are the fewest with which an edge is freed and recycled    *)
(* while a removal that listed it is suspended; two of them share a class   *)
(* kind, one is a function, and two invocations overlap.                    *)
EXTENDS PendingRegistry, TLC
CONSTANTS c1, c2, f1, class, function, inv1, inv2, noInv, noRef

MCObjects == {c1, c2, f1}
MCKinds == {class, function}
MCClassKinds == {class}
MCKindOf == [o \in MCObjects |-> IF o = f1 THEN function ELSE class]
MCInvocations == {inv1, inv2}
MCSymmetry == Permutations({c1, c2}) \cup Permutations({inv1, inv2})
================================================================================
