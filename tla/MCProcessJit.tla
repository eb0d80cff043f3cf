----------------------------- MODULE MCProcessJit ------------------------------
(***************************************************************************)
(* A mutually recursive module called into from another one, and a module  *)
(* without recursion.                                                      *)
(***************************************************************************)
EXTENDS ProcessJit

PairOrder == <<"f", "g">>
Pair == [f |-> {"g"}, g |-> {"f"}, t |-> {"f"}]
PairTarget == [c1 |-> "t", c2 |-> "g"]
ForkOrder == <<"g", "m", "h", "k">>
Fork == [g |-> {"h"}, h |-> {}, k |-> {"m"}, m |-> {"k"}]
ForkTarget == [c1 |-> "g", c2 |-> "k"]
================================================================================
