--------------------------- MODULE MCClassAdmission ---------------------------
(* Two executions of the class statement, by two calls of the function it is *)
(* in: they interleave with each other and with the import.  A statement of  *)
(* the module body does less: it ends before the import begins to seal.      *)
EXTENDS ClassAdmission, TLC

CONSTANTS c1, c2
Executions == {c1, c2}
OwnCalls == [d \in Executions |-> d]

\* Executions that each have a call of their own are interchangeable.
Symmetry == Permutations(Executions)
=============================================================================
