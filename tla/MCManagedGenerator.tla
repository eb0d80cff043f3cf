--------------------------- MODULE MCManagedGenerator --------------------------
(* One generator has finitely many states: no bound is needed.               *)
EXTENDS ManagedGenerator
================================================================================
