----------------------------- MODULE MCModuleImport -----------------------------
(* A first import and one replay; two functions and a class, so that one can *)
(* be declared late, or while the capabilities of another are being bound.   *)
EXTENDS ModuleImport, TLC
CONSTANTS first, replay, f, g, k, nothing

MCCalls == {first, replay}
MCObjects == {f, g, k}
MCClasses == {k}
================================================================================
