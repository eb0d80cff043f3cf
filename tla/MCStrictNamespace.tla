--------------------------- MODULE MCStrictNamespace ---------------------------
(* A final name, a declared mutable name, a surrogate key and a non-str key, *)
(* two values and two receipts: every kind of key meets every phase.         *)
EXTENDS StrictNamespace
CONSTANTS final, mutable, odd, alien, v1, v2, none, r1, r2

MCNames == {final, mutable}
MCMutableNames == {mutable}
MCValues == {v1, v2}
MCReceipts == {r1, r2}
================================================================================
