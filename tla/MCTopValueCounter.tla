--------------------------- MODULE MCTopValueCounter ---------------------------
(***************************************************************************)
(* Streams of up to eight values over four, kept in two slots.              *)
(***************************************************************************)
EXTENDS TopValueCounter
================================================================================
