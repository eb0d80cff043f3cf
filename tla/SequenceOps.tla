------------------------------ MODULE SequenceOps ------------------------------
(***************************************************************************)
(* The vector operations of Rust that the models use.  They mean what the  *)
(* operators of the same names in SequencesExt mean; they stand apart      *)
(* because every proof obligation carries all the definitions in scope.    *)
(***************************************************************************)
EXTENDS Integers, Sequences, Functions

\* Vec::last, and what Vec::pop leaves.
Last(s) == s[Len(s)]
Front(s) == SubSeq(s, 1, Len(s) - 1)

\* Vec::remove(i) and Vec::insert(i, e), with indices from 1.
RemoveAt(s, i) == SubSeq(s, 1, i - 1) \o SubSeq(s, i + 1, Len(s))
InsertAt(s, i, e) == SubSeq(s, 1, i - 1) \o <<e>> \o SubSeq(s, i, Len(s))

\* Vec::retain: the elements of s that are in S, in their order.
Keep(s, S) ==
    LET kept[i \in 0..Len(s)] ==
          IF i = 0 THEN <<>> ELSE IF s[i] \in S THEN Append(kept[i - 1], s[i]) ELSE kept[i - 1]
    IN kept[Len(s)]
================================================================================
