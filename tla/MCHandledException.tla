------------------------ MODULE MCHandledException ------------------------
EXTENDS HandledException, TLC

MCParent == 1 :> 0 @@ 2 :> 1
MCNested == [a \in Acts |-> IF a \in Gens THEN {1, 2} ELSE {1}]
MCSymmetry == Permutations(Excs)

=============================================================================
