----------------------------- MODULE MCArtifactLoad -----------------------------
(* Two modules, one consuming the other.                                    *)
EXTENDS ArtifactLoad
CONSTANTS base, user

MCInputs == <<base, user>>
MCDeps == [m \in {base, user} |-> IF m = user THEN <<base>> ELSE <<>>]
MCSources == <<base>>
================================================================================
