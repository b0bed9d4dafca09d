------------------------- MODULE MCRunPurgeExecutor -------------------------
(* Instances of RunPurgeExecutor for TLC.  The artifact `late` belongs to r1 and
   is in no plan. *)
EXTENDS RunPurgeExecutor

CONSTANTS r1, r2, a1, a2, late

OwnerOf == [a \in Artifact |-> r1]

\* Two targets: the first has an artifact and logs to delete, the second neither.
TwoTargets == <<r1, r2>>
OneArtifact == [r \in Run |-> IF r = r1 THEN <<a1>> ELSE <<>>]

\* One target with two planned artifacts, for DeletedArtifactIsGone.
OneTarget == <<r1>>
TwoArtifacts == [r \in Run |-> <<a1, a2>>]
=============================================================================
