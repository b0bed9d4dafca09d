---------------------------- MODULE MCPurgeApply ----------------------------
(* Two invocations of one plan of one or two runs. *)
EXTENDS PurgeApply, TLC

CONSTANTS r1, r2

TwoTargets == <<r1, r2>>

Symmetry == Permutations(Invocation)
=============================================================================
