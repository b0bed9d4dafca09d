------------------------------ MODULE MCCleanup ------------------------------
(* Three objects on two pages, two of them planned, and a fourth to come. *)
EXTENDS Cleanup

MCInitial == <<3, 2, 1>>
MCTargets == <<1, 3>>
=============================================================================
