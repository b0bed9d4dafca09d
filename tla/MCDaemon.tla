------------------------------ MODULE MCDaemon ------------------------------
(* Two processes, one of which may start while the other still ends, and one *)
(* or two keys.                                                              *)
EXTENDS Daemon, TLC

Symmetry == Permutations(Process) \cup Permutations(Key)
=============================================================================
