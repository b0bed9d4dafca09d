---------------------------- MODULE MCMonitoring ----------------------------
(* Two accounts that hold one or two bytes, and three configurations of the
   thresholds: at the first, the bytes decide between warning and critical, at
   the second between healthy and critical, at the third nothing. *)
EXTENDS Monitoring, TLC

Thresholds == {[warning |-> 1, critical |-> 2],
               [warning |-> Unset, critical |-> 2],
               [warning |-> Unset, critical |-> Unset]}

Symmetry == Permutations(Account)
=============================================================================
