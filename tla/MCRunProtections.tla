-------------------------- MODULE MCRunProtections --------------------------
(* Instances of RunProtections for TLC: two runs, each with a lock file of its
   own or both sharing one. *)
EXTENDS RunProtections, TLC

CONSTANTS k1, k2, l1, l2

OwnLocks   == k1 :> l1 @@ k2 :> l2
SharedLock == [k \in Key |-> l1]

Symmetry == Permutations(Proc)
=============================================================================
