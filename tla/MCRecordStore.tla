---------------------------- MODULE MCRecordStore ----------------------------
(* Instances of RecordStore for TLC: writers whose names coincide. *)
EXTENDS RecordStore, TLC

Symmetry == Permutations(Writer)
=============================================================================
