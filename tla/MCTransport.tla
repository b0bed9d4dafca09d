----------------------------- MODULE MCTransport -----------------------------
(* An instance of Transport for TLC: two deletions and a read, with the waits
   of the program scaled down: 60 s is 3, 300 s is 5. *)
EXTENDS Transport, TLC

CONSTANTS r, d1, d2
=============================================================================
