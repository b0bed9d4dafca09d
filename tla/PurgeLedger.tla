----------------------------- MODULE PurgeLedger -----------------------------
(***************************************************************************)
(* What `purge apply` promises of its audit trail, and all that `purge     *)
(* history` may conclude from it: an invocation mutates remote state only  *)
(* between the intent it has recorded and the final record that resolves   *)
(* that intent.  So an intent without a record may have changed anything   *)
(* it names, and one with a record changes nothing any more.               *)
(***************************************************************************)
CONSTANTS
  Invocation,  \* runs of the command, each identified by its intent
  Run          \* what it may delete

VARIABLES
  intents,   \* invocations with a recorded intent
  resolved,  \* invocations with a final record
  sent       \* <<i, r>>: invocation i has sent a DELETE about r

vars == <<intents, resolved, sent>>

Init == intents = {} /\ resolved = {} /\ sent = {}

Commit(i) ==
  /\ i \notin intents
  /\ intents' = intents \cup {i}
  /\ UNCHANGED <<resolved, sent>>

Open == intents \ resolved

Mutate(i, r) ==
  /\ i \in Open
  /\ sent' = sent \cup {<<i, r>>}
  /\ UNCHANGED <<intents, resolved>>

Resolve(i) ==
  /\ i \in Open
  /\ resolved' = resolved \cup {i}
  /\ UNCHANGED <<intents, sent>>

Next ==
  \E i \in Invocation : Commit(i) \/ Resolve(i) \/ \E r \in Run : Mutate(i, r)

Spec == Init /\ [][Next]_vars
=============================================================================
