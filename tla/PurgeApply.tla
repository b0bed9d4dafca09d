----------------------------- MODULE PurgeApply -----------------------------
(***************************************************************************)
(* `purge apply runs`: invocations of the command on one plan file, from   *)
(* the revalidation over the consent, the write-ahead intent and the       *)
(* execution to the final audit record, each of which may be killed at any *)
(* point, while others protect, change and delete the planned runs.        *)
(*                                                                         *)
(* The parts that have modules of their own are one step here: a command   *)
(* on the protection store takes effect under the run's lease              *)
(* (RunProtections), the executor's DELETEs for one run are one DELETE     *)
(* (RunPurgeExecutor), and a record is written or not (RecordStore).       *)
(***************************************************************************)
EXTENDS Naturals, Sequences

CONSTANTS
  Invocation,  \* runs of the command
  Run,         \* workflow runs
  Targets,     \* plan.targets()
  Nobody       \* the holder of a free lease

ASSUME PlanAssumption ==
  /\ Targets \in Seq(Run) /\ Len(Targets) > 0
  /\ Nobody \notin Invocation

VARIABLES
  remote,     \* each run at the provider, compared with the plan's snapshot
  inflight,   \* runs with a DELETE whose effect is still to come
  protected,  \* runs with an entry in the protection store
  lease,      \* the holder of each run's lease
  pc,         \* where an invocation is
  at,         \* the target it is at
  intents,    \* invocations with an intent file
  records,    \* invocations with a final record linked to their intent
  damaged,    \* audit files that read_all cannot read
  sent        \* <<i, r>>: invocation i has sent a DELETE about r

vars == <<remote, inflight, protected, lease, pc, at, intents, records, damaged, sent>>

provider == <<remote, inflight>>
audit == <<intents, records, damaged>>

Version == {"planned", "changed", "absent"}

Pc == {"start", "revalidate", "consent", "intent", "next", "leased", "delete",
       "answer", "record", "exit"}

AuditFile == {"intent", "record"} \X Invocation

TypeOK ==
  /\ remote \in [Run -> Version]
  /\ inflight \in SUBSET Run
  /\ protected \in SUBSET Run
  /\ lease \in [Run -> Invocation \cup {Nobody}]
  /\ pc \in [Invocation -> Pc]
  /\ at \in [Invocation -> 1..(Len(Targets) + 1)]
  /\ intents \in SUBSET Invocation
  /\ records \in SUBSET Invocation
  /\ damaged \in SUBSET AuditFile
  /\ sent \in SUBSET (Invocation \X Run)

Init ==
  /\ remote = [r \in Run |-> "planned"]
  /\ inflight = {}
  /\ protected \in SUBSET Run
  /\ lease = [r \in Run |-> Nobody]
  /\ pc = [i \in Invocation |-> "start"]
  /\ at = [i \in Invocation |-> 1]
  /\ intents = {}
  /\ records = {}
  /\ damaged = {}
  /\ sent = {}

-----------------------------------------------------------------------------
(* Helpers *)

Target(i) == Targets[at[i]]
Remaining(i) == at[i] <= Len(Targets)

Goto(i, place) == pc' = [pc EXCEPT ![i] = place] /\ UNCHANGED at

Forward(i) == at' = [at EXCEPT ![i] = @ + 1]

\* The guard of the lease is dropped, at the end of execute_target or of the process.
DropLeases(i) == lease' = [r \in Run |-> IF lease[r] = i THEN Nobody ELSE lease[r]]

NextTarget(i) ==
  /\ pc' = [pc EXCEPT ![i] = "next"]
  /\ Forward(i)
  /\ DropLeases(i)

-----------------------------------------------------------------------------
(* The command *)

\* The plan file is read; an invalid one, or another account, ends the command.
Start(i) ==
  /\ pc[i] = "start"
  /\ Goto(i, "revalidate")
  /\ UNCHANGED <<provider, protected, lease, audit, sent>>

\* RunPurgeRevalidationService looks at one target after the other.  Every one
\* must be unprotected, and absent or as planned, or the command refuses.
Revalidate(i) ==
  /\ pc[i] = "revalidate"
  /\ Remaining(i)
  /\ \/ /\ Target(i) \notin protected /\ remote[Target(i)] # "changed"
        /\ Forward(i)
        /\ UNCHANGED pc
     \/ Goto(i, "exit")
  /\ UNCHANGED <<provider, protected, lease, audit, sent>>

\* is_safe_to_apply: the review found no target but ready or absent ones.
Reviewed(i) ==
  /\ pc[i] = "revalidate"
  /\ ~Remaining(i)
  /\ Goto(i, "consent")
  /\ UNCHANGED <<provider, protected, lease, audit, sent>>

\* The prompt may wait for as long as the user likes; --yes answers at once.
Consent(i) ==
  /\ pc[i] = "consent"
  /\ \E answer \in {"intent", "exit"} : Goto(i, answer)
  /\ UNCHANGED <<provider, protected, lease, audit, sent>>

\* Mutation of PersistIntent: without an intent there is only a warning.
PersistIntentOrWarn(i) ==
  /\ pc[i] = "intent"
  /\ intents' \in {intents, intents \cup {i}}
  /\ pc' = [pc EXCEPT ![i] = "next"]
  /\ at' = [at EXCEPT ![i] = 1]
  /\ UNCHANGED <<provider, protected, lease, records, damaged, sent>>

\* append_intent: no intent, no execution.
PersistIntent(i) ==
  /\ pc[i] = "intent"
  /\ \/ /\ intents' = intents \cup {i}
        /\ pc' = [pc EXCEPT ![i] = "next"]
        /\ at' = [at EXCEPT ![i] = 1]
     \/ Goto(i, "exit") /\ UNCHANGED intents
  /\ UNCHANGED <<provider, protected, lease, records, damaged, sent>>

\* execute_target: the lease, or a Blocked item when it cannot be had.
Lease(i) ==
  /\ pc[i] = "next"
  /\ Remaining(i)
  /\ \/ /\ lease[Target(i)] = Nobody
        /\ lease' = [lease EXCEPT ![Target(i)] = i]
        /\ Goto(i, "leased")
     \/ NextTarget(i)
  /\ UNCHANGED <<provider, protected, audit, sent>>

\* Mutation of Assess: the guard goes out of scope, and the lease with it, before
\* the DELETE.
AssessAndRelease(i) ==
  /\ pc[i] = "leased"
  /\ \/ /\ Target(i) \notin protected /\ remote[Target(i)] = "planned"
        /\ Goto(i, "delete")
        /\ DropLeases(i)
     \/ NextTarget(i)
  /\ UNCHANGED <<provider, protected, audit, sent>>

\* The assessment and the exact lookup under the lease; other than for an
\* unprotected run as planned, the item is complete without a DELETE.
Assess(i) ==
  /\ pc[i] = "leased"
  /\ \/ /\ Target(i) \notin protected /\ remote[Target(i)] = "planned"
        /\ Goto(i, "delete")
        /\ UNCHANGED lease
     \/ NextTarget(i)
  /\ UNCHANGED <<provider, protected, audit, sent>>

Erased(r) == [remote EXCEPT ![r] = "absent"]

SendDelete(i) ==
  /\ pc[i] = "delete"
  /\ sent' = sent \cup {<<i, Target(i)>>}
  /\ inflight' = inflight \cup {Target(i)}
  /\ Goto(i, "answer")
  /\ UNCHANGED <<remote, protected, lease, audit>>

\* Mutation of Answer: the record is written as soon as there is something in it.
AnswerAndRecord(i) ==
  /\ pc[i] = "answer"
  /\ \/ inflight' = inflight \ {Target(i)} /\ remote' \in {remote, Erased(Target(i))}
     \/ UNCHANGED provider
  /\ NextTarget(i)
  /\ records' = records \cup {i}
  /\ UNCHANGED <<protected, intents, damaged, sent>>

\* The answer: done, refused, or an error with the DELETE still on its way.
Answer(i) ==
  /\ pc[i] = "answer"
  /\ \/ inflight' = inflight \ {Target(i)} /\ remote' \in {remote, Erased(Target(i))}
     \/ UNCHANGED provider
  /\ NextTarget(i)
  /\ UNCHANGED <<protected, audit, sent>>

Report(i) ==
  /\ pc[i] = "next"
  /\ ~Remaining(i)
  /\ Goto(i, "record")
  /\ UNCHANGED <<provider, protected, lease, audit, sent>>

\* append_with_intent: a failure ends the command with a warning.
PersistRecord(i) ==
  /\ pc[i] = "record"
  /\ records' \in {records, records \cup {i}}
  /\ Goto(i, "exit")
  /\ UNCHANGED <<provider, protected, lease, intents, damaged, sent>>

\* The process is killed, or fails where no other action says how.
Crash(i) ==
  /\ pc[i] # "exit"
  /\ Goto(i, "exit")
  /\ DropLeases(i)
  /\ UNCHANGED <<provider, protected, audit, sent>>

-----------------------------------------------------------------------------
(* Everybody else *)

\* `runs protect` and `runs unprotect`, under the lease of the run.
Protect(r) ==
  /\ lease[r] = Nobody
  /\ remote[r] # "absent"
  /\ protected' = protected \cup {r}
  /\ UNCHANGED <<provider, lease, pc, at, audit, sent>>

Unprotect(r) ==
  /\ lease[r] = Nobody
  /\ protected' = protected \ {r}
  /\ UNCHANGED <<provider, lease, pc, at, audit, sent>>

\* A run is started again, or deleted at the provider.
Drift(r) ==
  /\ \/ remote[r] = "planned" /\ remote' = [remote EXCEPT ![r] = "changed"]
     \/ remote[r] # "absent" /\ remote' = Erased(r)
  /\ UNCHANGED <<inflight, protected, lease, pc, at, audit, sent>>

Land(r) ==
  /\ r \in inflight
  /\ inflight' = inflight \ {r}
  /\ remote' \in {remote, Erased(r)}
  /\ UNCHANGED <<protected, lease, pc, at, audit, sent>>

\* A record on disk is cut short or goes bad.
Damage ==
  /\ \E f \in ({"intent"} \X intents) \cup ({"record"} \X records) :
       damaged' = damaged \cup {f}
  /\ UNCHANGED <<provider, protected, lease, pc, at, intents, records, sent>>

-----------------------------------------------------------------------------
Step(i) ==
  \/ Start(i) \/ Revalidate(i) \/ Reviewed(i) \/ Consent(i) \/ PersistIntent(i)
  \/ Lease(i) \/ Assess(i) \/ SendDelete(i) \/ Answer(i) \/ Report(i)
  \/ PersistRecord(i) \/ Crash(i)

Next ==
  \/ \E i \in Invocation : Step(i)
  \/ \E r \in Run : Protect(r) \/ Unprotect(r) \/ Drift(r) \/ Land(r)
  \/ Damage

Spec == Init /\ [][Next]_vars

-----------------------------------------------------------------------------
(* read_all and pending_intents *)

ReadIntents == {i \in intents : <<"intent", i>> \notin damaged}
ReadRecords == {i \in records : <<"record", i>> \notin damaged}
PendingIntents == ReadIntents \ ReadRecords

-----------------------------------------------------------------------------
(* Properties *)

\* Whatever an invocation has sent, and however it ended, `purge history` has it
\* as a pending intent or as a record, or counts its intent among the issues; no
\* crash and no damaged file makes a mutation disappear silently.
MutationsAreSurfaced ==
  \A i \in Invocation, r \in Run : <<i, r>> \in sent =>
    \/ i \in PendingIntents \cup ReadRecords
    \/ <<"intent", i>> \in damaged

\* A protection that is there stops every invocation, those that were reviewed
\* and authorized, or had their intent recorded, before it was added.
NewProtectionWins ==
  [][\A i \in Invocation, r \in Run :
       <<i, r>> \in sent' \ sent => r \notin protected]_vars

\* The audit trail is the ledger's: all DELETEs of an invocation come after its
\* intent and before its record.
Ledger == INSTANCE PurgeLedger WITH resolved <- records
LedgerSpec == Ledger!Spec
=============================================================================
