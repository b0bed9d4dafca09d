-------------------------- MODULE RunPurgeExecutor --------------------------
(***************************************************************************)
(* RunPurgeExecutionService: the executor that carries a reviewed plan out *)
(* against a provider that other people use at the same time.  One step is *)
(* one call of the provider (or of the protection lease); between any two  *)
(* the remote objects may move, and a DELETE may take effect later than    *)
(* its answer, or never.                                                   *)
(*                                                                         *)
(* An object is a run, an artifact or the logs of a run.  All the model    *)
(* keeps of its content is how it compares with the plan's snapshot.       *)
(***************************************************************************)
EXTENDS Integers, Sequences, FiniteSets

CONSTANTS
  Run,           \* workflow runs
  Artifact,      \* artifacts, planned or not
  Owner,         \* the run of an artifact
  Targets,       \* plan.targets(): the runs, in the plan's order
  Dependencies,  \* target.artifacts(): the planned artifacts of a run, in order
  DeleteLogs,    \* the runs whose target says delete_logs
  MaxDrift       \* bound: how many times somebody else changes an object

InSeq(s) == {s[n] : n \in 1..Len(s)}

Distinct(s) == \A m, n \in 1..Len(s) : s[m] = s[n] => m = n

\* The logs of a run.
Logs(r) == <<"logs", r>>

\* What RunPurgePlan::validate_integrity establishes.
ASSUME PlanAssumption ==
  /\ Run \cap Artifact = {}
  /\ Owner \in [Artifact -> Run]
  /\ Targets \in Seq(Run) /\ Distinct(Targets)
  /\ Dependencies \in [Run -> Seq(Artifact)]
  /\ \A r \in Run :
       Distinct(Dependencies[r]) /\ \A a \in InSeq(Dependencies[r]) : Owner[a] = r
  /\ DeleteLogs \subseteq Run
  /\ MaxDrift \in Nat

\* Runs and artifacts are told from logs.
ASSUME LogsAssumption == \A r \in Run : Logs(r) \notin Run \cup Artifact

Object == Run \cup Artifact \cup {Logs(r) : r \in Run}

\* The run an object belongs to.
RunOf(o) == IF o \in Run THEN o ELSE IF o \in Artifact THEN Owner[o] ELSE o[2]

Planned == Run \cup UNION {InSeq(Dependencies[r]) : r \in Run} \cup {Logs(r) : r \in Run}

VARIABLES
  remote,    \* each object at the provider
  inflight,  \* objects with a DELETE whose effect is still to come
  pc,        \* where execute_target is
  item,      \* the RunPurgeExecutionItem it is filling in
  report,    \* the items of the targets it is done with
  halted,    \* rate_limit_halt_reason is set
  sent,      \* objects a DELETE has been sent for
  recent,    \* objects others changed since the executor's last provider call
  earlier,   \* and between that call and the one before
  drifts     \* how often others have changed an object

executor == <<pc, item, report, halted>>
vars == <<remote, inflight, executor, sent, recent, earlier, drifts>>

-----------------------------------------------------------------------------
(* Types *)

\* "planned": equal to the plan's snapshot; "touched": a run that differs from it
\* outside its purge identity (updated_at); "changed": anything else that exists.
Version == {"planned", "touched", "changed", "absent"}

State == {"Deleted", "AlreadyAbsent", "Changed", "RevalidationFailed",
          "DeleteFailed", "VerificationFailed", "Blocked"}

\* limited: an error of the item says that the provider's rate limit is reached.
Item == [logs : State, artifacts : Seq(State), residual : SUBSET Artifact,
         run : State, limited : BOOLEAN]

Pc == {"next", "acquire", "preflight", "enumerate", "logs", "artifacts",
       "delete", "recheck", "destroy", "confirm"}

TypeOK ==
  /\ remote \in [Object -> Version]
  /\ inflight \in SUBSET Object
  /\ pc \in Pc
  /\ item \in Item
  /\ report \in Seq(Item)
  /\ Len(report) \in 0..Len(Targets)
  /\ halted \in BOOLEAN
  /\ sent \in SUBSET Object
  /\ recent \in SUBSET Object
  /\ earlier \in SUBSET Object
  /\ drifts \in 0..MaxDrift

-----------------------------------------------------------------------------
(* Helpers *)

Target == Targets[Len(report) + 1]
Planning == Dependencies[Target]

\* The planned artifact the executor is at.
Current == Planning[Len(item.artifacts) + 1]

\* The enumeration of a run's artifacts, all pages in one step.
Present(r) == {a \in Artifact : Owner[a] = r /\ remote[a] # "absent"}

\* artifact_drift, changed or unexpected: a missing artifact does no harm.
Drifted(r) == \E a \in Present(r) : remote[a] # "planned"

\* blocked_execution_item and already_absent_execution_item: nothing was sent.
Unstarted(dependencies, state, limited) ==
  [logs |-> dependencies, artifacts |-> [n \in 1..Len(Planning) |-> dependencies],
   residual |-> {}, run |-> state, limited |-> limited]

Fresh == [logs |-> "Blocked", artifacts |-> <<>>, residual |-> {},
          run |-> "Blocked", limited |-> FALSE]

\* Mutation of Finish: a halt fills in the rest at once, one item too many.
FinishAll(done, halt) ==
  /\ report' = Append(report, done) \o
       (IF halt THEN [n \in 1..(Len(Targets) - Len(report)) |-> done] ELSE <<>>)
  /\ halted' = (halted \/ halt \/ done.limited)
  /\ item' = Fresh
  /\ pc' = "next"

\* Mutation of Finish: an item that met the rate limit does not halt the batch.
FinishUnlimited(done, halt) ==
  /\ report' = Append(report, done)
  /\ halted' = (halted \/ halt)
  /\ item' = Fresh
  /\ pc' = "next"

\* The item is complete and the loop over the targets goes on.
Finish(done, halt) ==
  /\ report' = Append(report, done)
  /\ halted' = (halted \/ halt \/ done.limited)
  /\ item' = Fresh
  /\ pc' = "next"

\* The item stays open and the executor goes on to its next call.
Proceed(to, open) ==
  /\ pc' = to
  /\ item' = open
  /\ UNCHANGED <<report, halted>>

Ended(state, limited) == [item EXCEPT !.run = state, !.limited = @ \/ limited]

Pushed(state, limited) ==
  [item EXCEPT !.artifacts = Append(@, state), !.limited = @ \/ limited]

\* dependencies_clean
Gone == {"Deleted", "AlreadyAbsent"}
Clean == item.logs \in Gone /\ InSeq(item.artifacts) \subseteq Gone

\* Bookkeeping of the properties: a call closes the gap others could act in.
Calls == recent' = {} /\ earlier' = recent

Looks == Calls /\ UNCHANGED <<remote, inflight, sent, drifts>>

NoCall == UNCHANGED <<remote, inflight, sent, recent, earlier, drifts>>

-----------------------------------------------------------------------------
(* The provider *)

\* An object disappears; with a run go its logs and its artifacts.
Erased(o) ==
  [x \in Object |-> IF x = o \/ RunOf(x) = o THEN "absent" ELSE remote[x]]

NoEffect == UNCHANGED <<remote, inflight>>
Effect(o) == remote' = Erased(o) /\ UNCHANGED inflight
LateEffect(o) == inflight' = inflight \cup {o} /\ UNCHANGED remote

\* A DELETE and what the executor makes of the answer: a 404 is truthful, a
\* success may be premature, and an error says nothing about the effect, unless
\* it is the rate limit's refusal.
Delete(o, state, limited) ==
  /\ sent' = sent \cup {o}
  /\ Calls
  /\ UNCHANGED drifts
  /\ \/ state = "Deleted" /\ ~limited /\ remote[o] # "absent"
        /\ (Effect(o) \/ LateEffect(o))
     \/ state = "AlreadyAbsent" /\ ~limited /\ remote[o] = "absent" /\ NoEffect
     \/ state = "DeleteFailed"
        /\ (NoEffect \/ (~limited /\ (Effect(o) \/ LateEffect(o))))

-----------------------------------------------------------------------------
(* The loop over the targets *)

Init ==
  /\ remote \in [Object -> {"planned", "absent"}]
  /\ \A o \in Run \cup Artifact : remote[o] = IF o \in Planned THEN "planned" ELSE "absent"
  /\ inflight = {}
  /\ pc = "next"
  /\ item = Fresh
  /\ report = <<>>
  /\ halted = FALSE
  /\ sent = {}
  /\ recent = {}
  /\ earlier = {}
  /\ drifts = 0

\* The next target is skipped after a halt, halts the batch when the provider's
\* telemetry is down to the headroom, or is attempted.
NextTarget ==
  /\ pc = "next"
  /\ Len(report) < Len(Targets)
  /\ \/ \E low \in BOOLEAN :
          /\ halted \/ low
          /\ Finish(Unstarted("Blocked", "Blocked", FALSE), low)
     \/ ~halted /\ Proceed("acquire", Fresh)
  /\ NoCall

\* The lease of the run and its assessment; RunProtections models them.
AcquireLease ==
  /\ pc = "acquire"
  /\ \/ Finish(Unstarted("Blocked", "Blocked", FALSE), FALSE)
     \/ Proceed("preflight", Fresh)
  /\ NoCall

\* The exact lookup of the run: only an unchanged run goes on.
LookupRun ==
  /\ pc = "preflight"
  /\ \/ remote[Target] = "absent"
        /\ Finish(Unstarted("AlreadyAbsent", "AlreadyAbsent", FALSE), FALSE)
     \/ remote[Target] \in {"touched", "changed"}
        /\ Finish(Unstarted("Blocked", "Changed", FALSE), FALSE)
     \/ remote[Target] = "planned" /\ Proceed("enumerate", Fresh)
     \/ \E limited \in BOOLEAN :
          Finish(Unstarted("Blocked", "RevalidationFailed", limited), FALSE)
  /\ Looks

\* The enumeration of its artifacts: a changed or unexpected one stops it.
EnumerateArtifacts ==
  /\ pc = "enumerate"
  /\ \/ IF Drifted(Target)
        THEN Finish(Unstarted("Blocked", "Changed", FALSE), FALSE)
        ELSE Proceed("logs", Fresh)
     \/ \E limited \in BOOLEAN :
          Finish(Unstarted("Blocked", "RevalidationFailed", limited), FALSE)
  /\ Looks

DeleteRunLogs ==
  /\ pc = "logs"
  /\ IF Target \in DeleteLogs
     THEN \E state \in State, limited \in BOOLEAN :
            /\ Delete(Logs(Target), state, limited)
            /\ Proceed("artifacts", [item EXCEPT !.logs = state, !.limited = limited])
     ELSE Proceed("artifacts", [item EXCEPT !.logs = "Blocked"]) /\ NoCall

\* The exact lookup of the next planned artifact.
LookupArtifact ==
  /\ pc = "artifacts"
  /\ Len(item.artifacts) < Len(Planning)
  /\ \/ remote[Current] = "absent" /\ Proceed("artifacts", Pushed("AlreadyAbsent", FALSE))
     \/ remote[Current] = "changed" /\ Proceed("artifacts", Pushed("Changed", FALSE))
     \/ remote[Current] = "planned" /\ Proceed("delete", item)
     \/ \E limited \in BOOLEAN :
          Proceed("artifacts", Pushed("RevalidationFailed", limited))
  /\ Looks

DeleteArtifact ==
  /\ pc = "delete"
  /\ \E state \in State, limited \in BOOLEAN :
       /\ Delete(Current, state, limited)
       /\ Proceed("artifacts", Pushed(state, limited))

\* Without clean dependencies the run is retained, unseen.
RetainRun ==
  /\ pc = "artifacts"
  /\ Len(item.artifacts) = Len(Planning)
  /\ ~Clean
  /\ Finish(Ended("Blocked", FALSE), FALSE)
  /\ NoCall

\* Mutation of VerifyDependencies: the answers to the DELETEs are enough.
TrustDependencies ==
  /\ pc = "artifacts"
  /\ Len(item.artifacts) = Len(Planning)
  /\ Clean
  /\ Proceed("recheck", item)
  /\ Looks

\* The second enumeration: any artifact left retains the run, and the planned
\* ones among them become VerificationFailed.
VerifyDependencies ==
  /\ pc = "artifacts"
  /\ Len(item.artifacts) = Len(Planning)
  /\ Clean
  /\ \/ Present(Target) = {} /\ Proceed("recheck", item)
     \/ /\ Present(Target) # {}
        /\ Finish([item EXCEPT
             !.residual = Present(Target),
             !.artifacts = [n \in 1..Len(@) |->
                IF Planning[n] \in Present(Target) THEN "VerificationFailed" ELSE @[n]]],
             FALSE)
     \/ \E limited \in BOOLEAN : Finish(Ended("VerificationFailed", limited), FALSE)
  /\ Looks

\* Mutation of RecheckRun: the first lookup of the run is still good.
TrustFirstLookup ==
  /\ pc = "recheck"
  /\ Proceed("destroy", item)
  /\ NoCall

\* The second lookup of the run, by its purge identity.
RecheckRun ==
  /\ pc = "recheck"
  /\ \/ remote[Target] = "absent" /\ Finish(Ended("AlreadyAbsent", FALSE), FALSE)
     \/ remote[Target] = "changed" /\ Finish(Ended("Changed", FALSE), FALSE)
     \/ remote[Target] \in {"planned", "touched"} /\ Proceed("destroy", item)
     \/ \E limited \in BOOLEAN : Finish(Ended("RevalidationFailed", limited), FALSE)
  /\ Looks

\* Mutation of DeleteRun: a failed DELETE retains the run as Blocked.
DeleteRunOrRetain ==
  /\ pc = "destroy"
  /\ \E state \in State, limited \in BOOLEAN :
       /\ Delete(Target, state, limited)
       /\ IF state = "Deleted"
          THEN Proceed("confirm", item)
          ELSE Finish(Ended("Blocked", limited), FALSE)

DeleteRun ==
  /\ pc = "destroy"
  /\ \E state \in State, limited \in BOOLEAN :
       /\ Delete(Target, state, limited)
       /\ IF state = "Deleted"
          THEN Proceed("confirm", item)
          ELSE Finish(Ended(state, limited), FALSE)

\* Mutation of ConfirmRun: the answer to the DELETE is believed.
BelieveAnswer ==
  /\ pc = "confirm"
  /\ Finish(Ended("Deleted", FALSE), FALSE)
  /\ Looks

\* The third lookup: a success is believed only of a run that is gone.
ConfirmRun ==
  /\ pc = "confirm"
  /\ \/ remote[Target] = "absent" /\ Finish(Ended("Deleted", FALSE), FALSE)
     \/ remote[Target] # "absent" /\ Finish(Ended("VerificationFailed", FALSE), FALSE)
     \/ \E limited \in BOOLEAN : Finish(Ended("VerificationFailed", limited), FALSE)
  /\ Looks

-----------------------------------------------------------------------------
(* Everybody else *)

Drift(o, version) ==
  /\ drifts < MaxDrift
  /\ drifts' = drifts + 1
  /\ remote' = IF version = "absent" THEN Erased(o) ELSE [remote EXCEPT ![o] = version]
  /\ recent' = recent \cup {o}
  /\ UNCHANGED <<inflight, executor, sent, earlier>>

\* A run's updated_at moves.
Touch == \E r \in Run : remote[r] = "planned" /\ Drift(r, "touched")

\* A run is started again, an artifact expires.
Change ==
  \E o \in Run \cup Artifact : remote[o] \in {"planned", "touched"} /\ Drift(o, "changed")

\* A job that still runs uploads one more artifact.
Upload ==
  \E a \in Artifact \ Planned :
    remote[a] = "absent" /\ remote[Owner[a]] # "absent" /\ Drift(a, "changed")

\* Somebody else deletes an object, or it reaches the end of its retention.
Vanish == \E o \in Object : remote[o] # "absent" /\ Drift(o, "absent")

\* A DELETE takes effect after its answer, or is lost.
Land ==
  \E o \in inflight :
    /\ inflight' = inflight \ {o}
    /\ remote' \in {remote, Erased(o)}
    /\ UNCHANGED <<executor, sent, recent, earlier, drifts>>

-----------------------------------------------------------------------------
Next ==
  \/ NextTarget \/ AcquireLease \/ LookupRun \/ EnumerateArtifacts \/ DeleteRunLogs
  \/ LookupArtifact \/ DeleteArtifact \/ RetainRun \/ VerifyDependencies
  \/ RecheckRun \/ DeleteRun \/ ConfirmRun
  \/ Touch \/ Change \/ Upload \/ Vanish \/ Land

Spec == Init /\ [][Next]_vars

-----------------------------------------------------------------------------
(* Properties *)

Unchanged(o, window) == remote[o] \in {"planned", "absent"} \/ o \in window

\* A DELETE is never based on an old look: what it meets is what was reviewed,
\* or was changed in the unavoidable gap after the last look.  That gap is one
\* call wide for an artifact and a run's identity, and two for logs, whose run
\* is looked at before its artifacts are enumerated.
OnlyReviewedStateIsDeleted ==
  [][\A o \in sent' \ sent :
       \/ o \in Artifact /\ Unchanged(o, recent)
       \/ o \in Run /\ (Unchanged(o, recent) \/ remote[o] = "touched")
       \/ /\ o \notin Run \cup Artifact
          /\ Unchanged(RunOf(o), recent \cup earlier)
          /\ \A a \in Artifact : Owner[a] = RunOf(o) => Unchanged(a, recent)]_vars

\* The run goes last: the DELETE that takes everything of a run with it finds no
\* artifact left to take, but for one uploaded within the last two calls, and
\* comes after the DELETE of the logs unless there were none.
RunIsDeletedLast ==
  [][\A r \in (sent' \ sent) \cap Run :
       /\ Present(r) \subseteq recent \cup earlier
       /\ remote[Logs(r)] = "absent" \/ Logs(r) \in sent]_vars

\* A run reported Deleted or AlreadyAbsent is gone with all that belonged to it,
\* whatever the provider answered to the DELETEs.
ReportedRunIsGone ==
  \A j \in 1..Len(report) : report[j].run \in Gone =>
    \A o \in Object : RunOf(o) = Targets[j] => remote[o] = "absent"

\* The report owns up to every DELETE that was sent: none hides behind Blocked,
\* Changed or RevalidationFailed, the states that promise an object was left alone.
ReportOwnsUp ==
  \A j \in 1..Len(report) :
    LET r == Targets[j]
        Left == {"Blocked", "Changed", "RevalidationFailed"}
    IN /\ report[j].run \in Left => r \notin sent
       /\ report[j].logs \in Left => Logs(r) \notin sent
       /\ \A n \in 1..Len(Dependencies[r]) :
            report[j].artifacts[n] \in Left => Dependencies[r][n] \notin sent

\* After the provider's rate limit was met no later target is touched.
HaltIsFinal ==
  \A j, k \in 1..Len(report) : j < k /\ report[j].limited =>
    /\ report[k].run = "Blocked"
    /\ \A o \in sent : RunOf(o) # Targets[k]

\* SAFETY.md: an artifact that still exists after its DELETE was reported
\* successful becomes VerificationFailed, so one reported Deleted is gone.
DeletedArtifactIsGone ==
  \A j \in 1..Len(report) : \A n \in 1..Len(Dependencies[Targets[j]]) :
    report[j].artifacts[n] = "Deleted" => remote[Dependencies[Targets[j]][n]] = "absent"
=============================================================================
