-------------------------- MODULE PurgeApply_proofs --------------------------
(***************************************************************************)
(* TLAPS proofs about PurgeApply, for every number of invocations and      *)
(* every plan: it implements PurgeLedger, no mutation escapes the history, *)
(* and a protection stops an invocation at any point before its DELETE.    *)
(***************************************************************************)
EXTENDS PurgeApply, TLAPS

-----------------------------------------------------------------------------
(* The inductive invariant *)

BeforeIntent == {"start", "revalidate", "consent", "intent"}
UnderLease   == {"leased", "delete", "answer"}
Executing    == {"next", "record"} \cup UnderLease

\* An intent is written once, and a record ends its invocation.
Lifecycle ==
  \A i \in Invocation :
    /\ pc[i] \in BeforeIntent => i \notin intents
    /\ pc[i] \in Executing => i \in intents
    /\ i \in records => pc[i] = "exit" /\ i \in intents

\* An invocation at a target has its lease.
LeaseHeld ==
  \A i \in Invocation : pc[i] \in UnderLease =>
    /\ at[i] \in 1..Len(Targets)
    /\ lease[Target(i)] = i

\* The assessment stays true until the DELETE.
Assessed == \A i \in Invocation : pc[i] = "delete" => Target(i) \notin protected

\* Only an invocation with an intent has sent anything.
SentHasIntent == \A i \in Invocation, r \in Run : <<i, r>> \in sent => i \in intents

IInv ==
  /\ TypeOK
  /\ Lifecycle
  /\ LeaseHeld
  /\ Assessed
  /\ SentHasIntent

-----------------------------------------------------------------------------
(* Lemmas *)

LEMMA TargetTyped ==
  ASSUME NEW i \in Invocation, at[i] \in 1..Len(Targets)
  PROVE  Target(i) \in Run
BY PlanAssumption DEF Target

\* A move to a place that is not under a lease; the leases of others are kept.
LEMMA MoveKeepsIInv ==
  ASSUME IInv, NEW i \in Invocation, NEW place \in Pc \ UnderLease,
         pc' = [pc EXCEPT ![i] = place],
         at' \in [Invocation -> 1..(Len(Targets) + 1)],
         \A j \in Invocation \ {i} : at'[j] = at[j],
         UNCHANGED lease \/ DropLeases(i),
         UNCHANGED <<intents, records, damaged, sent, protected>>,
         remote' \in [Run -> Version], inflight' \in SUBSET Run,
         place \in BeforeIntent => pc[i] \in BeforeIntent,
         place \in Executing => pc[i] \in Executing,
         pc[i] # "exit"
  PROVE  IInv'
<1> USE DEF IInv
<1>1. TypeOK'
  BY DEF TypeOK, DropLeases
<1>2. Lifecycle'
  BY DEF Lifecycle, TypeOK
<1>3. LeaseHeld'
  <2> SUFFICES ASSUME NEW j \in Invocation, pc'[j] \in UnderLease
               PROVE  at'[j] \in 1..Len(Targets) /\ lease'[Target(j)'] = j
    BY DEF LeaseHeld
  <2>1. j # i /\ pc[j] \in UnderLease /\ at'[j] = at[j]
    BY DEF TypeOK
  <2>2. at[j] \in 1..Len(Targets) /\ lease[Target(j)] = j
    BY <2>1 DEF LeaseHeld
  <2>3. Target(j)' = Target(j) /\ Target(j) \in Run
    BY <2>1, <2>2, TargetTyped DEF Target
  <2> QED
    BY <2>1, <2>2, <2>3 DEF DropLeases
<1>4. Assessed'
  BY DEF Assessed, Target, TypeOK, UnderLease
<1> QED
  BY <1>1, <1>2, <1>3, <1>4 DEF SentHasIntent

\* Going on to the next target is such a move.
LEMMA NextTargetKeepsIInv ==
  ASSUME IInv, NEW i \in Invocation, NextTarget(i), pc[i] \in Executing,
         at[i] \in 1..Len(Targets),
         UNCHANGED <<intents, records, damaged, sent, protected>>,
         remote' \in [Run -> Version], inflight' \in SUBSET Run
  PROVE  IInv'
<1>1. /\ pc' = [pc EXCEPT ![i] = "next"]
      /\ DropLeases(i)
  BY DEF NextTarget
<1>2. Len(Targets) \in Nat
  BY PlanAssumption
<1>3. /\ at' \in [Invocation -> 1..(Len(Targets) + 1)]
      /\ \A j \in Invocation \ {i} : at'[j] = at[j]
  BY <1>2 DEF NextTarget, Forward, IInv, TypeOK
<1>4. "next" \in Pc \ UnderLease /\ "next" \notin BeforeIntent /\ pc[i] # "exit"
  BY DEF Pc, UnderLease, BeforeIntent, Executing
<1> QED
  BY <1>1, <1>3, <1>4, MoveKeepsIInv

-----------------------------------------------------------------------------
(* The invariant holds initially and is kept by every step. *)

LEMMA InitIInv == Init => IInv
BY PlanAssumption
DEF Init, IInv, TypeOK, Version, Pc, AuditFile, Lifecycle, LeaseHeld, Assessed,
    SentHasIntent, BeforeIntent, Executing, UnderLease

\* The steps before the intent, and those that only end or report.
LEMMA PlainKeepsIInv ==
  ASSUME IInv, NEW i \in Invocation,
         Start(i) \/ Revalidate(i) \/ Reviewed(i) \/ Consent(i) \/ Report(i) \/ Crash(i)
  PROVE  IInv'
<1> USE DEF BeforeIntent, Executing, UnderLease, Pc
<1>u. /\ UNCHANGED <<intents, records, damaged, sent, protected, remote, inflight>>
      /\ UNCHANGED lease \/ DropLeases(i)
  BY DEF Start, Revalidate, Reviewed, Consent, Report, Crash, provider, audit
<1>t. remote' \in [Run -> Version] /\ inflight' \in SUBSET Run
  BY <1>u DEF IInv, TypeOK
<1>1. CASE Revalidate(i) /\ UNCHANGED pc
  <2>1. Len(Targets) \in Nat
    BY PlanAssumption
  <2>2. /\ pc' = [pc EXCEPT ![i] = "revalidate"]
        /\ at' \in [Invocation -> 1..(Len(Targets) + 1)]
        /\ \A j \in Invocation \ {i} : at'[j] = at[j]
    BY <1>1, <2>1 DEF Revalidate, Remaining, Forward, Goto, IInv, TypeOK
  <2>3. pc[i] = "revalidate"
    BY <1>1 DEF Revalidate
  <2> QED
    BY <1>u, <1>t, <2>2, <2>3, MoveKeepsIInv
<1>2. CASE ~(Revalidate(i) /\ UNCHANGED pc)
  <2>1. PICK place \in {"revalidate", "consent", "intent", "record", "exit"} :
          /\ Goto(i, place)
          /\ place \in BeforeIntent => pc[i] \in BeforeIntent
          /\ place \in Executing => pc[i] \in Executing
          /\ pc[i] # "exit"
    BY <1>2 DEF Start, Revalidate, Reviewed, Consent, Report, Crash
  <2>2. /\ pc' = [pc EXCEPT ![i] = place]
        /\ at' = at
    BY <2>1 DEF Goto
  <2>3. place \in Pc \ UnderLease
    OBVIOUS
  <2>4. at \in [Invocation -> 1..(Len(Targets) + 1)]
    BY DEF IInv, TypeOK
  <2> QED
    BY <1>u, <1>t, <2>1, <2>2, <2>3, <2>4, MoveKeepsIInv
<1> QED
  BY <1>1, <1>2

LEMMA PersistIntentKeepsIInv ==
  ASSUME IInv, NEW i \in Invocation, PersistIntent(i)
  PROVE  IInv'
<1> USE DEF IInv, PersistIntent, provider
<1>p. pc[i] = "intent"
  OBVIOUS
<1>1. CASE Goto(i, "exit") /\ UNCHANGED intents
  <2>1. pc' = [pc EXCEPT ![i] = "exit"] /\ at' = at
    BY <1>1 DEF Goto
  <2>2. "exit" \in Pc \ UnderLease /\ "exit" \notin BeforeIntent \cup Executing
    BY DEF Pc, UnderLease, BeforeIntent, Executing
  <2> QED
    BY <1>1, <1>p, <2>1, <2>2, MoveKeepsIInv DEF TypeOK
<1>2. CASE ~(Goto(i, "exit") /\ UNCHANGED intents)
  <2>f. /\ intents' = intents \cup {i}
        /\ pc' = [pc EXCEPT ![i] = "next"]
        /\ at' = [at EXCEPT ![i] = 1]
        /\ UNCHANGED <<remote, inflight, protected, lease, records, damaged, sent>>
    BY <1>2
  <2>n. Len(Targets) \in Nat /\ Len(Targets) > 0
    BY PlanAssumption
  <2>1. TypeOK'
    BY <2>f, <2>n DEF TypeOK, Pc
  <2>2. Lifecycle'
    BY <1>p, <2>f DEF Lifecycle, TypeOK, BeforeIntent, Executing, UnderLease
  <2>3. LeaseHeld' /\ Assessed'
    BY <1>p, <2>f DEF LeaseHeld, Assessed, Target, TypeOK, UnderLease
  <2>4. SentHasIntent'
    BY <2>f DEF SentHasIntent
  <2> QED
    BY <2>1, <2>2, <2>3, <2>4
<1> QED
  BY <1>1, <1>2

LEMMA LeaseKeepsIInv ==
  ASSUME IInv, NEW i \in Invocation, Lease(i)
  PROVE  IInv'
<1>n. Len(Targets) \in Nat
  BY PlanAssumption
<1>a. at[i] \in 1..Len(Targets) /\ Target(i) \in Run
  BY <1>n, TargetTyped DEF Lease, Remaining, IInv, TypeOK
<1>1. CASE NextTarget(i)
  BY <1>1, <1>a, NextTargetKeepsIInv
  DEF Lease, Executing, UnderLease, IInv, TypeOK, provider, audit
<1>2. CASE ~NextTarget(i)
  <2>f. /\ pc[i] = "next" /\ pc' = [pc EXCEPT ![i] = "leased"]
        /\ at' = at
        /\ lease[Target(i)] = Nobody
        /\ lease' = [lease EXCEPT ![Target(i)] = i]
        /\ UNCHANGED <<remote, inflight, protected, intents, records, damaged, sent>>
    BY <1>2 DEF Lease, Goto, provider, audit
  <2>1. TypeOK'
    BY <2>f, <1>a DEF IInv, TypeOK, Pc
  <2>2. Lifecycle'
    BY <2>f DEF IInv, Lifecycle, TypeOK, BeforeIntent, Executing, UnderLease
  <2>3. LeaseHeld'
    <3> SUFFICES ASSUME NEW j \in Invocation, pc'[j] \in UnderLease
                 PROVE  at'[j] \in 1..Len(Targets) /\ lease'[Target(j)'] = j
      BY DEF LeaseHeld
    <3>0. Target(j)' = Target(j)
      BY <2>f DEF Target
    <3>1. CASE j = i
      BY <3>0, <3>1, <2>f, <1>a DEF IInv, TypeOK
    <3>2. CASE j # i
      <4>1. at[j] \in 1..Len(Targets) /\ lease[Target(j)] = j
        BY <3>2, <2>f DEF IInv, LeaseHeld, TypeOK
      <4>2. Target(j) # Target(i)
        BY <4>1, <2>f, PlanAssumption
      <4> QED
        BY <3>0, <4>1, <4>2, <2>f, <1>a, TargetTyped DEF IInv, TypeOK
    <3> QED
      BY <3>1, <3>2
  <2>4. Assessed' /\ SentHasIntent'
    BY <2>f DEF IInv, Assessed, SentHasIntent, Target, TypeOK
  <2> QED
    BY <2>1, <2>2, <2>3, <2>4 DEF IInv
<1> QED
  BY <1>1, <1>2

\* The steps under a lease.
LEMMA LeasedKeepsIInv ==
  ASSUME IInv, NEW i \in Invocation, Assess(i) \/ SendDelete(i) \/ Answer(i)
  PROVE  IInv'
<1> USE DEF UnderLease, Executing
<1>a. /\ pc[i] \in UnderLease
      /\ at[i] \in 1..Len(Targets)
      /\ lease[Target(i)] = i
      /\ Target(i) \in Run
      /\ i \in intents
  BY TargetTyped DEF Assess, SendDelete, Answer, IInv, LeaseHeld, Lifecycle
<1>1. CASE NextTarget(i) /\ ~SendDelete(i)
  <2>1. /\ UNCHANGED <<intents, records, damaged, sent, protected>>
        /\ remote' \in [Run -> Version]
        /\ inflight' \in SUBSET Run
    BY <1>1, <1>a DEF Assess, Answer, Erased, IInv, TypeOK, Version, provider, audit
  <2> QED
    BY <1>1, <1>a, <2>1, NextTargetKeepsIInv
<1>2. CASE ~(NextTarget(i) /\ ~SendDelete(i))
  <2>f. PICK place \in {"delete", "answer"} :
          /\ pc' = [pc EXCEPT ![i] = place]
          /\ at' = at
          /\ place = "delete" => Target(i) \notin protected
          /\ UNCHANGED <<remote, protected, lease, intents, records, damaged>>
    BY <1>2 DEF Assess, SendDelete, Answer, Goto, provider, audit
  <2>s. /\ sent' \in SUBSET (Invocation \X Run)
        /\ inflight' \in SUBSET Run
        /\ \A j \in Invocation, r \in Run :
             <<j, r>> \in sent' \ sent => j = i
    BY <1>2, <1>a DEF Assess, SendDelete, Answer, IInv, TypeOK, provider, audit
  <2>1. TypeOK'
    BY <2>f, <2>s DEF IInv, TypeOK, Pc
  <2>2. Lifecycle'
    BY <2>f, <1>a DEF IInv, Lifecycle, TypeOK, BeforeIntent
  <2>3. LeaseHeld'
    BY <2>f, <1>a DEF IInv, LeaseHeld, TypeOK, Target
  <2>4. Assessed'
    BY <2>f DEF IInv, Assessed, TypeOK, Target
  <2>5. SentHasIntent'
    BY <2>f, <2>s, <1>a DEF IInv, SentHasIntent
  <2> QED
    BY <2>1, <2>2, <2>3, <2>4, <2>5 DEF IInv
<1> QED
  BY <1>1, <1>2

LEMMA PersistRecordKeepsIInv ==
  ASSUME IInv, NEW i \in Invocation, PersistRecord(i)
  PROVE  IInv'
<1> USE DEF IInv, PersistRecord, provider
<1>f. /\ pc[i] = "record" /\ pc' = [pc EXCEPT ![i] = "exit"]
      /\ at' = at
      /\ records' \in SUBSET Invocation
      /\ \A j \in Invocation : j \in records' \ records => j = i
  BY DEF Goto, TypeOK
<1>1. TypeOK'
  BY <1>f DEF TypeOK, Pc
<1>2. Lifecycle'
  BY <1>f DEF Lifecycle, TypeOK, BeforeIntent, Executing, UnderLease
<1>3. LeaseHeld' /\ Assessed' /\ SentHasIntent'
  BY <1>f DEF LeaseHeld, Assessed, SentHasIntent, TypeOK, Target, UnderLease
<1> QED
  BY <1>1, <1>2, <1>3

LEMMA OthersKeepIInv ==
  ASSUME IInv,
         \/ \E r \in Run : Protect(r) \/ Unprotect(r) \/ Drift(r) \/ Land(r)
         \/ Damage
  PROVE  IInv'
<1>1. /\ UNCHANGED <<lease, pc, at, intents, records, sent>>
      /\ remote' \in [Run -> Version]
      /\ inflight' \in SUBSET Run
      /\ protected' \in SUBSET Run
      /\ damaged' \in SUBSET AuditFile
  BY DEF IInv, TypeOK, Version, AuditFile, Erased, Protect, Unprotect, Drift, Land, Damage,
     provider, audit
<1>2. TypeOK' /\ Lifecycle' /\ LeaseHeld' /\ SentHasIntent'
  BY <1>1 DEF IInv, TypeOK, Lifecycle, LeaseHeld, SentHasIntent, Target
<1>3. Assessed'
  <2> SUFFICES ASSUME NEW i \in Invocation, pc[i] = "delete"
               PROVE  Target(i) \notin protected'
    BY <1>1 DEF Assessed, Target
  <2>1. /\ Target(i) \notin protected
        /\ lease[Target(i)] # Nobody
    BY PlanAssumption DEF IInv, Assessed, LeaseHeld, UnderLease
  <2> QED
    BY <2>1 DEF Protect, Unprotect, Drift, Land, Damage
<1> QED
  BY <1>2, <1>3 DEF IInv

LEMMA NextKeepsIInv == IInv /\ [Next]_vars => IInv'
<1> SUFFICES ASSUME IInv, [Next]_vars PROVE IInv'
  OBVIOUS
<1>1. ASSUME NEW i \in Invocation, Step(i) PROVE IInv'
  BY <1>1, PlainKeepsIInv, PersistIntentKeepsIInv, LeaseKeepsIInv, LeasedKeepsIInv,
     PersistRecordKeepsIInv DEF Step
<1>2. CASE \/ \E r \in Run : Protect(r) \/ Unprotect(r) \/ Drift(r) \/ Land(r)
           \/ Damage
  BY <1>2, OthersKeepIInv
<1>3. CASE UNCHANGED vars
  BY <1>3 DEF vars, IInv, TypeOK, Lifecycle, LeaseHeld, Assessed, SentHasIntent, Target
<1> QED
  BY <1>1, <1>2, <1>3 DEF Next

LEMMA Invariance == Spec => []IInv
BY InitIInv, NextKeepsIInv, PTL DEF Spec

-----------------------------------------------------------------------------
(* The theorems *)

\* Nothing that was sent is missing from the history.
THEOREM AllMutationsAreSurfaced == Spec => []MutationsAreSurfaced
<1>1. IInv => MutationsAreSurfaced
  BY DEF IInv, SentHasIntent, MutationsAreSurfaced, PendingIntents, ReadIntents, ReadRecords
<1> QED
  BY <1>1, Invariance, PTL

\* No invocation, however old its review, sends a DELETE for a protected run.
THEOREM NewProtectionsWin == Spec => NewProtectionWins
<1>1. IInv /\ [Next]_vars =>
        [\A i \in Invocation, r \in Run : <<i, r>> \in sent' \ sent => r \notin protected]_vars
  <2> SUFFICES ASSUME IInv, Next, NEW i \in Invocation, NEW r \in Run,
                      <<i, r>> \in sent' \ sent
               PROVE  r \notin protected
    BY DEF vars
  <2>1. PICK j \in Invocation : SendDelete(j)
    BY DEF Next, Step, Start, Revalidate, Reviewed, Consent, PersistIntent, Lease, Assess,
       Answer, Report, PersistRecord, Crash, Protect, Unprotect, Drift, Land, Damage
  <2>2. r = Target(j)
    BY <2>1 DEF SendDelete
  <2> QED
    BY <2>1, <2>2 DEF SendDelete, IInv, Assessed
<1> QED
  BY <1>1, Invariance, PTL DEF Spec, NewProtectionWins

\* The audit trail is the abstract ledger: intent, mutations, record, in this order.
THEOREM ImplementsLedger == Spec => LedgerSpec
<1>1. Init => Ledger!Init
  BY DEF Init, Ledger!Init
<1>2. IInv /\ [Next]_vars => [Ledger!Next]_(Ledger!vars)
  <2> SUFFICES ASSUME IInv, Next PROVE Ledger!Next \/ UNCHANGED Ledger!vars
    BY DEF vars, Ledger!vars
  <2>1. ASSUME NEW i \in Invocation, PersistIntent(i)
        PROVE  Ledger!Next \/ UNCHANGED Ledger!vars
    <3>1. i \notin intents
      BY <2>1 DEF PersistIntent, IInv, Lifecycle, BeforeIntent
    <3> QED
      BY <2>1, <3>1 DEF PersistIntent, Ledger!Next, Ledger!Commit, Ledger!vars
  <2>2. ASSUME NEW i \in Invocation, SendDelete(i)
        PROVE  Ledger!Next \/ UNCHANGED Ledger!vars
    <3>1. i \in intents \ records /\ Target(i) \in Run
      BY <2>2, TargetTyped
      DEF SendDelete, IInv, Lifecycle, LeaseHeld, Executing, UnderLease
    <3> QED
      BY <2>2, <3>1 DEF SendDelete, audit, Ledger!Next, Ledger!Mutate, Ledger!Open
  <2>3. ASSUME NEW i \in Invocation, PersistRecord(i)
        PROVE  Ledger!Next \/ UNCHANGED Ledger!vars
    <3>1. i \in intents \ records
      BY <2>3 DEF PersistRecord, IInv, Lifecycle, Executing
    <3> QED
      BY <2>3, <3>1 DEF PersistRecord, Ledger!Next, Ledger!Resolve, Ledger!Open, Ledger!vars
  <2>4. ASSUME NEW i \in Invocation,
               \/ Start(i) \/ Revalidate(i) \/ Reviewed(i) \/ Consent(i) \/ Lease(i)
               \/ Assess(i) \/ Answer(i) \/ Report(i) \/ Crash(i)
        PROVE  UNCHANGED Ledger!vars
    BY <2>4 DEF Start, Revalidate, Reviewed, Consent, Lease, Assess, Answer, Report, Crash,
       audit, Ledger!vars
  <2>5. ASSUME NEW r \in Run, Protect(r) \/ Unprotect(r) \/ Drift(r) \/ Land(r)
        PROVE  UNCHANGED Ledger!vars
    BY <2>5 DEF Protect, Unprotect, Drift, Land, audit, Ledger!vars
  <2>6. CASE Damage
    BY <2>6 DEF Damage, Ledger!vars
  <2> QED
    BY <2>1, <2>2, <2>3, <2>4, <2>5, <2>6 DEF Next, Step
<1> QED
  BY <1>1, <1>2, Invariance, PTL DEF Spec, LedgerSpec, Ledger!Spec
=============================================================================
