--------------------------- MODULE Cleanup_proofs ---------------------------
(***************************************************************************)
(* TLAPS proofs about Cleanup, for every plan and any number of            *)
(* applications: what the report and the ledger say of the DELETEs that    *)
(* were sent, and what a DELETE is based on.                               *)
(***************************************************************************)
EXTENDS Cleanup, TLAPS

-----------------------------------------------------------------------------
(* The inductive invariant *)

\* The states that promise a target was left alone.
LeftAlone == {"Blocked", "Changed", "RevalidationFailed"}

Before    == {"review", "intent"}
AtTarget  == {"check", "delete", "verify"}
Executing == {"next"} \cup AtTarget

Typed ==
  /\ kind \in Kind
  /\ apply \in 1..MaxApplies
  /\ pc \in Pc
  /\ at \in 1..(Len(Targets) + 1)
  /\ report \in Seq([state : CacheState, limited : BOOLEAN])
  /\ halted \in BOOLEAN
  /\ intents \subseteq 1..apply /\ records \subseteq 1..apply
  /\ sent \subseteq (1..apply) \X Object

\* The report is as long as the loop has come, and the loop stands at a target
\* only while it is not halted.
Position ==
  /\ pc \in Before => report = <<>>
  /\ pc \in Executing => Len(report) = at - 1
  /\ pc \in AtTarget => at <= Len(Targets) /\ ~halted

\* An application has nothing in the ledger before its intent, and no record
\* before it has ended.
Audited ==
  /\ pc \in Before => apply \notin intents /\ \A s \in sent : s[1] # apply
  /\ pc \in Before \cup Executing => apply \notin records
  /\ kind = "cache" /\ pc \in Executing => apply \in intents

\* An application has sent DELETEs of the targets it has come to, and no other.
Attempted == IF pc = "verify" THEN at ELSE at - 1

SentSoFar ==
  pc \in Executing =>
    \A s \in sent : s[1] = apply => \E k \in 1..Attempted : s[2] = Targets[k]

LimitHalts ==
  kind = "cache" /\ pc \in Executing =>
    \A j \in 1..Len(report) : report[j].limited => halted

IInv ==
  /\ Typed
  /\ Position
  /\ Audited
  /\ SentSoFar
  /\ LimitHalts
  /\ ReportOwnsUp
  /\ HaltIsFinal

\* The last lookup still says what the DELETE meets, or others have moved it since.
Fresh == pc = "delete" /\ Target \in changed => Target \in recent

-----------------------------------------------------------------------------
(* Lemmas *)

LEMMA TargetsTyped ==
  /\ Len(Targets) \in Nat
  /\ \A k \in 1..Len(Targets) : Targets[k] \in Object
  /\ \A j, k \in 1..Len(Targets) : j # k => Targets[j] # Targets[k]
BY PlanAssumption

LEMMA Places ==
  /\ Before \cap Executing = {} /\ Before \cup Executing \cup {"exit"} = Pc
  /\ "exit" \notin Before \cup Executing
BY DEF Before, Executing, AtTarget, Pc

\* A step that leaves alone all that the invariant is about.
LEMMA StillKeepsIInv ==
  ASSUME IInv, UNCHANGED <<kind, apply, pc, at, report, halted, intents, records, sent>>
  PROVE  IInv'
<1>1. Typed'
  BY DEF IInv, Typed
<1>2. Attempted' = Attempted
  BY DEF Attempted
<1> QED
  BY <1>1, <1>2
  DEF IInv, Position, Audited, SentSoFar, LimitHalts, ReportOwnsUp, HaltIsFinal

\* The end of an application; a record is no claim about the report.
LEMMA ExitKeepsIInv ==
  ASSUME IInv, pc' = "exit", records' \subseteq 1..apply,
         UNCHANGED <<kind, apply, at, report, halted, intents, sent>>
  PROVE  IInv'
<1>1. Typed'
  BY Places DEF IInv, Typed
<1>2. pc' \notin Before /\ pc' \notin Executing /\ pc' \notin AtTarget
  BY Places DEF Executing
<1> QED
  BY <1>1, <1>2
  DEF IInv, Position, Audited, SentSoFar, LimitHalts, ReportOwnsUp, HaltIsFinal

\* Nothing was sent for the target an application is at, unless it is verified.
LEMMA TargetUnsent ==
  ASSUME IInv, pc \in Executing, at <= Len(Targets), pc # "verify"
  PROVE  <<apply, Target>> \notin sent
<1>1. \A k \in 1..(at - 1) : Targets[k] # Target
  BY TargetsTyped DEF IInv, Typed, Target
<1>2. \A s \in sent : s[1] = apply => \E k \in 1..(at - 1) : s[2] = Targets[k]
  BY DEF IInv, SentSoFar, Attempted
<1> QED
  BY <1>1, <1>2

\* Earlier items stay right when DELETEs are sent for the target at hand only.
LEMMA EarlierStayRight ==
  ASSUME IInv, pc \in Executing, at <= Len(Targets),
         sent' \in {sent, sent \cup {<<apply, Target>>}}
  PROVE  /\ \A j \in 1..Len(report) :
              report[j].state \in LeftAlone => <<apply, Targets[j]>> \notin sent'
         /\ \A j, k \in 1..Len(report) :
              kind = "cache" /\ j < k /\ report[j].limited =>
                report[k].state = "Blocked" /\ <<apply, Targets[k]>> \notin sent'
<1>1. \A k \in 1..Len(report) : Targets[k] # Target
  BY TargetsTyped DEF IInv, Typed, Position, Target
<1>2. \A k \in 1..Len(report) : <<apply, Targets[k]>> \notin sent => <<apply, Targets[k]>> \notin sent'
  BY <1>1
<1> QED
  BY <1>2 DEF IInv, ReportOwnsUp, HaltIsFinal, LeftAlone

\* What is sent while an application is at a target keeps the type of sent, and
\* what was sent so far.
LEMMA SendingTyped ==
  ASSUME IInv, pc \in Executing, at <= Len(Targets),
         sent' \in {sent, sent \cup {<<apply, Target>>}}
  PROVE  /\ sent' \subseteq (1..apply) \X Object
         /\ \A s \in sent' : s[1] = apply => \E k \in 1..at : s[2] = Targets[k]
<1>1. at \in 1..Len(Targets) /\ apply \in 1..apply /\ Target = Targets[at]
  BY TargetsTyped DEF IInv, Typed, Target
<1>2. Target \in Object
  BY <1>1, TargetsTyped
<1>3. sent \subseteq (1..apply) \X Object
  BY DEF IInv, Typed
<1>4. ASSUME NEW s \in sent', s[1] = apply
      PROVE  \E k \in 1..at : s[2] = Targets[k]
  <2>1. CASE s \in sent
    <3>1. PICK k \in 1..Attempted : s[2] = Targets[k]
      BY <1>4, <2>1 DEF IInv, SentSoFar
    <3>2. k \in 1..at
      BY <1>1, <3>1, TargetsTyped DEF Attempted
    <3> QED
      BY <3>1, <3>2
  <2>2. CASE s = <<apply, Target>>
    BY <1>1, <2>2, TargetsTyped
  <2> QED
    BY <2>1, <2>2
<1> QED
  BY <1>1, <1>2, <1>3, <1>4

\* The loop goes on at the same target.
LEMMA MoveKeepsIInv ==
  ASSUME IInv, pc \in Executing, at <= Len(Targets), ~halted,
         NEW place \in AtTarget, pc' = place,
         UNCHANGED <<kind, apply, at, report, halted, intents, records>>,
         sent' \in {sent, sent \cup {<<apply, Target>>}},
         place = "verify" \/ (sent' = sent /\ pc # "verify")
  PROVE  IInv'
<1>0. pc \notin Before /\ pc' \notin Before /\ pc' \in Executing /\ pc' \in Pc
  BY Places DEF Executing, AtTarget, Pc
<1>1. Typed'
  BY <1>0, SendingTyped DEF IInv, Typed
<1>2. Position' /\ Audited'
  BY <1>0 DEF IInv, Position, Audited
<1>3. SentSoFar'
  <2>1. CASE place = "verify"
    BY <2>1, SendingTyped DEF SentSoFar, Attempted
  <2>2. CASE place # "verify"
    BY <2>2, <1>0 DEF IInv, SentSoFar, Attempted
  <2> QED
    BY <2>1, <2>2
<1>4. LimitHalts'
  BY DEF IInv, LimitHalts
<1>5. ReportOwnsUp' /\ HaltIsFinal'
  BY EarlierStayRight DEF ReportOwnsUp, HaltIsFinal, LeftAlone
<1> QED
  BY <1>1, <1>2, <1>3, <1>4, <1>5 DEF IInv

\* An item is finished: a target left alone is one of which nothing was sent, and
\* after a halt it is a blocked one.
LEMMA FinishKeepsIInv ==
  ASSUME IInv, pc \in Executing, at <= Len(Targets),
         NEW state \in CacheState, NEW limited \in BOOLEAN, NEW halt \in BOOLEAN,
         Finish(state, limited, halt),
         UNCHANGED <<kind, apply, intents, records>>,
         sent' \in {sent, sent \cup {<<apply, Target>>}},
         state \in LeftAlone => sent' = sent /\ pc # "verify",
         halted => state = "Blocked"
  PROVE  IInv'
<1> DEFINE done == [state |-> state, limited |-> limited]
<1>0. /\ report' = Append(report, done)
      /\ halted' = (halted \/ halt \/ (kind = "cache" /\ limited))
      /\ pc' = "next" /\ at' = at + 1
      /\ done.state = state /\ done.limited = limited
      /\ done \in [state : CacheState, limited : BOOLEAN]
  BY DEF Finish
<1>a. /\ report \in Seq([state : CacheState, limited : BOOLEAN])
      /\ at \in Nat /\ at >= 1 /\ Len(report) = at - 1 /\ halted \in BOOLEAN
      /\ pc \notin Before
  BY Places, TargetsTyped DEF IInv, Typed, Position
<1>p. pc' \in Executing /\ pc' \notin Before \cup AtTarget /\ pc' \in Pc /\ pc' # "verify"
  BY <1>0 DEF Executing, Before, AtTarget, Pc
<1> HIDE DEF done
<1>b. /\ report' \in Seq([state : CacheState, limited : BOOLEAN])
      /\ Len(report') = at
      /\ \A j \in 1..Len(report) : report'[j] = report[j]
      /\ report'[at] = done
  BY <1>0, <1>a
<1>u. state \in LeftAlone => <<apply, Target>> \notin sent'
  BY TargetUnsent
<1>1. Typed'
  <2>1. at' \in 1..(Len(Targets) + 1)
    BY <1>0, <1>a, TargetsTyped
  <2> QED
    BY <1>0, <1>b, <1>a, <1>p, <2>1, SendingTyped DEF IInv, Typed
<1>2. Position' /\ Audited'
  BY <1>0, <1>a, <1>b, <1>p DEF IInv, Position, Audited
<1>3. SentSoFar'
  <2>1. Attempted' = at
    BY <1>0, <1>a, <1>p DEF Attempted
  <2> QED
    BY <2>1, SendingTyped DEF SentSoFar
<1>4. LimitHalts'
  <2>1. ASSUME kind = "cache", NEW j \in 1..at, report'[j].limited
        PROVE  halted'
    <3>1. CASE j \in 1..Len(report)
      <4>1. report[j].limited
        BY <2>1, <3>1, <1>b
      <4>2. halted
        BY <2>1, <3>1, <4>1 DEF IInv, LimitHalts
      <4> QED
        BY <4>2, <1>0
    <3>2. CASE j = at
      <4>1. limited
        BY <2>1, <3>2, <1>0, <1>b
      <4> QED
        BY <2>1, <4>1, <1>0
    <3> QED
      BY <3>1, <3>2, <1>a
  <2> QED
    BY <2>1, <1>b DEF LimitHalts
<1>5. ReportOwnsUp'
  <2>1. ASSUME NEW j \in 1..at, report'[j].state \in LeftAlone
        PROVE  <<apply, Targets[j]>> \notin sent'
    <3>1. CASE j \in 1..Len(report)
      BY <2>1, <3>1, <1>b, EarlierStayRight
    <3>2. CASE j = at
      BY <2>1, <3>2, <1>0, <1>b, <1>u DEF Target
    <3> QED
      BY <3>1, <3>2, <1>a
  <2> QED
    BY <2>1, <1>b DEF ReportOwnsUp, LeftAlone
<1>6. HaltIsFinal'
  <2>1. ASSUME kind = "cache", NEW j \in 1..at, NEW k \in 1..at, j < k, report'[j].limited
        PROVE  report'[k].state = "Blocked" /\ <<apply, Targets[k]>> \notin sent'
    <3>1. j \in 1..Len(report) /\ report[j].limited
      BY <2>1, <1>a, <1>b
    <3>2. CASE k \in 1..Len(report)
      BY <2>1, <3>1, <3>2, <1>b, EarlierStayRight
    <3>3. CASE k = at
      <4>1. halted
        BY <2>1, <3>1 DEF IInv, LimitHalts
      <4>2. state = "Blocked"
        BY <4>1
      <4> QED
        BY <3>3, <4>2, <1>0, <1>b, <1>u DEF LeftAlone, Target
    <3> QED
      BY <3>2, <3>3, <1>a
  <2> QED
    BY <2>1, <1>b DEF HaltIsFinal
<1> QED
  BY <1>1, <1>2, <1>3, <1>4, <1>5, <1>6 DEF IInv

-----------------------------------------------------------------------------
(* The invariant holds initially and is kept by every step. *)

LEMMA InitIInv == Init => IInv
<1> SUFFICES ASSUME Init PROVE IInv
  OBVIOUS
<1>1. /\ report = <<>> /\ Len(report) = 0 /\ pc = "review" /\ at = 1 /\ apply = 1
      /\ halted = FALSE /\ intents = {} /\ records = {} /\ sent = {} /\ kind \in Kind
  BY DEF Init
<1>2. Typed
  <2>1. 1 \in 1..MaxApplies /\ 1 \in 1..(Len(Targets) + 1)
    BY PlanAssumption, TargetsTyped
  <2>2. report \in Seq([state : CacheState, limited : BOOLEAN]) /\ pc \in Pc
    BY <1>1 DEF Pc
  <2> QED
    BY <1>1, <2>1, <2>2 DEF Typed
<1>3. pc \in Before /\ pc \notin Executing /\ pc \notin AtTarget
  BY <1>1 DEF Before, Executing, AtTarget
<1> QED
  BY <1>1, <1>2, <1>3
  DEF IInv, Position, Audited, SentSoFar, LimitHalts, ReportOwnsUp, HaltIsFinal

\* The plan is applied again: nothing of the new application is in the ledger.
LEMMA AgainKeepsIInv ==
  ASSUME IInv, Again
  PROVE  IInv'
<1>1. /\ apply' = apply + 1 /\ apply' \in 1..MaxApplies /\ apply \in Nat
      /\ pc' = "review" /\ at' = 1 /\ report' = <<>> /\ Len(report') = 0 /\ halted' = FALSE
      /\ UNCHANGED <<kind, intents, records, sent>>
  BY PlanAssumption DEF Again, LookAt, audit, IInv, Typed
<1>2. pc' \in Before /\ pc' \notin Executing /\ pc' \notin AtTarget /\ pc' \in Pc
  BY <1>1 DEF Before, Executing, AtTarget, Pc
<1>3. Typed'
  <2>1. 1..apply \subseteq 1..apply' /\ at' \in 1..(Len(Targets) + 1)
    BY <1>1, TargetsTyped
  <2>2. /\ intents \subseteq 1..apply /\ records \subseteq 1..apply
        /\ sent \subseteq (1..apply) \X Object
    BY DEF IInv, Typed
  <2>3. sent' \subseteq (1..apply') \X Object
    BY <1>1, <2>1, <2>2
  <2>4. intents' \subseteq 1..apply' /\ records' \subseteq 1..apply'
    BY <1>1, <2>1, <2>2
  <2>5. report' \in Seq([state : CacheState, limited : BOOLEAN]) /\ kind' \in Kind
    BY <1>1 DEF IInv, Typed
  <2> QED
    BY <1>1, <1>2, <2>1, <2>3, <2>4, <2>5 DEF Typed
<1>4. Audited'
  <2>1. apply' \notin 1..apply
    BY <1>1
  <2> QED
    BY <1>1, <1>2, <2>1 DEF IInv, Typed, Audited
<1> QED
  BY <1>1, <1>2, <1>3, <1>4
  DEF IInv, Position, SentSoFar, LimitHalts, ReportOwnsUp, HaltIsFinal

\* The revalidation touches neither the report nor the ledger.
LEMMA ReviewKeepsIInv ==
  ASSUME IInv, ReviewArtifact \/ ReviewCache
  PROVE  IInv'
<1>1. /\ pc = "review" /\ pc' = "review" /\ at' \in {at, at + 1} /\ at <= Len(Targets)
      /\ halted' \in BOOLEAN
      /\ UNCHANGED <<kind, apply, report, intents, records, sent>>
  BY DEF ReviewArtifact, ReviewCache, Requests, Judge, LookAt, Turn, audit, IInv, Typed
<1>2. at' \in 1..(Len(Targets) + 1)
  BY <1>1, TargetsTyped DEF IInv, Typed
<1>3. pc \notin Executing /\ pc \notin AtTarget
  BY <1>1 DEF Executing, AtTarget
<1>4. Typed'
  BY <1>1, <1>2 DEF IInv, Typed
<1> QED
  BY <1>1, <1>3, <1>4
  DEF IInv, Position, Audited, SentSoFar, LimitHalts, ReportOwnsUp, HaltIsFinal

\* The execution begins, of a cache plan with its intent recorded.
LEMMA BeginKeepsIInv ==
  ASSUME IInv, pc \in Before, Begin,
         UNCHANGED <<kind, apply, records, sent>>,
         \/ kind = "artifact" /\ UNCHANGED intents
         \/ intents' = intents \cup {apply}
  PROVE  IInv'
<1>1. /\ pc' = "next" /\ at' = 1 /\ halted' = FALSE /\ report' = report
      /\ report = <<>> /\ Len(report) = 0
  BY DEF Begin, IInv, Position
<1>2. pc' \in Executing /\ pc' \notin Before /\ pc' \notin AtTarget /\ pc' \in Pc /\ pc' # "verify"
  BY <1>1 DEF Before, Executing, AtTarget, Pc
<1>3. Typed'
  <2>1. at' \in 1..(Len(Targets) + 1) /\ apply \in 1..apply
    BY <1>1, TargetsTyped DEF IInv, Typed
  <2> QED
    BY <1>1, <1>2, <2>1 DEF IInv, Typed
<1>4. Audited'
  BY <1>2, Places DEF IInv, Audited
<1>5. \A s \in sent' : s[1] # apply'
  BY DEF IInv, Audited
<1> QED
  BY <1>1, <1>2, <1>3, <1>4, <1>5
  DEF IInv, Position, SentSoFar, LimitHalts, ReportOwnsUp, HaltIsFinal

\* The consent of a cache purge leads to its intent.
LEMMA ConsentKeepsIInv ==
  ASSUME IInv, ConsentToCaches
  PROVE  IInv'
<1>1. /\ pc = "review" /\ pc' \in {"intent", "exit"}
      /\ UNCHANGED <<kind, apply, at, report, halted, intents, records, sent>>
  BY DEF ConsentToCaches, Silent, audit
<1>2. CASE pc' = "exit"
  BY <1>1, <1>2, ExitKeepsIInv DEF IInv, Typed
<1>3. CASE pc' = "intent"
  <2>1. /\ pc \in Before /\ pc' \in Before /\ pc' \in Pc
        /\ pc' \notin Executing /\ pc' \notin AtTarget
    BY <1>1, <1>3 DEF Before, Executing, AtTarget, Pc
  <2>2. Typed'
    BY <1>1, <2>1 DEF IInv, Typed
  <2> QED
    BY <1>1, <2>1, <2>2
    DEF IInv, Position, Audited, SentSoFar, LimitHalts, ReportOwnsUp, HaltIsFinal
<1> QED
  BY <1>1, <1>2, <1>3

\* The steps that end an application without a word, or begin its execution.
LEMMA DecisionsKeepIInv ==
  ASSUME IInv, Refuse \/ ConsentToArtifacts \/ PersistIntent \/ Record \/ Kill
  PROVE  IInv'
<1>0. apply \in 1..apply /\ records \subseteq 1..apply
  BY DEF IInv, Typed
<1>1. CASE Refuse \/ Record \/ Kill
  BY <1>0, <1>1, ExitKeepsIInv DEF Refuse, Record, Kill, Silent, audit
<1>2. CASE ConsentToArtifacts
  <2>1. pc \in Before
    BY <1>2 DEF ConsentToArtifacts, Before
  <2> QED
    BY <1>0, <1>2, <2>1, ExitKeepsIInv, BeginKeepsIInv DEF ConsentToArtifacts, Silent, audit
<1>3. CASE PersistIntent
  <2>1. pc \in Before
    BY <1>3 DEF PersistIntent, Before
  <2> QED
    BY <1>0, <1>3, <2>1, ExitKeepsIInv, BeginKeepsIInv DEF PersistIntent, Silent
<1> QED
  BY <1>1, <1>2, <1>3

\* The loop: the next target is begun, or blocked.
LEMMA LoopKeepsIInv ==
  ASSUME IInv, NextTarget \/ Block
  PROVE  IInv'
<1>1. /\ pc = "next" /\ pc \in Executing /\ pc # "verify" /\ at <= Len(Targets)
      /\ UNCHANGED <<kind, apply, intents, records, sent>>
  BY DEF NextTarget, Block, audit, Executing
<1>2. CASE NextTarget
  <2>1. ~halted /\ pc' = "check" /\ "check" \in AtTarget /\ UNCHANGED <<at, report, halted>>
    BY <1>2 DEF NextTarget, LookAt, AtTarget
  <2> QED
    BY <1>1, <2>1, MoveKeepsIInv
<1>3. CASE Block
  <2>1. PICK low \in BOOLEAN : Finish("Blocked", FALSE, low)
    BY <1>3 DEF Block
  <2>2. "Blocked" \in CacheState
    BY DEF CacheState
  <2> QED
    BY <1>1, <2>1, <2>2, FinishKeepsIInv
<1> QED
  BY <1>2, <1>3

\* The lookup before the DELETE.
LEMMA CheckKeepsIInv ==
  ASSUME IInv, CheckArtifact \/ CheckCache
  PROVE  IInv'
<1>1. /\ pc = "check" /\ pc \in Executing /\ pc \in AtTarget /\ pc # "verify"
      /\ UNCHANGED <<kind, apply, intents, records, sent>>
  BY DEF CheckArtifact, CheckCache, Requests, audit, Executing, AtTarget
<1>2. at <= Len(Targets) /\ ~halted
  BY <1>1 DEF IInv, Position
<1>3. CASE pc' = "delete" /\ UNCHANGED <<at, report, halted>>
  <2>1. "delete" \in AtTarget
    BY DEF AtTarget
  <2> QED
    BY <1>1, <1>2, <1>3, <2>1, MoveKeepsIInv
<1>4. CASE \E state \in CacheState, limited \in BOOLEAN : Finish(state, limited, FALSE)
  BY <1>1, <1>2, <1>4, FinishKeepsIInv
<1>5. CASE Turn
  BY <1>1, <1>5, StillKeepsIInv DEF Turn
<1> QED
  BY <1>3, <1>4, <1>5 DEF CheckArtifact, CheckCache, CacheState, ArtifactState

\* The DELETE, and the lookup that verifies it.
LEMMA DeleteKeepsIInv ==
  ASSUME IInv, DeleteArtifact \/ DeleteCache
  PROVE  IInv'
<1>1. /\ pc = "delete" /\ pc \in Executing /\ pc \in AtTarget /\ pc # "verify"
      /\ UNCHANGED <<kind, apply, intents, records>>
      /\ sent' = sent \cup {<<apply, Target>>}
  BY DEF DeleteArtifact, DeleteCache, Requests, audit, Executing, AtTarget
<1>2. at <= Len(Targets) /\ ~halted
  BY <1>1 DEF IInv, Position
<1>3. CASE pc' = "verify" /\ UNCHANGED <<at, report, halted>>
  <2>1. "verify" \in AtTarget
    BY DEF AtTarget
  <2> QED
    BY <1>1, <1>2, <1>3, <2>1, MoveKeepsIInv
<1>4. CASE \E state \in Outcome, limited \in BOOLEAN : Finish(state, limited, FALSE)
  <2>1. PICK state \in Outcome, limited \in BOOLEAN : Finish(state, limited, FALSE)
    BY <1>4
  <2>2. state \in CacheState /\ state \notin LeftAlone
    BY <2>1 DEF Outcome, CacheState, ArtifactState, LeftAlone
  <2> QED
    BY <1>1, <1>2, <2>1, <2>2, FinishKeepsIInv
<1> QED
  BY <1>3, <1>4 DEF DeleteArtifact, DeleteCache, LookAt

LEMMA VerifyKeepsIInv ==
  ASSUME IInv, Verify
  PROVE  IInv'
<1>1. /\ pc = "verify" /\ pc \in Executing /\ pc \in AtTarget
      /\ UNCHANGED <<kind, apply, intents, records, sent>>
  BY DEF Verify, Requests, audit, Executing, AtTarget
<1>2. at <= Len(Targets) /\ ~halted
  BY <1>1 DEF IInv, Position
<1>3. CASE Turn
  BY <1>1, <1>3, StillKeepsIInv DEF Turn
<1>4. CASE \E state \in {"Deleted", "VerificationFailed"}, limited \in BOOLEAN :
             Finish(state, limited, FALSE)
  <2>1. PICK state \in {"Deleted", "VerificationFailed"}, limited \in BOOLEAN :
          Finish(state, limited, FALSE)
    BY <1>4
  <2>2. state \in CacheState /\ state \notin LeftAlone
    BY <2>1 DEF CacheState, ArtifactState, LeftAlone
  <2> QED
    BY <1>1, <1>2, <2>1, <2>2, FinishKeepsIInv
<1> QED
  BY <1>3, <1>4 DEF Verify

LEMMA NextIInv ==
  ASSUME IInv, [Next]_vars
  PROVE  IInv'
<1>1. CASE UNCHANGED vars
  BY <1>1, StillKeepsIInv DEF vars, audit
<1>2. CASE Upload \/ Touch \/ Vanish \/ Land
  BY <1>2, StillKeepsIInv DEF Upload, Touch, Vanish, Land, Moved, audit
<1> QED
  BY <1>1, <1>2, AgainKeepsIInv, ReviewKeepsIInv, ConsentKeepsIInv, DecisionsKeepIInv,
     LoopKeepsIInv, CheckKeepsIInv, DeleteKeepsIInv, VerifyKeepsIInv
  DEF Next

LEMMA AlwaysIInv == Spec => []IInv
BY InitIInv, NextIInv, PTL DEF Spec

-----------------------------------------------------------------------------
(* Theorems *)

\* The report owns up to every DELETE of its application: a target reported Blocked,
\* Changed or RevalidationFailed was left alone, for every plan.
THEOREM ReportsOwnUp == Spec => []ReportOwnsUp
<1>1. IInv => ReportOwnsUp
  BY DEF IInv
<1> QED
  BY <1>1, AlwaysIInv, PTL

\* After a purge met the rate limit no later cache of the plan is touched.
THEOREM HaltsAreFinal == Spec => []HaltIsFinal
<1>1. IInv => HaltIsFinal
  BY DEF IInv
<1> QED
  BY <1>1, AlwaysIInv, PTL

\* The lookup that a DELETE rests on finds its target as planned.
LEMMA FreshKept ==
  ASSUME IInv, Fresh, [Next]_vars
  PROVE  Fresh'
<1>1. CASE pc' # "delete"
  BY <1>1 DEF Fresh
<1>2. CASE pc' = "delete"
  <2>1. CASE CheckArtifact \/ CheckCache
    <3>1. pc = "check" /\ pc' # pc
      BY <1>2, <2>1 DEF CheckArtifact, CheckCache
    <3>2. ~Turn /\ \A state, limited, halt : ~Finish(state, limited, halt)
      BY <1>2, <3>1 DEF Turn, Finish
    <3>3. /\ ArtifactFound(Target) = "same" \/ CacheFound(Target) = "same"
          /\ UNCHANGED <<at, changed>>
      BY <2>1, <3>2 DEF CheckArtifact, CheckCache, provider
    <3>4. Target \notin changed
      BY <3>3 DEF ArtifactFound, CacheFound, Met
    <3> QED
      BY <3>3, <3>4 DEF Fresh, Target
  <2>2. CASE Upload \/ Touch \/ Vanish
    <3>1. pc = "delete" /\ at' = at
      BY <1>2, <2>2 DEF Upload, Touch, Vanish, Moved
    <3>2. changed' \ changed \subseteq recent' /\ recent \subseteq recent'
      BY <2>2 DEF Upload, Touch, Vanish, Moved
    <3> QED
      BY <3>1, <3>2 DEF Fresh, Target
  <2>3. CASE Land \/ UNCHANGED vars
    BY <2>3, <1>2 DEF Land, vars, provider, seen, Fresh, Target
  <2>4. CASE Again \/ ReviewArtifact \/ ReviewCache \/ Refuse \/ ConsentToArtifacts
             \/ ConsentToCaches \/ PersistIntent \/ NextTarget \/ Block
             \/ DeleteArtifact \/ DeleteCache \/ Verify \/ Record \/ Kill
    <3>1. pc' # "delete"
      BY <2>4
      DEF Again, ReviewArtifact, ReviewCache, Refuse, ConsentToArtifacts, ConsentToCaches,
          PersistIntent, NextTarget, Block, DeleteArtifact, DeleteCache, Verify, Record, Kill,
          Judge, Turn, LookAt, Begin, Finish
    <3> QED
      BY <1>2, <3>1
  <2> QED
    BY <2>1, <2>2, <2>3, <2>4 DEF Next
<1> QED
  BY <1>1, <1>2

\* A DELETE is sent by the application that runs, of the target it is at.
LEMMA Sends ==
  ASSUME IInv, Next, sent' # sent
  PROVE  /\ pc = "delete"
         /\ sent' = sent \cup {<<apply, Target>>}
         /\ UNCHANGED <<kind, apply, intents, records>>
<1>1. DeleteArtifact \/ DeleteCache
  BY DEF Next, Again, ReviewArtifact, ReviewCache, Refuse, ConsentToArtifacts,
         ConsentToCaches, PersistIntent, NextTarget, Block, CheckArtifact, CheckCache,
         Verify, Record, Kill, Upload, Touch, Vanish, Land, Moved, Silent, Judge, Turn
<1> QED
  BY <1>1 DEF DeleteArtifact, DeleteCache, Requests, audit

\* What a DELETE meets is as planned, or was moved by others after the lookup just
\* before it, in whichever application of whichever plan.
THEOREM OnlyTheReviewedAreDeleted == Spec => OnlyTheReviewedIsDeleted
<1>1. Init => Fresh
  BY DEF Init, Fresh
<1>2. IInv /\ Fresh /\ [Next]_vars =>
        Fresh' /\ [\A s \in sent' \ sent : s[2] \in changed => s[2] \in recent]_vars
  <2> SUFFICES ASSUME IInv, Fresh, [Next]_vars
               PROVE  Fresh' /\ [\A s \in sent' \ sent : s[2] \in changed => s[2] \in recent]_vars
    OBVIOUS
  <2>1. Fresh'
    BY FreshKept
  <2>2. ASSUME Next, NEW s \in sent' \ sent, s[2] \in changed
        PROVE  s[2] \in recent
    BY <2>2, Sends DEF Fresh
  <2> QED
    BY <2>1, <2>2
<1> QED
  BY <1>1, <1>2, AlwaysIInv, PTL DEF Spec, OnlyTheReviewedIsDeleted

\* A cache purge implements the ledger: every step of it commits an intent, resolves
\* one, mutates under an open one, or leaves the ledger alone; an artifact cleanup
\* always does the last.
THEOREM ImplementsLedger == Spec => LedgerSpec
<1>1. Init => Ledger!Init
  BY DEF Init, Ledger!Init
<1>2. IInv /\ [Next]_vars => [Ledger!Next]_Ledger!vars
  <2> SUFFICES ASSUME IInv, [Next]_vars PROVE [Ledger!Next]_Ledger!vars
    OBVIOUS
  <2>0. apply \in 1..MaxApplies /\ kind' = kind
    BY DEF IInv, Typed, Next, vars, Again, ReviewArtifact, ReviewCache, Refuse,
           ConsentToArtifacts, ConsentToCaches, PersistIntent, NextTarget, Block,
           CheckArtifact, CheckCache, DeleteArtifact, DeleteCache, Verify, Record, Kill,
           Upload, Touch, Vanish, Land, Moved, Silent, Requests
  <2>1. CASE kind # "cache" \/ UNCHANGED <<intents, records, sent>>
    BY <2>0, <2>1 DEF Ledger!vars
  <2>2. CASE kind = "cache" /\ sent' # sent
    <3>1. /\ pc \in Executing /\ Target \in Object
          /\ sent' = sent \cup {<<apply, Target>>} /\ UNCHANGED <<intents, records>>
      <4>1. Next
        BY <2>2 DEF vars
      <4>2. pc = "delete"
        BY <2>2, <4>1, Sends
      <4>3. at \in 1..Len(Targets)
        BY <4>2, TargetsTyped DEF IInv, Typed, Position, AtTarget
      <4> QED
        BY <2>2, <4>1, <4>2, <4>3, Sends, TargetsTyped DEF Executing, AtTarget, Target
    <3>2. apply \in intents \ records
      BY <2>2, <3>1 DEF IInv, Audited
    <3>3. Ledger!Mutate(apply, Target)
      BY <2>0, <2>2, <3>1, <3>2 DEF Ledger!Mutate, Ledger!Open
    <3> QED
      BY <2>0, <3>1, <3>3 DEF Ledger!Next
  <2>3. CASE kind = "cache" /\ sent' = sent /\ intents' # intents
    <3>1. PersistIntent
      BY <2>3 DEF Next, vars, audit, Again, ReviewArtifact, ReviewCache, Refuse,
             ConsentToArtifacts, ConsentToCaches, NextTarget, Block,
             CheckArtifact, CheckCache, DeleteArtifact, DeleteCache, Verify, Record, Kill,
             Upload, Touch, Vanish, Land, Moved, Silent, Requests
    <3>2. pc \in Before /\ intents' = intents \cup {apply} /\ records' = records
      BY <2>3, <3>1 DEF PersistIntent, Before
    <3>3. Ledger!Commit(apply)
      BY <2>0, <2>3, <3>2 DEF Ledger!Commit, IInv, Audited
    <3> QED
      BY <2>0, <3>3 DEF Ledger!Next
  <2>4. CASE kind = "cache" /\ sent' = sent /\ intents' = intents /\ records' # records
    <3>1. Record
      BY <2>4 DEF Next, vars, audit, Again, ReviewArtifact, ReviewCache, Refuse,
             ConsentToArtifacts, ConsentToCaches, PersistIntent, NextTarget, Block,
             CheckArtifact, CheckCache, DeleteArtifact, DeleteCache, Verify, Kill,
             Upload, Touch, Vanish, Land, Moved, Silent, Requests
    <3>2. pc \in Executing /\ records' = records \cup {apply}
      BY <2>4, <3>1 DEF Record, Executing
    <3>3. Ledger!Resolve(apply)
      BY <2>0, <2>4, <3>2 DEF Ledger!Resolve, Ledger!Open, IInv, Audited
    <3> QED
      BY <2>0, <3>3 DEF Ledger!Next
  <2> QED
    BY <2>1, <2>2, <2>3, <2>4
<1> QED
  BY <1>1, <1>2, AlwaysIInv, PTL DEF Spec, LedgerSpec, Ledger!Spec

-----------------------------------------------------------------------------
(* The pages of a lookup *)

\* Where a page starts, how much of it a list has, and how much of what is before.
Start(number) == (number - 1) * PerPage

PartOf(start, total) ==
  IF start >= total THEN 0
  ELSE IF start + PerPage < total THEN PerPage ELSE total - start

Within(start, total) == IF start < total THEN start ELSE total

\* While the list has not moved, a lookup has read the first pages of it without
\* meeting its target.
Unseen ==
  /\ store \in Seq(Object)
  /\ kind = "cache" /\ pc \in {"check", "verify"} /\ ~shifted =>
       /\ look.page \in Nat \ {0}
       /\ look.read = Within(Start(look.page), Len(store))
       /\ \A n \in 1..look.read : store[n] # Target
  /\ shifted \in BOOLEAN

\* What is taken out of the list leaves a list.
LEMMA WithoutTyped ==
  ASSUME NEW o, store \in Seq(Object)
  PROVE  Without(o) \in Seq(Object)
<1>1. CASE o \notin InSeq(store)
  BY <1>1 DEF Without
<1>2. CASE o \in InSeq(store)
  <2> DEFINE m == CHOOSE n \in 1..Len(store) : store[n] = o
  <2>1. m \in 1..Len(store)
    BY <1>2 DEF InSeq
  <2>2. Without(o) = SubSeq(store, 1, m - 1) \o SubSeq(store, m + 1, Len(store))
    BY <1>2 DEF Without
  <2> HIDE DEF m
  <2> QED
    BY <2>1, <2>2
<1> QED
  BY <1>1, <1>2

\* A page is read after those before it, up to the end of the list.
LEMMA PagesAddUp ==
  ASSUME NEW start \in Nat, NEW total \in Nat
  PROVE  /\ PartOf(start, total) \in Nat
         /\ Within(start, total) \in Nat
         /\ Within(start, total) + PartOf(start, total) = Within(start + PerPage, total)
         /\ PartOf(start, total) = 0 => Within(start, total) = total
         /\ \A n \in 1..Within(start + PerPage, total) :
              n \notin 1..Within(start, total) => n - start \in 1..PartOf(start, total)
<1>0. PerPage \in Nat \ {0}
  BY PerPageAssumption
<1>1. CASE start >= total
  BY <1>0, <1>1 DEF PartOf, Within
<1>2. CASE start < total /\ start + PerPage < total
  BY <1>0, <1>2 DEF PartOf, Within
<1>3. CASE start < total /\ start + PerPage >= total
  BY <1>0, <1>3 DEF PartOf, Within
<1> QED
  BY <1>0, <1>1, <1>2, <1>3

LEMMA StartTyped ==
  ASSUME NEW number \in Nat \ {0}
  PROVE  /\ Start(number) \in Nat
         /\ Start(number + 1) = Start(number) + PerPage
         /\ number * PerPage = Start(number) + PerPage
         /\ Start(1) = 0
<1>0. PerPage \in Nat /\ number - 1 \in Nat
  BY PerPageAssumption
<1>1. Start(number) \in Nat
  BY <1>0 DEF Start
<1>2. number * PerPage = Start(number) + PerPage
  BY <1>0 DEF Start
<1>3. (number + 1) - 1 = number
  OBVIOUS
<1>4. Start(number + 1) = number * PerPage
  BY <1>3 DEF Start
<1>5. Start(1) = 0
  BY <1>0 DEF Start
<1> QED
  BY <1>1, <1>2, <1>4, <1>5

\* A page has the entries that follow those of the pages before it.
LEMMA PageIs ==
  ASSUME store \in Seq(Object), NEW number \in Nat \ {0}
  PROVE  /\ Len(Page(store, number)) = PartOf(Start(number), Len(store))
         /\ \A n \in 1..Len(Page(store, number)) :
              Page(store, number)[n] = store[Start(number) + n]
<1> DEFINE start == Start(number)
<1> DEFINE last == IF start + PerPage < Len(store) THEN start + PerPage ELSE Len(store)
<1>0. PerPage \in Nat \ {0} /\ Len(store) \in Nat /\ start \in Nat
  <2>1. Start(number) \in Nat
    BY StartTyped
  <2>2. Len(store) \in Nat
    OBVIOUS
  <2> QED
    BY <2>1, <2>2, PerPageAssumption
<1>1. Page(store, number) = SubSeq(store, start + 1, last)
  BY StartTyped DEF Page, Start
<1> HIDE DEF start
<1>2. last \in Nat /\ last <= Len(store)
  BY <1>0
<1>3. PartOf(start, Len(store)) = IF start + 1 <= last THEN last - start ELSE 0
  BY <1>0 DEF PartOf
<1> HIDE DEF last
<1>4. /\ Len(SubSeq(store, start + 1, last)) = IF start + 1 <= last THEN last - start ELSE 0
      /\ \A n \in 1..(last - start) :
           SubSeq(store, start + 1, last)[n] = store[start + n]
  BY <1>0, <1>2
<1> QED
  BY <1>0, <1>1, <1>2, <1>3, <1>4 DEF start

\* What Unseen says of a lookup, and what its page adds.
LEMMA LookupState ==
  ASSUME Unseen, kind = "cache", pc \in {"check", "verify"}, ~shifted,
         Target \notin InSeq(Page(store, look.page))
  PROVE  /\ Len(store) \in Nat /\ look.page \in Nat \ {0}
         /\ look.read = Within(Start(look.page), Len(store))
         /\ Len(Page(store, look.page)) = PartOf(Start(look.page), Len(store))
         /\ \A n \in 1..Within(Start(look.page) + PerPage, Len(store)) : store[n] # Target
<1>1. /\ Len(store) \in Nat /\ look.page \in Nat \ {0}
      /\ look.read = Within(Start(look.page), Len(store))
      /\ \A n \in 1..look.read : store[n] # Target
  BY DEF Unseen
<1>2. Start(look.page) \in Nat
  BY <1>1, StartTyped
<1>3. /\ Len(Page(store, look.page)) = PartOf(Start(look.page), Len(store))
      /\ \A n \in 1..Len(Page(store, look.page)) :
           Page(store, look.page)[n] = store[Start(look.page) + n]
  BY <1>1, PageIs DEF Unseen
<1>4. \A n \in 1..Len(Page(store, look.page)) : store[Start(look.page) + n] # Target
  BY <1>3 DEF InSeq
<1>5. ASSUME NEW n \in 1..Within(Start(look.page) + PerPage, Len(store))
      PROVE  store[n] # Target
  <2>1. CASE n \in 1..look.read
    BY <1>1, <2>1
  <2>2. CASE n \notin 1..look.read
    <3>1. n - Start(look.page) \in 1..Len(Page(store, look.page))
      BY <1>1, <1>2, <1>3, <2>2, PagesAddUp
    <3>2. Start(look.page) + (n - Start(look.page)) = n
      <4>1. n \in Int
        OBVIOUS
      <4> QED
        BY <1>2, <4>1
    <3> QED
      BY <1>4, <3>1, <3>2
  <2> QED
    BY <2>1, <2>2
<1> QED
  BY <1>1, <1>3, <1>5

\* The next page continues where this one ended.
LEMMA TurnKeepsUnseen ==
  ASSUME Unseen, kind = "cache", pc \in {"check", "verify"}, Turn,
         CacheFound(Target) = "more"
  PROVE  Unseen'
<1>1. /\ look' = [page |-> look.page + 1, read |-> look.read + Len(Page(store, look.page))]
      /\ UNCHANGED <<store, pc, at, shifted, kind>>
      /\ Target' = Target
  BY DEF Turn, Requests, provider, Target
<1>2. CASE shifted
  BY <1>1, <1>2 DEF Unseen
<1>3. CASE ~shifted
  <2>1. Target \notin InSeq(Page(store, look.page))
    BY DEF CacheFound, Met
  <2>2. /\ Len(store) \in Nat /\ look.page \in Nat \ {0}
        /\ look.read = Within(Start(look.page), Len(store))
        /\ Len(Page(store, look.page)) = PartOf(Start(look.page), Len(store))
        /\ \A n \in 1..Within(Start(look.page) + PerPage, Len(store)) : store[n] # Target
    BY <1>3, <2>1, LookupState
  <2>3. /\ Start(look.page) \in Nat
        /\ Start(look.page + 1) = Start(look.page) + PerPage
    BY <2>2, StartTyped
  <2>4. look'.read = Within(Start(look.page) + PerPage, Len(store))
    BY <1>1, <2>2, <2>3, PagesAddUp
  <2>5. look'.page = look.page + 1 /\ look'.page \in Nat \ {0}
    BY <1>1, <2>2
  <2>6. look'.read = Within(Start(look'.page), Len(store))
    BY <2>3, <2>4, <2>5
  <2>7. \A n \in 1..look'.read : store[n] # Target
    BY <2>2, <2>4
  <2> QED
    BY <1>1, <2>5, <2>6, <2>7 DEF Unseen
<1> QED
  BY <1>2, <1>3 DEF Unseen

\* A lookup that misses its target in a list that has not moved is right.
LEMMA AbsentIsRight ==
  ASSUME Unseen, kind = "cache", pc \in {"check", "verify"}, ~shifted,
         CacheFound(Target) = "absent"
  PROVE  Target \notin InSeq(store)
<1>1. /\ Target \notin InSeq(Page(store, look.page))
      /\ ListingEnds(Page(store, look.page), look.read + Len(Page(store, look.page)), Len(store))
  BY DEF CacheFound, Met
<1>2. /\ Len(store) \in Nat /\ look.page \in Nat \ {0}
      /\ look.read = Within(Start(look.page), Len(store))
      /\ Len(Page(store, look.page)) = PartOf(Start(look.page), Len(store))
      /\ \A n \in 1..Within(Start(look.page) + PerPage, Len(store)) : store[n] # Target
  BY <1>1, LookupState
<1>3. Start(look.page) \in Nat
  BY <1>2, StartTyped
<1>4. /\ look.read \in Nat /\ Len(Page(store, look.page)) \in Nat
      /\ look.read + Len(Page(store, look.page)) = Within(Start(look.page) + PerPage, Len(store))
      /\ Len(Page(store, look.page)) = 0 => look.read = Len(store)
  BY <1>2, <1>3, PagesAddUp
<1>5. Page(store, look.page) = <<>> => Len(Page(store, look.page)) = 0
  OBVIOUS
<1>6. Within(Start(look.page) + PerPage, Len(store)) >= Len(store)
  BY <1>1, <1>2, <1>4, <1>5 DEF ListingEnds
<1> QED
  BY <1>2, <1>4, <1>6 DEF InSeq

\* A lookup begins before the first page.
LEMMA LookAtKeepsUnseen ==
  ASSUME NEW place, LookAt(place), store' \in Seq(Object)
  PROVE  Unseen'
<1>1. look'.page = 1 /\ look'.read = 0 /\ shifted' = FALSE
  BY DEF LookAt, FirstPage
<1>2. Within(Start(look'.page), Len(store')) = 0
  BY <1>1, StartTyped DEF Within
<1>3. \A n \in 1..look'.read : store'[n] # Target'
  BY <1>1
<1>4. look'.page \in Nat \ {0} /\ look'.read = Within(Start(look'.page), Len(store'))
  BY <1>1, <1>2
<1> QED
  BY <1>1, <1>3, <1>4 DEF Unseen

\* Outside of a lookup, or once the list has moved, there is nothing to keep.
LEMMA ElsewhereKeepsUnseen ==
  ASSUME store' \in Seq(Object), shifted' \in BOOLEAN,
         shifted' \/ pc' \notin {"check", "verify"}
  PROVE  Unseen'
BY DEF Unseen

LEMMA UnseenKept ==
  ASSUME IInv, Unseen, [Next]_vars
  PROVE  Unseen'
<1>0. store \in Seq(Object) /\ shifted \in BOOLEAN
  BY DEF Unseen
<1>1. CASE UNCHANGED vars
  BY <1>1 DEF vars, provider, seen, Unseen, Target
<1>2. CASE Again \/ NextTarget
  BY <1>0, <1>2, LookAtKeepsUnseen DEF Again, NextTarget, provider
<1>3. CASE ReviewArtifact \/ ReviewCache
  BY <1>0, <1>3, ElsewhereKeepsUnseen
  DEF ReviewArtifact, ReviewCache, Judge, Turn, LookAt, provider, seen
<1>4. CASE Refuse \/ ConsentToArtifacts \/ ConsentToCaches \/ PersistIntent \/ Record \/ Kill
  BY <1>0, <1>4, ElsewhereKeepsUnseen
  DEF Refuse, ConsentToArtifacts, ConsentToCaches, PersistIntent, Record, Kill, Begin, Silent,
      provider, seen
<1>f. ASSUME NEW state, NEW limited, NEW halt, Finish(state, limited, halt), store' \in Seq(Object)
      PROVE  Unseen'
  BY <1>0, <1>f, ElsewhereKeepsUnseen DEF Finish
<1>5. CASE Block
  BY <1>0, <1>5, <1>f DEF Block, provider
<1>6. CASE CheckArtifact
  BY <1>0, <1>6, <1>f, ElsewhereKeepsUnseen DEF CheckArtifact, provider
<1>7. CASE CheckCache
  <2>1. CASE CacheFound(Target) = "more" /\ Turn
    BY <1>7, <2>1, TurnKeepsUnseen DEF CheckCache
  <2>2. CASE pc' = "delete" /\ UNCHANGED shifted
    BY <1>0, <1>7, <2>2, ElsewhereKeepsUnseen DEF CheckCache, provider
  <2> QED
    BY <1>0, <1>7, <1>f, <2>1, <2>2 DEF CheckCache, provider
<1>8. CASE DeleteArtifact \/ DeleteCache
  <2>1. store' \in Seq(Object)
    BY <1>0, <1>8, WithoutTyped DEF DeleteArtifact, DeleteCache, Effect
  <2> QED
    BY <1>8, <1>f, <2>1, LookAtKeepsUnseen DEF DeleteArtifact, DeleteCache
<1>9. CASE Verify
  <2>1. CASE CacheFound(Target) = "more" /\ Turn
    <3>1. CASE kind = "cache"
      BY <1>9, <2>1, <3>1, TurnKeepsUnseen DEF Verify
    <3>2. CASE kind # "cache"
      BY <1>0, <2>1, <3>2 DEF Turn, Requests, provider, Unseen
    <3> QED
      BY <3>1, <3>2
  <2> QED
    BY <1>0, <1>9, <1>f, <2>1 DEF Verify, provider
<1>10. CASE Upload \/ Touch \/ Vanish
  <2>1. shifted' = TRUE
    BY <1>10 DEF Upload, Touch, Vanish, Moved
  <2>2. CASE Upload
    <3>1. PICK o \in Object : store' = <<o>> \o store
      BY <2>2 DEF Upload
    <3>2. store' \in Seq(Object)
      BY <1>0, <3>1
    <3> QED
      BY <2>1, <3>2, ElsewhereKeepsUnseen
  <2>3. CASE Touch \/ Vanish
    <3>1. PICK o \in InSeq(store) : store' \in {store, Without(o), <<o>> \o Without(o)}
      BY <2>3 DEF Touch, Vanish
    <3>2. o \in Object
      BY <1>0, <3>1 DEF InSeq
    <3>3. Without(o) \in Seq(Object)
      BY <1>0, WithoutTyped
    <3>4. <<o>> \in Seq(Object)
      BY <3>2
    <3>5. <<o>> \o Without(o) \in Seq(Object)
      BY <3>3, <3>4
    <3>6. store' \in Seq(Object)
      BY <1>0, <3>1, <3>3, <3>5
    <3> QED
      BY <2>1, <3>6, ElsewhereKeepsUnseen
  <2> QED
    BY <1>10, <2>2, <2>3
<1>11. CASE Land
  BY <1>0, <1>11, WithoutTyped, ElsewhereKeepsUnseen DEF Land
<1> QED
  BY <1>1, <1>2, <1>3, <1>4, <1>5, <1>6, <1>7, <1>8, <1>9, <1>10, <1>11 DEF Next

\* An item says of its target what a request has just found, or what the answer
\* to the DELETE of an artifact says.
LEMMA ItemIsRight ==
  ASSUME IInv, Unseen, Next, NEW j \in (Len(report) + 1)..Len(report'),
         report'[j].state \in {"Deleted", "AlreadyAbsent"}
  PROVE  \/ Targets[j] \notin InSeq(store)
         \/ IF kind = "cache" THEN shifted ELSE report'[j].state = "Deleted"
<1>0. report \in Seq([state : CacheState, limited : BOOLEAN]) /\ Len(report) \in Nat
  BY DEF IInv, Typed
<1>f. ASSUME NEW state, NEW limited, NEW halt, Finish(state, limited, halt), pc \in Executing
      PROVE  j = at /\ Targets[j] = Target /\ report'[j].state = state
  <2>1. report' = Append(report, [state |-> state, limited |-> limited])
    BY <1>f DEF Finish
  <2>2. Len(report) = at - 1 /\ at \in Nat
    BY <1>f, TargetsTyped DEF IInv, Position, Typed
  <2>3. Len(report') = Len(report) + 1 /\ report'[Len(report) + 1] = [state |-> state, limited |-> limited]
    BY <1>0, <2>1
  <2>4. j = Len(report) + 1
    BY <1>0, <2>3
  <2> QED
    BY <2>2, <2>3, <2>4 DEF Target
<1>u. report' # report
  BY <1>0
<1>1. CASE Block
  <2>1. PICK low \in BOOLEAN : pc \in Executing /\ Finish("Blocked", FALSE, low)
    BY <1>1 DEF Block, Executing
  <2>2. report'[j].state = "Blocked"
    BY <2>1, <1>f
  <2> QED
    BY <2>2
<1>2. CASE CheckArtifact
  <2>1. pc \in Executing /\ kind = "artifact"
    BY <1>2 DEF CheckArtifact, Executing, AtTarget
  <2>2. PICK state \in CacheState, limited \in BOOLEAN :
          /\ Finish(state, limited, FALSE)
          /\ state \in {"Deleted", "AlreadyAbsent"} => ArtifactFound(Target) = "absent"
    <3>1. \/ ArtifactFound(Target) = "absent" /\ Finish("AlreadyAbsent", FALSE, FALSE)
          \/ Finish("Changed", FALSE, FALSE)
          \/ \E limited \in BOOLEAN : Finish("RevalidationFailed", limited, FALSE)
      BY <1>2, <1>u DEF CheckArtifact
    <3>2. {"AlreadyAbsent", "Changed", "RevalidationFailed"} \subseteq CacheState
      BY DEF CacheState, ArtifactState
    <3> QED
      BY <3>1, <3>2
  <2>3. ArtifactFound(Target) = "absent" => Target \notin InSeq(store)
    BY DEF ArtifactFound, Met
  <2> QED
    BY <1>f, <2>1, <2>2, <2>3
<1>3. CASE CheckCache
  <2>1. pc \in Executing /\ kind = "cache" /\ pc \in {"check", "verify"}
    BY <1>3 DEF CheckCache, Executing, AtTarget
  <2>2. PICK state \in CacheState, limited \in BOOLEAN :
          /\ Finish(state, limited, FALSE)
          /\ state \in {"Deleted", "AlreadyAbsent"} => CacheFound(Target) = "absent"
    <3>1. \/ CacheFound(Target) = "absent" /\ Finish("AlreadyAbsent", FALSE, FALSE)
          \/ Finish("Changed", FALSE, FALSE)
          \/ \E limited \in BOOLEAN : Finish("RevalidationFailed", limited, FALSE)
      BY <1>3, <1>u DEF CheckCache, Turn
    <3>2. {"AlreadyAbsent", "Changed", "RevalidationFailed"} \subseteq CacheState
      BY DEF CacheState, ArtifactState
    <3> QED
      BY <3>1, <3>2
  <2>3. CacheFound(Target) = "absent" => shifted \/ Target \notin InSeq(store)
    BY <2>1, AbsentIsRight DEF Unseen
  <2> QED
    BY <1>f, <2>1, <2>2, <2>3
<1>4. CASE DeleteArtifact \/ DeleteCache
  <2>1. pc \in Executing
    BY <1>4 DEF DeleteArtifact, DeleteCache, Executing, AtTarget
  <2>2. PICK state \in Outcome, limited \in BOOLEAN :
          /\ Effect(state, limited)
          /\ Finish(state, limited, FALSE)
          /\ kind = "artifact" \/ state # "Deleted"
    BY <1>4, <1>u DEF DeleteArtifact, DeleteCache
  <2>3. state = "AlreadyAbsent" => Target \notin InSeq(store)
    BY <2>2 DEF Effect
  <2>4. report'[j].state = state /\ Targets[j] = Target
    BY <1>f, <2>1, <2>2
  <2> QED
    BY <2>2, <2>3, <2>4
<1>5. CASE Verify
  <2>1. pc \in Executing /\ pc \in {"check", "verify"}
    BY <1>5 DEF Verify, Executing, AtTarget
  <2>2. PICK state \in {"Deleted", "VerificationFailed"}, limited \in BOOLEAN :
          /\ Finish(state, limited, FALSE)
          /\ state = "Deleted" => CacheFound(Target) = "absent"
    BY <1>5, <1>u DEF Verify, Turn
  <2>3. kind = "cache" /\ CacheFound(Target) = "absent" => shifted \/ Target \notin InSeq(store)
    BY <2>1, AbsentIsRight DEF Unseen
  <2>4. report'[j].state = state /\ Targets[j] = Target
    BY <1>f, <2>1, <2>2
  <2> QED
    BY <2>2, <2>3, <2>4
<1>6. CASE Again
  BY <1>0, <1>6 DEF Again
<1> QED
  BY <1>u, <1>1, <1>2, <1>3, <1>4, <1>5, <1>6
  DEF Next, ReviewArtifact, ReviewCache, Refuse, ConsentToArtifacts, ConsentToCaches,
      PersistIntent, NextTarget, Record, Kill, Upload, Touch, Vanish, Land, Moved, Judge, Turn, Begin

\* Nothing is reported gone that is not, but for an artifact whose DELETE is believed
\* and a cache whose list moved under the lookup that missed it: for every list,
\* every page size and every plan.
THEOREM AbsentMeansMoved == Spec => AbsentUnlessMoved
<1>1. Init => Unseen
  BY PlanAssumption DEF Init, Unseen
<1>2. IInv /\ Unseen /\ [Next]_vars =>
        /\ Unseen'
        /\ [\A j \in (Len(report) + 1)..Len(report') :
              report'[j].state \in {"Deleted", "AlreadyAbsent"} =>
                \/ Targets[j] \notin InSeq(store)
                \/ IF kind = "cache" THEN shifted ELSE report'[j].state = "Deleted"]_vars
  BY UnseenKept, ItemIsRight
<1> QED
  BY <1>1, <1>2, AlwaysIInv, PTL DEF Spec, AbsentUnlessMoved
=============================================================================
