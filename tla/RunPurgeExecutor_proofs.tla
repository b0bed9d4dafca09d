---------------------- MODULE RunPurgeExecutor_proofs ----------------------
(***************************************************************************)
(* TLAPS proofs about RunPurgeExecutor, for every plan: the report owns up *)
(* to every DELETE, and nothing is sent after the rate limit was met.      *)
(***************************************************************************)
EXTENDS RunPurgeExecutor, TLAPS

-----------------------------------------------------------------------------
(* The inductive invariant *)

\* The states that promise an object was left alone.
LeftAlone == {"Blocked", "Changed", "RevalidationFailed"}

\* What an item says of run r is true of the DELETEs sent.
Honest(r, done, deleted) ==
  /\ done.run \in LeftAlone => r \notin deleted
  /\ done.logs \in LeftAlone => Logs(r) \notin deleted
  /\ \A n \in 1..Len(Dependencies[r]) :
       done.artifacts[n] \in LeftAlone => Dependencies[r][n] \notin deleted

BeforeLogs     == {"acquire", "preflight", "enumerate", "logs"}
AfterArtifacts == {"recheck", "destroy", "confirm"}

WorldTyped ==
  /\ remote \in [Object -> Version]
  /\ inflight \in SUBSET Object
  /\ sent \in SUBSET Object
  /\ recent \in SUBSET Object
  /\ earlier \in SUBSET Object
  /\ drifts \in 0..MaxDrift

\* An open item is that of a target of the plan, in a batch that was not halted,
\* and has as many artifacts as its place says.
Progress ==
  pc # "next" =>
    /\ Len(report) < Len(Targets)
    /\ ~halted
    /\ pc \in BeforeLogs => item.artifacts = <<>>
    /\ Len(item.artifacts) <= Len(Planning)
    /\ pc = "delete" => Len(item.artifacts) < Len(Planning)
    /\ pc \in AfterArtifacts => Len(item.artifacts) = Len(Planning)

\* The targets that were begun, the open one included.
Begun == IF pc = "next" THEN Len(report) ELSE Len(report) + 1

SentBegun == \A o \in sent : \E j \in 1..Begun : RunOf(o) = Targets[j]

\* An open item says the truth so far, and what it does not speak of yet is unsent.
OpenHonest ==
  pc # "next" =>
    /\ pc # "confirm" => Target \notin sent
    /\ pc \in BeforeLogs \/ item.logs \in LeftAlone => Logs(Target) \notin sent
    /\ \A n \in 1..Len(Planning) :
         n > Len(item.artifacts) \/ item.artifacts[n] \in LeftAlone
           => Planning[n] \notin sent

LimitHalts == \A j \in 1..Len(report) : report[j].limited => halted

IInv ==
  /\ TypeOK
  /\ Progress
  /\ SentBegun
  /\ OpenHonest
  /\ LimitHalts
  /\ ReportOwnsUp
  /\ HaltIsFinal

-----------------------------------------------------------------------------
(* Lemmas about the plan *)

\* A run, its logs and its planned artifacts are objects of that run.
LEMMA Belongs ==
  ASSUME NEW r \in Run
  PROVE  /\ RunOf(r) = r /\ r \in Object
         /\ RunOf(Logs(r)) = r /\ Logs(r) \in Object
         /\ \A n \in 1..Len(Dependencies[r]) :
              /\ Dependencies[r][n] \in Artifact \cap Object
              /\ RunOf(Dependencies[r][n]) = r
<1>1. RunOf(r) = r /\ r \in Object
  BY DEF RunOf, Object
<1>2. Logs(r)[2] = r
  BY DEF Logs
<1>3. RunOf(Logs(r)) = r /\ Logs(r) \in Object
  BY <1>2, LogsAssumption DEF RunOf, Object
<1>4. ASSUME NEW n \in 1..Len(Dependencies[r])
      PROVE  /\ Dependencies[r][n] \in Artifact \cap Object
             /\ RunOf(Dependencies[r][n]) = r
  <2>1. Dependencies[r] \in Seq(Artifact)
    BY PlanAssumption
  <2>2. Dependencies[r][n] \in Artifact /\ Dependencies[r][n] \in InSeq(Dependencies[r])
    BY <2>1 DEF InSeq
  <2>3. Owner[Dependencies[r][n]] = r /\ Dependencies[r][n] \notin Run
    BY <2>2, PlanAssumption
  <2> QED
    BY <2>2, <2>3 DEF RunOf, Object
<1> QED
  BY <1>1, <1>3, <1>4

\* The objects of one run are told apart.
LEMMA Apart ==
  ASSUME NEW r \in Run
  PROVE  /\ Logs(r) # r
         /\ \A n \in 1..Len(Dependencies[r]) :
              /\ Dependencies[r][n] # r
              /\ Dependencies[r][n] # Logs(r)
         /\ \A m, n \in 1..Len(Dependencies[r]) :
              m # n => Dependencies[r][m] # Dependencies[r][n]
<1>1. \A n \in 1..Len(Dependencies[r]) : Dependencies[r][n] \in Artifact
  BY Belongs
<1>2. r \notin Artifact /\ Logs(r) \notin Run \cup Artifact
  BY PlanAssumption, LogsAssumption
<1>3. Distinct(Dependencies[r])
  BY PlanAssumption
<1> QED
  BY <1>1, <1>2, <1>3 DEF Distinct

\* The targets are runs, each named once.
LEMMA TargetsTyped ==
  /\ Len(Targets) \in Nat
  /\ \A j \in 1..Len(Targets) : Targets[j] \in Run
  /\ \A j, k \in 1..Len(Targets) : j # k => Targets[j] # Targets[k]
BY PlanAssumption DEF Distinct

\* The open target is a run of the plan, with a sequence of dependencies.
LEMMA TargetTyped ==
  ASSUME Len(report) \in Nat, Len(report) < Len(Targets)
  PROVE  /\ Target \in Run
         /\ Target = Targets[Len(report) + 1]
         /\ Len(report) + 1 \in 1..Len(Targets)
         /\ Planning = Dependencies[Target]
         /\ Planning \in Seq(Artifact)
         /\ Len(Planning) \in Nat
<1>1. Target \in Run /\ Len(report) + 1 \in 1..Len(Targets)
  BY TargetsTyped DEF Target
<1>2. Planning \in Seq(Artifact)
  BY <1>1, PlanAssumption DEF Planning
<1> QED
  BY <1>1, <1>2 DEF Target, Planning

-----------------------------------------------------------------------------
(* The two ways a step leaves the item *)

\* Earlier items stay honest when DELETEs are sent for the open target only.
LEMMA EarlierStayHonest ==
  ASSUME IInv, Len(report) < Len(Targets),
         \A o \in sent' \ sent : RunOf(o) = Target
  PROVE  /\ \A j \in 1..Len(report) : Honest(Targets[j], report[j], sent')
         /\ \A j, k \in 1..Len(report) : j < k /\ report[j].limited =>
              /\ report[k].run = "Blocked"
              /\ \A o \in sent' : RunOf(o) # Targets[k]
<1>0. Len(report) \in Nat
  BY DEF IInv, TypeOK
<1>1. \A j \in 1..Len(report) : Targets[j] \in Run /\ Targets[j] # Target
  BY <1>0, TargetTyped, TargetsTyped
<1>2. ASSUME NEW j \in 1..Len(report)
      PROVE  Honest(Targets[j], report[j], sent')
  <2>1. Honest(Targets[j], report[j], sent)
    BY DEF IInv, ReportOwnsUp, Honest, LeftAlone
  <2>2. \A o : o \in sent' /\ RunOf(o) = Targets[j] => o \in sent
    BY <1>1
  <2> QED
    BY <2>1, <2>2, <1>1, Belongs DEF Honest
<1>3. ASSUME NEW j \in 1..Len(report), NEW k \in 1..Len(report),
             j < k, report[j].limited
      PROVE  report[k].run = "Blocked" /\ \A o \in sent' : RunOf(o) # Targets[k]
  <2>1. report[k].run = "Blocked" /\ \A o \in sent : RunOf(o) # Targets[k]
    BY <1>3 DEF IInv, HaltIsFinal
  <2> QED
    BY <2>1, <1>1
<1> QED
  BY <1>2, <1>3

\* An item is finished: it must be honest, and after a halt it must be a blocked
\* one for which nothing was sent.
LEMMA FinishKeepsIInv ==
  ASSUME IInv, Len(report) < Len(Targets), WorldTyped',
         NEW done \in Item, NEW halt \in BOOLEAN, Finish(done, halt),
         \A o \in sent' \ sent : RunOf(o) = Target,
         Honest(Target, done, sent'),
         halted => done.run = "Blocked" /\ \A o \in sent' : RunOf(o) # Target
  PROVE  IInv'
<1>0. Len(report) \in Nat /\ report \in Seq(Item) /\ item \in Item /\ halted \in BOOLEAN
  BY DEF IInv, TypeOK
<1>a. /\ report' = Append(report, done)
      /\ halted' = (halted \/ halt \/ done.limited)
      /\ item' = Fresh
      /\ pc' = "next"
  BY DEF Finish
<1>b. /\ report' \in Seq(Item)
      /\ Len(report') = Len(report) + 1
      /\ \A j \in 1..Len(report) : report'[j] = report[j]
      /\ report'[Len(report) + 1] = done
  BY <1>0, <1>a
<1>c. Len(report) + 1 \in 1..Len(Targets) /\ Target = Targets[Len(report) + 1]
  BY <1>0, TargetTyped
<1>d. done.limited \in BOOLEAN
  BY DEF Item
<1>1. TypeOK'
  <2>1. Fresh \in Item
    BY DEF Fresh, Item, State
  <2>2. "next" \in Pc
    BY DEF Pc
  <2>3. Len(report') \in 0..Len(Targets)
    BY <1>b, <1>c, <1>0, TargetsTyped
  <2> QED
    BY <1>a, <1>b, <1>0, <1>d, <2>1, <2>2, <2>3 DEF TypeOK, WorldTyped
<1>2. Progress' /\ OpenHonest'
  BY <1>a DEF Progress, OpenHonest
<1>3. SentBegun'
  <2>1. Begun' = Len(report) + 1
    BY <1>a, <1>b DEF Begun
  <2>2. Begun \in 0..(Len(report) + 1)
    BY <1>0 DEF Begun
  <2>3. ASSUME NEW o \in sent'
        PROVE  \E j \in 1..(Len(report) + 1) : RunOf(o) = Targets[j]
    <3>1. CASE o \in sent
      BY <3>1, <2>2, <1>0 DEF IInv, SentBegun
    <3>2. CASE o \notin sent
      BY <3>2, <1>c, <1>0
    <3> QED
      BY <3>1, <3>2
  <2> QED
    BY <2>1, <2>3 DEF SentBegun
<1>4. LimitHalts'
  <2>1. ASSUME NEW j \in 1..(Len(report) + 1), report'[j].limited
        PROVE  halted'
    <3>1. CASE j \in 1..Len(report)
      <4>1. report[j].limited
        BY <2>1, <3>1, <1>b
      <4>2. halted
        BY <4>1, <3>1 DEF IInv, LimitHalts
      <4> QED
        BY <4>2, <1>a
    <3>2. CASE j = Len(report) + 1
      <4>1. done.limited
        BY <2>1, <3>2, <1>b
      <4> QED
        BY <4>1, <1>a
    <3> QED
      BY <3>1, <3>2, <1>0
  <2> QED
    BY <2>1, <1>b DEF LimitHalts
<1>5. ReportOwnsUp'
  <2>1. ASSUME NEW j \in 1..(Len(report) + 1)
        PROVE  Honest(Targets[j], report'[j], sent')
    <3>1. CASE j \in 1..Len(report)
      BY <3>1, <1>b, EarlierStayHonest
    <3>2. CASE j = Len(report) + 1
      BY <3>2, <1>b, <1>c
    <3> QED
      BY <3>1, <3>2, <1>0
  <2> QED
    BY <2>1, <1>b DEF ReportOwnsUp, Honest, LeftAlone
<1>6. HaltIsFinal'
  <2>1. ASSUME NEW j \in 1..(Len(report) + 1), NEW k \in 1..(Len(report) + 1),
               j < k, report'[j].limited
        PROVE  report'[k].run = "Blocked" /\ \A o \in sent' : RunOf(o) # Targets[k]
    <3>1. j \in 1..Len(report) /\ report[j].limited
      BY <2>1, <1>b, <1>0
    <3>2. CASE k \in 1..Len(report)
      BY <3>1, <3>2, <2>1, <1>b, EarlierStayHonest
    <3>3. CASE k = Len(report) + 1
      <4>1. halted
        BY <3>1 DEF IInv, LimitHalts
      <4> QED
        BY <4>1, <3>3, <1>b, <1>c
    <3> QED
      BY <3>2, <3>3, <1>0
  <2> QED
    BY <2>1, <1>b DEF HaltIsFinal
<1> QED
  BY <1>1, <1>2, <1>3, <1>4, <1>5, <1>6 DEF IInv

\* An item stays open: its place and what it says must fit the DELETEs sent.
LEMMA ProceedKeepsIInv ==
  ASSUME IInv, Len(report) < Len(Targets), ~halted, WorldTyped',
         NEW to \in Pc \ {"next"}, NEW open \in Item, Proceed(to, open),
         \A o \in sent' \ sent : RunOf(o) = Target,
         Progress', OpenHonest'
  PROVE  IInv'
<1>0. Len(report) \in Nat
  BY DEF IInv, TypeOK
<1>a. pc' = to /\ item' = open /\ report' = report /\ halted' = halted
  BY DEF Proceed
<1>1. TypeOK'
  BY <1>a DEF IInv, TypeOK, WorldTyped
<1>2. SentBegun'
  <2>1. Begun' = Len(report) + 1
    BY <1>a DEF Begun
  <2>2. Begun \in 0..(Len(report) + 1)
    BY <1>0 DEF Begun
  <2>3. ASSUME NEW o \in sent'
        PROVE  \E j \in 1..(Len(report) + 1) : RunOf(o) = Targets[j]
    <3>1. CASE o \in sent
      BY <3>1, <2>2, <1>0 DEF IInv, SentBegun
    <3>2. CASE o \notin sent
      BY <3>2, <1>0, TargetTyped
    <3> QED
      BY <3>1, <3>2
  <2> QED
    BY <2>1, <2>3 DEF SentBegun
<1>3. LimitHalts'
  BY <1>a DEF IInv, LimitHalts
<1>4. ReportOwnsUp'
  BY <1>a, EarlierStayHonest DEF ReportOwnsUp, Honest, LeftAlone
<1>5. HaltIsFinal'
  BY <1>a, EarlierStayHonest DEF HaltIsFinal
<1> QED
  BY <1>1, <1>2, <1>3, <1>4, <1>5 DEF IInv

-----------------------------------------------------------------------------
(* The steps *)

\* What an open item gives its step.
LEMMA OpenTarget ==
  ASSUME IInv, pc # "next"
  PROVE  /\ Len(report) \in Nat /\ Len(report) < Len(Targets) /\ ~halted
         /\ item \in Item /\ Len(item.artifacts) \in Nat
         /\ Target \in Run
         /\ Planning = Dependencies[Target]
         /\ Planning \in Seq(Artifact)
         /\ Len(Planning) \in Nat
<1>1. Len(report) \in Nat /\ item \in Item
  BY DEF IInv, TypeOK
<1>2. Len(report) < Len(Targets) /\ ~halted
  BY DEF IInv, Progress
<1>3. Len(item.artifacts) \in Nat
  BY <1>1 DEF Item
<1> QED
  BY <1>1, <1>2, <1>3, TargetTyped

\* The provider's calls keep the types of what they touch.
LEMMA CallsKeepTypes ==
  ASSUME IInv, Looks \/ NoCall
  PROVE  WorldTyped' /\ sent' = sent
BY DEF IInv, TypeOK, WorldTyped, Looks, NoCall, Calls

LEMMA ErasedTyped ==
  ASSUME IInv, NEW o
  PROVE  Erased(o) \in [Object -> Version]
BY DEF IInv, TypeOK, Erased, Version

LEMMA DeleteKeepsTypes ==
  ASSUME IInv, NEW o \in Object, NEW state, NEW limited, Delete(o, state, limited)
  PROVE  /\ WorldTyped' /\ sent' = sent \cup {o}
         /\ state \in State \ LeftAlone
<1>1. sent' = sent \cup {o} /\ recent' = {} /\ earlier' = recent /\ drifts' = drifts
  BY DEF Delete, Calls
<1>2. state \in State \ LeftAlone
  BY DEF Delete, State, LeftAlone
<1>3. remote' \in [Object -> Version] /\ inflight' \in SUBSET Object
  BY ErasedTyped DEF Delete, NoEffect, Effect, LateEffect, IInv, TypeOK
<1> QED
  BY <1>1, <1>2, <1>3 DEF WorldTyped, IInv, TypeOK

\* Nothing was sent for the next target.
LEMMA NothingSent ==
  ASSUME IInv, pc = "next", Len(report) < Len(Targets)
  PROVE  \A o \in sent : RunOf(o) # Target
<1>1. Len(report) \in Nat
  BY DEF IInv, TypeOK
<1>2. \A o \in sent : \E j \in 1..Len(report) : RunOf(o) = Targets[j]
  BY DEF IInv, SentBegun, Begun
<1> QED
  BY <1>1, <1>2, TargetTyped, TargetsTyped

\* An item of which nothing was sent is honest, whatever it says.
LEMMA UnsentIsHonest ==
  ASSUME NEW r \in Run, NEW done, NEW deleted,
         \A o \in deleted : RunOf(o) # r
  PROVE  Honest(r, done, deleted)
BY Belongs DEF Honest

\* An item that is finished before its first DELETE.
LEMMA UnstartedKeepsIInv ==
  ASSUME IInv, pc \in {"acquire", "preflight", "enumerate"}, Looks \/ NoCall,
         NEW dependencies \in State, NEW state \in State, NEW limited \in BOOLEAN,
         Finish(Unstarted(dependencies, state, limited), FALSE)
  PROVE  IInv'
<1>0. pc # "next" /\ pc # "confirm" /\ pc \in BeforeLogs
  BY DEF BeforeLogs
<1> DEFINE done == Unstarted(dependencies, state, limited)
<1>1. done \in Item
  <2>1. [n \in 1..Len(Planning) |-> dependencies] \in Seq(State)
    BY <1>0, OpenTarget
  <2> QED
    BY <2>1 DEF Unstarted, Item
<1>2. Honest(Target, done, sent')
  <2>1. Target \notin sent /\ Logs(Target) \notin sent
    BY <1>0 DEF IInv, OpenHonest
  <2>2. Len(item.artifacts) = 0
    BY <1>0 DEF IInv, Progress
  <2>3. \A n \in 1..Len(Planning) : Planning[n] \notin sent
    BY <1>0, <2>2, OpenTarget DEF IInv, OpenHonest
  <2> QED
    BY <2>1, <2>3, <1>0, OpenTarget, CallsKeepTypes DEF Honest
<1>3. ~halted /\ Len(report) < Len(Targets)
  BY <1>0, OpenTarget
<1>4. WorldTyped' /\ sent' = sent
  BY CallsKeepTypes
<1> HIDE DEF done
<1>5. Finish(done, FALSE)
  BY DEF done
<1> QED
  BY <1>1, <1>2, <1>3, <1>4, <1>5, FinishKeepsIInv

\* A fresh item that goes on before its first DELETE.
LEMMA FreshKeepsIInv ==
  ASSUME IInv, Len(report) < Len(Targets), ~halted, Looks \/ NoCall,
         pc \in {"next", "acquire", "preflight", "enumerate"},
         NEW to \in BeforeLogs, Proceed(to, Fresh)
  PROVE  IInv'
<1>0. Len(report) \in Nat
  BY DEF IInv, TypeOK
<1>1. WorldTyped' /\ sent' = sent
  BY CallsKeepTypes
<1>2. Fresh \in Item /\ Fresh.artifacts = <<>> /\ Len(Fresh.artifacts) = 0
  BY DEF Fresh, Item, State
<1>3. to \in Pc \ {"next"} /\ to # "delete" /\ to \notin AfterArtifacts
  BY DEF BeforeLogs, Pc, AfterArtifacts
<1>4. /\ pc' = to /\ item' = Fresh /\ report' = report /\ halted' = halted
      /\ Target' = Target /\ Planning' = Planning
  BY DEF Proceed, Target, Planning
<1>5. Progress'
  BY <1>0, <1>2, <1>3, <1>4, TargetTyped DEF Progress
<1>6. /\ Target \notin sent /\ Logs(Target) \notin sent
      /\ \A n \in 1..Len(Planning) : Planning[n] \notin sent
  <2>1. CASE pc = "next"
    BY <2>1, <1>0, NothingSent, TargetTyped, Belongs
  <2>2. CASE pc # "next"
    <3>1. pc \in BeforeLogs /\ pc # "confirm"
      BY <2>2 DEF BeforeLogs
    <3>2. Len(item.artifacts) = 0
      BY <2>2, <3>1 DEF IInv, Progress
    <3>3. \A n \in 1..Len(Planning) : Planning[n] \notin sent
      BY <2>2, <3>2, OpenTarget DEF IInv, OpenHonest
    <3> QED
      BY <2>2, <3>1, <3>3 DEF IInv, OpenHonest
  <2> QED
    BY <2>1, <2>2
<1>7. OpenHonest'
  BY <1>1, <1>4, <1>6 DEF OpenHonest
<1> QED
  BY <1>1, <1>2, <1>3, <1>5, <1>7, ProceedKeepsIInv

\* The outcome of the next planned artifact: a DELETE, if any, is owned up to.
LEMMA PushKeepsIInv ==
  ASSUME IInv, pc \in {"artifacts", "delete"}, Len(item.artifacts) < Len(Planning),
         WorldTyped', NEW state \in State, NEW limited \in BOOLEAN,
         Proceed("artifacts", Pushed(state, limited)),
         \/ sent' = sent
         \/ sent' = sent \cup {Current} /\ state \notin LeftAlone
  PROVE  IInv'
<1>0. pc # "next" /\ pc # "confirm" /\ pc \notin BeforeLogs
  BY DEF BeforeLogs
<1> DEFINE open == Pushed(state, limited)
<1> DEFINE here == Len(item.artifacts) + 1
<1>1. here \in 1..Len(Planning) /\ here \in Nat /\ Current = Planning[here]
  BY <1>0, OpenTarget DEF Current
<1>2. item.artifacts \in Seq(State) /\ item.limited \in BOOLEAN
  BY <1>0, OpenTarget DEF Item
<1>3. /\ open.artifacts = Append(item.artifacts, state)
      /\ open.logs = item.logs
      /\ open \in Item
  <2>1. Append(item.artifacts, state) \in Seq(State)
    BY <1>2
  <2> QED
    BY <1>0, <1>2, <2>1, OpenTarget DEF Pushed, Item
<1>4. /\ Len(open.artifacts) = here
      /\ open.artifacts[here] = state
      /\ \A n \in 1..Len(item.artifacts) : open.artifacts[n] = item.artifacts[n]
  BY <1>2, <1>3
<1>5. /\ pc' = "artifacts" /\ item' = open /\ report' = report /\ halted' = halted
      /\ Target' = Target /\ Planning' = Planning
  BY DEF Proceed, Target, Planning
<1>6. \A o \in sent' \ sent : RunOf(o) = Target
  BY <1>0, <1>1, OpenTarget, Belongs
<1> HIDE DEF open, here
<1>7. Progress'
  BY <1>0, <1>1, <1>4, <1>5, OpenTarget DEF Progress, BeforeLogs, AfterArtifacts
<1>8. OpenHonest'
  <2>1. Target \notin sent'
    BY <1>0, <1>1, OpenTarget, Apart DEF IInv, OpenHonest
  <2>2. open.logs \in LeftAlone => Logs(Target) \notin sent'
    BY <1>0, <1>1, <1>3, OpenTarget, Apart DEF IInv, OpenHonest
  <2>3. ASSUME NEW n \in 1..Len(Planning),
               n > Len(open.artifacts) \/ open.artifacts[n] \in LeftAlone
        PROVE  Planning[n] \notin sent'
    <3>1. CASE n = here
      <4>1. state \in LeftAlone
        BY <3>1, <2>3, <1>4, <1>1
      <4>2. sent' = sent
        BY <4>1
      <4>3. here > Len(item.artifacts)
        BY <1>0, OpenTarget DEF here
      <4>4. Planning[here] \notin sent
        BY <4>3, <1>0, <1>1 DEF IInv, OpenHonest
      <4> QED
        BY <3>1, <4>2, <4>4
    <3>2. CASE n # here
      <4>1. Planning[n] # Planning[here]
        BY <3>2, <1>0, <1>1, OpenTarget, Apart
      <4>2. n > Len(item.artifacts) \/ item.artifacts[n] \in LeftAlone
        <5>1. CASE n \in 1..Len(item.artifacts)
          BY <5>1, <2>3, <1>4, <1>0, OpenTarget DEF here
        <5>2. CASE n \notin 1..Len(item.artifacts)
          BY <5>2, <1>0, OpenTarget
        <5> QED
          BY <5>1, <5>2
      <4>3. Planning[n] \notin sent
        BY <4>2, <1>0 DEF IInv, OpenHonest
      <4> QED
        BY <4>1, <4>3, <1>1
    <3> QED
      BY <3>1, <3>2
  <2> QED
    BY <1>5, <2>1, <2>2, <2>3 DEF OpenHonest, BeforeLogs
<1>9. "artifacts" \in Pc \ {"next"}
  BY DEF Pc
<1>10. Proceed("artifacts", open)
  BY DEF open
<1> QED
  BY <1>0, <1>3, <1>6, <1>7, <1>8, <1>9, <1>10, OpenTarget, ProceedKeepsIInv

\* The outcome of the run: a DELETE of it, if any, is owned up to.
LEMMA EndedKeepsIInv ==
  ASSUME IInv, pc \in {"artifacts"} \cup AfterArtifacts,
         Len(item.artifacts) = Len(Planning),
         WorldTyped', NEW state \in State, NEW limited \in BOOLEAN,
         Finish(Ended(state, limited), FALSE),
         \/ sent' = sent /\ (pc # "confirm" \/ state \notin LeftAlone)
         \/ sent' = sent \cup {Target} /\ state \notin LeftAlone
  PROVE  IInv'
<1>0. pc # "next" /\ pc \notin BeforeLogs
  BY DEF BeforeLogs, AfterArtifacts
<1> DEFINE done == Ended(state, limited)
<1>1. item.limited \in BOOLEAN
  BY <1>0, OpenTarget DEF Item
<1>2. /\ done.run = state /\ done.logs = item.logs /\ done.artifacts = item.artifacts
      /\ done \in Item
  BY <1>0, <1>1, OpenTarget DEF Ended, Item
<1> HIDE DEF done
<1>3. Honest(Target, done, sent')
  <2>1. state \in LeftAlone => Target \notin sent'
    BY <1>0 DEF IInv, OpenHonest
  <2>2. item.logs \in LeftAlone => Logs(Target) \notin sent'
    BY <1>0, OpenTarget, Apart DEF IInv, OpenHonest
  <2>3. \A n \in 1..Len(Planning) :
          item.artifacts[n] \in LeftAlone => Planning[n] \notin sent'
    BY <1>0, OpenTarget, Apart DEF IInv, OpenHonest
  <2> QED
    BY <1>0, <1>2, <2>1, <2>2, <2>3, OpenTarget DEF Honest
<1>4. \A o \in sent' \ sent : RunOf(o) = Target
  BY <1>0, OpenTarget, Belongs
<1>5. Finish(done, FALSE)
  BY DEF done
<1> QED
  BY <1>0, <1>2, <1>3, <1>4, <1>5, OpenTarget, FinishKeepsIInv

\* Going on with the item as it is, all artifacts done.
LEMMA OnwardKeepsIInv ==
  ASSUME IInv, Len(item.artifacts) = Len(Planning), Looks \/ NoCall,
         \/ pc = "artifacts" /\ Proceed("recheck", item)
         \/ pc = "recheck" /\ Proceed("destroy", item)
  PROVE  IInv'
<1>0. pc # "next" /\ pc # "confirm" /\ pc \notin BeforeLogs
  BY DEF BeforeLogs
<1>1. PICK to \in {"recheck", "destroy"} : Proceed(to, item)
  OBVIOUS
<1>2. /\ pc' = to /\ item' = item /\ report' = report /\ halted' = halted
      /\ Target' = Target /\ Planning' = Planning
  BY <1>1 DEF Proceed, Target, Planning
<1>3. WorldTyped' /\ sent' = sent
  BY CallsKeepTypes
<1>4. to \in Pc \ {"next"} /\ to # "confirm" /\ to # "delete" /\ to \notin BeforeLogs
  BY DEF Pc, BeforeLogs
<1>5. Progress'
  BY <1>0, <1>2, <1>4, OpenTarget DEF Progress
<1>6. OpenHonest'
  BY <1>0, <1>2, <1>3, <1>4 DEF IInv, OpenHonest
<1> QED
  BY <1>0, <1>1, <1>3, <1>4, <1>5, <1>6, OpenTarget, ProceedKeepsIInv

-----------------------------------------------------------------------------
(* The invariant holds initially and is kept by every step. *)

LEMMA InitIInv == Init => IInv
<1> SUFFICES ASSUME Init PROVE IInv
  OBVIOUS
<1>1. report = <<>> /\ Len(report) = 0 /\ pc = "next" /\ sent = {} /\ halted = FALSE
  BY DEF Init
<1>2. TypeOK
  <2>1. Fresh \in Item
    BY DEF Fresh, Item, State
  <2>2. 0 \in 0..MaxDrift /\ 0 \in 0..Len(Targets)
    BY TargetsTyped, PlanAssumption
  <2>3. remote \in [Object -> Version]
    BY DEF Init, Version
  <2>4. pc \in Pc /\ report \in Seq(Item)
    BY <1>1 DEF Pc
  <2> QED
    BY <1>1, <2>1, <2>2, <2>3, <2>4 DEF Init, TypeOK
<1> QED
  BY <1>1, <1>2 DEF IInv, Progress, SentBegun, OpenHonest, LimitHalts, ReportOwnsUp, HaltIsFinal

LEMMA NextTargetKeepsIInv ==
  ASSUME IInv, NextTarget
  PROVE  IInv'
<1>0. /\ pc = "next" /\ Len(report) < Len(Targets) /\ NoCall
      /\ Len(report) \in Nat
  BY DEF NextTarget, IInv, TypeOK
<1>1. CASE ~halted /\ Proceed("acquire", Fresh)
  BY <1>0, <1>1, FreshKeepsIInv DEF BeforeLogs
<1>2. ASSUME NEW low \in BOOLEAN,
             Finish(Unstarted("Blocked", "Blocked", FALSE), low)
      PROVE  IInv'
  <2> DEFINE done == Unstarted("Blocked", "Blocked", FALSE)
  <2>1. done \in Item /\ done.run = "Blocked"
    <3>1. Len(Planning) \in Nat
      BY <1>0, TargetTyped
    <3>2. [n \in 1..Len(Planning) |-> "Blocked"] \in Seq(State)
      BY <3>1 DEF State
    <3> QED
      BY <3>2 DEF Unstarted, Item, State
  <2>2. WorldTyped' /\ sent' = sent
    BY <1>0, CallsKeepTypes
  <2> HIDE DEF done
  <2>3. Honest(Target, done, sent')
    BY <1>0, <2>2, NothingSent, TargetTyped, UnsentIsHonest
  <2>4. Finish(done, low)
    BY <1>2 DEF done
  <2> QED
    BY <1>0, <2>1, <2>2, <2>3, <2>4, NothingSent, FinishKeepsIInv
<1> QED
  BY <1>1, <1>2 DEF NextTarget

LEMMA AcquireLeaseKeepsIInv ==
  ASSUME IInv, AcquireLease
  PROVE  IInv'
<1>1. pc = "acquire" /\ NoCall
  BY DEF AcquireLease
<1>2. ~halted /\ Len(report) < Len(Targets)
  BY <1>1, OpenTarget
<1>3. CASE Finish(Unstarted("Blocked", "Blocked", FALSE), FALSE)
  BY <1>1, <1>3, UnstartedKeepsIInv DEF State
<1>4. CASE Proceed("preflight", Fresh)
  BY <1>1, <1>2, <1>4, FreshKeepsIInv DEF BeforeLogs
<1> QED
  BY <1>3, <1>4 DEF AcquireLease

LEMMA LookupRunKeepsIInv ==
  ASSUME IInv, LookupRun
  PROVE  IInv'
<1>1. pc = "preflight" /\ Looks
  BY DEF LookupRun
<1>2. ~halted /\ Len(report) < Len(Targets)
  BY <1>1, OpenTarget
<1>3. CASE Proceed("enumerate", Fresh)
  BY <1>1, <1>2, <1>3, FreshKeepsIInv DEF BeforeLogs
<1>4. CASE \E dependencies, state \in State, limited \in BOOLEAN :
             Finish(Unstarted(dependencies, state, limited), FALSE)
  BY <1>1, <1>4, UnstartedKeepsIInv
<1> QED
  BY <1>3, <1>4 DEF LookupRun, State

LEMMA EnumerateArtifactsKeepsIInv ==
  ASSUME IInv, EnumerateArtifacts
  PROVE  IInv'
<1>1. pc = "enumerate" /\ Looks
  BY DEF EnumerateArtifacts
<1>2. ~halted /\ Len(report) < Len(Targets)
  BY <1>1, OpenTarget
<1>3. CASE Proceed("logs", Fresh)
  BY <1>1, <1>2, <1>3, FreshKeepsIInv DEF BeforeLogs
<1>4. CASE \E dependencies, state \in State, limited \in BOOLEAN :
             Finish(Unstarted(dependencies, state, limited), FALSE)
  BY <1>1, <1>4, UnstartedKeepsIInv
<1> QED
  BY <1>3, <1>4 DEF EnumerateArtifacts, State

LEMMA DeleteRunLogsKeepsIInv ==
  ASSUME IInv, DeleteRunLogs
  PROVE  IInv'
<1>0. pc = "logs" /\ pc # "next" /\ pc # "confirm" /\ pc \in BeforeLogs
  BY DEF DeleteRunLogs, BeforeLogs
<1>1. item.artifacts = <<>> /\ Len(item.artifacts) = 0
  BY <1>0 DEF IInv, Progress
<1>2. PICK state \in State, limited \in BOOLEAN :
        /\ Proceed("artifacts", [item EXCEPT !.logs = state, !.limited = limited])
        /\ WorldTyped'
        /\ \/ sent' = sent
           \/ sent' = sent \cup {Logs(Target)} /\ state \notin LeftAlone
  <2>1. CASE Target \in DeleteLogs
    <3>1. PICK state \in State, limited \in BOOLEAN :
            /\ Delete(Logs(Target), state, limited)
            /\ Proceed("artifacts", [item EXCEPT !.logs = state, !.limited = limited])
      BY <2>1 DEF DeleteRunLogs
    <3> QED
      BY <1>0, <3>1, OpenTarget, Belongs, DeleteKeepsTypes
  <2>2. CASE Target \notin DeleteLogs
    <3>1. NoCall /\ Proceed("artifacts", [item EXCEPT !.logs = "Blocked"])
      BY <2>2 DEF DeleteRunLogs
    <3>2. item.limited \in BOOLEAN
      BY <1>0, OpenTarget DEF Item
    <3>3. [item EXCEPT !.logs = "Blocked"]
            = [item EXCEPT !.logs = "Blocked", !.limited = item.limited]
      BY <1>0, OpenTarget DEF Item
    <3> QED
      BY <3>1, <3>2, <3>3, CallsKeepTypes DEF State
  <2> QED
    BY <2>1, <2>2
<1> DEFINE open == [item EXCEPT !.logs = state, !.limited = limited]
<1>3. open \in Item /\ open.logs = state /\ open.artifacts = item.artifacts
  BY <1>0, OpenTarget DEF Item
<1>4. Proceed("artifacts", open) /\ "artifacts" \in Pc \ {"next"}
  BY <1>2 DEF Pc
<1> HIDE DEF open
<1>5. /\ pc' = "artifacts" /\ item' = open /\ report' = report /\ halted' = halted
      /\ Target' = Target /\ Planning' = Planning
  BY <1>4 DEF Proceed, Target, Planning
<1>6. Progress'
  BY <1>0, <1>1, <1>3, <1>5, OpenTarget DEF Progress, BeforeLogs, AfterArtifacts
<1>7. OpenHonest'
  <2>1. Target \notin sent'
    BY <1>0, <1>2, OpenTarget, Apart DEF IInv, OpenHonest
  <2>2. state \in LeftAlone => Logs(Target) \notin sent'
    BY <1>0, <1>2 DEF IInv, OpenHonest
  <2>3. \A n \in 1..Len(Planning) : Planning[n] \notin sent
    BY <1>0, <1>1, OpenTarget DEF IInv, OpenHonest
  <2>4. \A n \in 1..Len(Planning) : Planning[n] \notin sent'
    BY <1>0, <1>2, <2>3, OpenTarget, Apart
  <2> QED
    BY <1>3, <1>5, <2>1, <2>2, <2>4 DEF OpenHonest, BeforeLogs
<1>8. \A o \in sent' \ sent : RunOf(o) = Target
  BY <1>0, <1>2, OpenTarget, Belongs
<1> QED
  BY <1>0, <1>2, <1>3, <1>4, <1>6, <1>7, <1>8, OpenTarget, ProceedKeepsIInv

LEMMA LookupArtifactKeepsIInv ==
  ASSUME IInv, LookupArtifact
  PROVE  IInv'
<1>0. /\ pc = "artifacts" /\ pc # "next" /\ pc # "confirm" /\ pc \notin BeforeLogs
      /\ Len(item.artifacts) < Len(Planning) /\ Looks
  BY DEF LookupArtifact, BeforeLogs
<1>1. WorldTyped' /\ sent' = sent
  BY <1>0, CallsKeepTypes
<1>2. CASE \E state \in State, limited \in BOOLEAN :
             Proceed("artifacts", Pushed(state, limited))
  BY <1>0, <1>1, <1>2, PushKeepsIInv
<1>3. CASE Proceed("delete", item)
  <2>1. /\ pc' = "delete" /\ item' = item /\ report' = report /\ halted' = halted
        /\ Target' = Target /\ Planning' = Planning
    BY <1>3 DEF Proceed, Target, Planning
  <2>2. Progress'
    BY <1>0, <2>1, OpenTarget DEF Progress, BeforeLogs, AfterArtifacts
  <2>3. OpenHonest'
    BY <1>0, <1>1, <2>1 DEF IInv, OpenHonest, BeforeLogs
  <2>4. "delete" \in Pc \ {"next"}
    BY DEF Pc
  <2> QED
    BY <1>0, <1>1, <1>3, <2>2, <2>3, <2>4, OpenTarget, ProceedKeepsIInv
<1> QED
  BY <1>2, <1>3 DEF LookupArtifact, State

LEMMA DeleteArtifactKeepsIInv ==
  ASSUME IInv, DeleteArtifact
  PROVE  IInv'
<1>0. pc = "delete" /\ pc # "next"
  BY DEF DeleteArtifact
<1>1. Len(item.artifacts) < Len(Planning)
  BY <1>0 DEF IInv, Progress
<1>2. Current \in Object
  BY <1>0, <1>1, OpenTarget, Belongs DEF Current
<1>3. PICK state \in State, limited \in BOOLEAN :
        Delete(Current, state, limited) /\ Proceed("artifacts", Pushed(state, limited))
  BY DEF DeleteArtifact
<1> QED
  BY <1>0, <1>1, <1>2, <1>3, DeleteKeepsTypes, PushKeepsIInv

LEMMA RetainRunKeepsIInv ==
  ASSUME IInv, RetainRun
  PROVE  IInv'
BY CallsKeepTypes, EndedKeepsIInv DEF RetainRun, State

LEMMA VerifyDependenciesKeepsIInv ==
  ASSUME IInv, VerifyDependencies
  PROVE  IInv'
<1>0. /\ pc = "artifacts" /\ pc # "next" /\ pc # "confirm" /\ pc \notin BeforeLogs
      /\ Len(item.artifacts) = Len(Planning) /\ Looks
  BY DEF VerifyDependencies, BeforeLogs
<1>1. WorldTyped' /\ sent' = sent
  BY <1>0, CallsKeepTypes
<1>2. CASE Proceed("recheck", item)
  BY <1>0, <1>2, OnwardKeepsIInv
<1>3. CASE \E limited \in BOOLEAN : Finish(Ended("VerificationFailed", limited), FALSE)
  BY <1>0, <1>1, <1>3, EndedKeepsIInv DEF State
<1> DEFINE done == [item EXCEPT
             !.residual = Present(Target),
             !.artifacts = [n \in 1..Len(@) |->
                IF Planning[n] \in Present(Target) THEN "VerificationFailed" ELSE @[n]]]
<1>4. CASE Finish(done, FALSE)
  <2>1. item.artifacts \in Seq(State) /\ item \in Item
    BY <1>0, OpenTarget DEF Item
  <2>2. /\ done.run = item.run /\ done.logs = item.logs
        /\ done.artifacts = [n \in 1..Len(item.artifacts) |->
             IF Planning[n] \in Present(Target) THEN "VerificationFailed"
             ELSE item.artifacts[n]]
        /\ done.residual = Present(Target) /\ done.limited = item.limited
    BY <2>1 DEF Item
  <2>3. done.artifacts \in Seq(State)
    BY <1>0, <2>1, <2>2, OpenTarget DEF State
  <2>4. done \in Item
    <3>1. Present(Target) \in SUBSET Artifact
      BY DEF Present
    <3> QED
      BY <2>1, <2>2, <2>3, <3>1 DEF Item
  <2>5. \A n \in 1..Len(Planning) :
          done.artifacts[n] \in LeftAlone => item.artifacts[n] \in LeftAlone
    BY <1>0, <2>2 DEF LeftAlone
  <2> HIDE DEF done
  <2>6. Honest(Target, done, sent')
    <3>1. \A n \in 1..Len(Planning) :
            item.artifacts[n] \in LeftAlone => Planning[n] \notin sent
      BY <1>0 DEF IInv, OpenHonest
    <3>2. Target \notin sent /\ (item.logs \in LeftAlone => Logs(Target) \notin sent)
      BY <1>0 DEF IInv, OpenHonest
    <3> QED
      BY <1>0, <1>1, <2>2, <2>5, <3>1, <3>2, OpenTarget DEF Honest
  <2> QED
    BY <1>0, <1>1, <1>4, <2>4, <2>6, OpenTarget, FinishKeepsIInv
<1> QED
  BY <1>2, <1>3, <1>4 DEF VerifyDependencies

LEMMA RecheckRunKeepsIInv ==
  ASSUME IInv, RecheckRun
  PROVE  IInv'
<1>0. pc = "recheck" /\ pc # "next" /\ pc # "confirm" /\ pc \in AfterArtifacts /\ Looks
  BY DEF RecheckRun, AfterArtifacts
<1>1. Len(item.artifacts) = Len(Planning)
  BY <1>0 DEF IInv, Progress
<1>2. CASE Proceed("destroy", item)
  BY <1>0, <1>1, <1>2, OnwardKeepsIInv
<1>3. CASE \E state \in State, limited \in BOOLEAN : Finish(Ended(state, limited), FALSE)
  BY <1>0, <1>1, <1>3, CallsKeepTypes, EndedKeepsIInv
<1> QED
  BY <1>2, <1>3 DEF RecheckRun, State

LEMMA DeleteRunKeepsIInv ==
  ASSUME IInv, DeleteRun
  PROVE  IInv'
<1>0. pc = "destroy" /\ pc # "next" /\ pc # "confirm" /\ pc \in AfterArtifacts
      /\ pc \notin BeforeLogs
  BY DEF DeleteRun, AfterArtifacts, BeforeLogs
<1>1. Len(item.artifacts) = Len(Planning)
  BY <1>0 DEF IInv, Progress
<1>2. PICK state \in State, limited \in BOOLEAN :
        /\ Delete(Target, state, limited)
        /\ IF state = "Deleted"
           THEN Proceed("confirm", item)
           ELSE Finish(Ended(state, limited), FALSE)
  BY DEF DeleteRun
<1>3. Target \in Object /\ RunOf(Target) = Target
  BY <1>0, OpenTarget, Belongs
<1>4. WorldTyped' /\ sent' = sent \cup {Target} /\ state \notin LeftAlone
  BY <1>2, <1>3, DeleteKeepsTypes
<1>5. CASE Proceed("confirm", item)
  <2>1. /\ pc' = "confirm" /\ item' = item /\ report' = report /\ halted' = halted
        /\ Target' = Target /\ Planning' = Planning
    BY <1>5 DEF Proceed, Target, Planning
  <2>2. Progress'
    BY <1>0, <1>1, <2>1, OpenTarget DEF Progress, BeforeLogs
  <2>3. OpenHonest'
    <3>1. item.logs \in LeftAlone => Logs(Target) \notin sent'
      BY <1>0, <1>4, OpenTarget, Apart DEF IInv, OpenHonest
    <3>2. \A n \in 1..Len(Planning) :
            item.artifacts[n] \in LeftAlone => Planning[n] \notin sent'
      BY <1>0, <1>4, OpenTarget, Apart DEF IInv, OpenHonest
    <3>3. \A n \in 1..Len(Planning) : ~(n > Len(item.artifacts))
      BY <1>0, <1>1, OpenTarget
    <3> QED
      BY <2>1, <3>1, <3>2, <3>3 DEF OpenHonest, BeforeLogs
  <2>4. "confirm" \in Pc \ {"next"}
    BY DEF Pc
  <2> QED
    BY <1>0, <1>3, <1>4, <1>5, <2>2, <2>3, <2>4, OpenTarget, ProceedKeepsIInv
<1>6. CASE Finish(Ended(state, limited), FALSE)
  BY <1>0, <1>1, <1>4, <1>6, EndedKeepsIInv
<1> QED
  BY <1>2, <1>5, <1>6

LEMMA ConfirmRunKeepsIInv ==
  ASSUME IInv, ConfirmRun
  PROVE  IInv'
<1>0. pc = "confirm" /\ pc \in AfterArtifacts /\ pc # "next" /\ Looks
  BY DEF ConfirmRun, AfterArtifacts
<1>1. Len(item.artifacts) = Len(Planning)
  BY <1>0 DEF IInv, Progress
<1>2. PICK state \in State, limited \in BOOLEAN :
        state \notin LeftAlone /\ Finish(Ended(state, limited), FALSE)
  BY DEF ConfirmRun, State, LeftAlone
<1> QED
  BY <1>0, <1>1, <1>2, CallsKeepTypes, EndedKeepsIInv

\* Others change the provider's objects, and nothing the executor has or says.
LEMMA OthersKeepIInv ==
  ASSUME IInv, Touch \/ Change \/ Upload \/ Vanish \/ Land
  PROVE  IInv'
<1>1. /\ UNCHANGED <<pc, item, report, halted, sent>>
      /\ WorldTyped'
  <2>1. ASSUME NEW o \in Object, NEW version \in Version, Drift(o, version)
        PROVE  UNCHANGED <<pc, item, report, halted, sent>> /\ WorldTyped'
    <3>1. remote' \in [Object -> Version]
      BY <2>1, ErasedTyped DEF Drift, IInv, TypeOK
    <3>2. drifts' \in 0..MaxDrift
      BY <2>1, PlanAssumption DEF Drift, IInv, TypeOK
    <3> QED
      BY <2>1, <3>1, <3>2 DEF Drift, executor, WorldTyped, IInv, TypeOK
  <2>2. CASE Touch \/ Change \/ Upload \/ Vanish
    <3>1. "touched" \in Version /\ "changed" \in Version /\ "absent" \in Version
      BY DEF Version
    <3>2. Run \cup Artifact \subseteq Object
      BY DEF Object
    <3> QED
      BY <2>1, <2>2, <3>1, <3>2 DEF Touch, Change, Upload, Vanish
  <2>3. CASE Land
    BY <2>3, ErasedTyped DEF Land, executor, WorldTyped, IInv, TypeOK
  <2> QED
    BY <2>2, <2>3
<1>2. Target' = Target /\ Planning' = Planning /\ Begun' = Begun
  BY <1>1 DEF Target, Planning, Begun
<1>3. TypeOK'
  BY <1>1 DEF IInv, TypeOK, WorldTyped
<1> QED
  BY <1>1, <1>2, <1>3
  DEF IInv, Progress, SentBegun, OpenHonest, LimitHalts, ReportOwnsUp, HaltIsFinal

LEMMA NextIInv ==
  ASSUME IInv, [Next]_vars
  PROVE  IInv'
<1>1. CASE UNCHANGED vars
  <2>1. UNCHANGED <<remote, inflight, pc, item, report, halted, sent, recent, earlier, drifts>>
    BY <1>1 DEF vars, executor
  <2>2. Target' = Target /\ Planning' = Planning /\ Begun' = Begun
    BY <2>1 DEF Target, Planning, Begun
  <2>3. TypeOK'
    BY <2>1 DEF IInv, TypeOK
  <2> QED
    BY <2>1, <2>2, <2>3
    DEF IInv, Progress, SentBegun, OpenHonest, LimitHalts, ReportOwnsUp, HaltIsFinal
<1>2. CASE Next
  BY <1>2, NextTargetKeepsIInv, AcquireLeaseKeepsIInv, LookupRunKeepsIInv,
     EnumerateArtifactsKeepsIInv, DeleteRunLogsKeepsIInv, LookupArtifactKeepsIInv,
     DeleteArtifactKeepsIInv, RetainRunKeepsIInv, VerifyDependenciesKeepsIInv,
     RecheckRunKeepsIInv, DeleteRunKeepsIInv, ConfirmRunKeepsIInv, OthersKeepIInv
  DEF Next
<1> QED
  BY <1>1, <1>2

LEMMA AlwaysIInv == Spec => []IInv
BY InitIInv, NextIInv, PTL DEF Spec

-----------------------------------------------------------------------------
(* Theorems *)

\* Every variable of the executor keeps its type.
THEOREM TypeCorrect == Spec => []TypeOK
<1>1. IInv => TypeOK
  BY DEF IInv
<1> QED
  BY <1>1, AlwaysIInv, PTL

\* The report owns up to every DELETE that was sent, for every plan, whatever
\* others do meanwhile and whatever the provider answers.
THEOREM ReportsOwnUp == Spec => []ReportOwnsUp
<1>1. IInv => ReportOwnsUp
  BY DEF IInv
<1> QED
  BY <1>1, AlwaysIInv, PTL

\* After an item met the rate limit every later target of the plan is reported
\* Blocked, and nothing of it is ever sent.
THEOREM HaltsAreFinal == Spec => []HaltIsFinal
<1>1. IInv => HaltIsFinal
  BY DEF IInv
<1> QED
  BY <1>1, AlwaysIInv, PTL

-----------------------------------------------------------------------------
(* What the last looks at the provider still say *)

\* LookInv needs nothing of the report: at each place, what a DELETE of the open
\* target will rest on is as the last look saw it, or was changed since.
LookInv ==
  /\ pc = "enumerate" => Unchanged(Target, recent)
  /\ pc = "logs" =>
       /\ Unchanged(Target, recent \cup earlier)
       /\ \A a \in Artifact : Owner[a] = Target => Unchanged(a, recent)
  /\ pc = "delete" => Unchanged(Current, recent)
  /\ pc = "recheck" => Present(Target) \subseteq recent
  /\ pc = "destroy" =>
       /\ Unchanged(Target, recent) \/ remote[Target] = "touched"
       /\ Present(Target) \subseteq recent \cup earlier
  /\ pc \in {"artifacts", "delete"} /\ item.logs \in Gone => Logs(Target) \in sent
  /\ pc \in {"recheck", "destroy"} => Logs(Target) \in sent

\* Others only remove an object or leave their mark in recent.
LEMMA OthersLeaveMarks ==
  ASSUME IInv, Touch \/ Change \/ Upload \/ Vanish \/ Land
  PROVE  /\ UNCHANGED <<pc, item, report, halted, sent, earlier>>
         /\ recent \subseteq recent'
         /\ \A x \in Object : remote'[x] \in {remote[x], "absent"} \/ x \in recent'
<1>0. remote \in [Object -> Version]
  BY DEF IInv, TypeOK
<1>1. \A o : \A x \in Object : Erased(o)[x] \in {remote[x], "absent"}
  BY DEF Erased
<1>2. ASSUME NEW o \in Object, NEW version, Drift(o, version)
      PROVE  /\ UNCHANGED <<pc, item, report, halted, sent, earlier>>
             /\ recent \subseteq recent'
             /\ \A x \in Object : remote'[x] \in {remote[x], "absent"} \/ x \in recent'
  BY <1>0, <1>1, <1>2 DEF Drift, executor
<1>3. Run \cup Artifact \subseteq Object
  BY DEF Object
<1>4. CASE Land
  BY <1>1, <1>4 DEF Land, executor
<1>5. CASE Touch \/ Change \/ Upload \/ Vanish
  BY <1>2, <1>3, <1>5 DEF Touch, Change, Upload, Vanish
<1> QED
  BY <1>4, <1>5

LEMMA OthersKeepLookInv ==
  ASSUME IInv, LookInv, Touch \/ Change \/ Upload \/ Vanish \/ Land
  PROVE  LookInv'
<1>1. /\ UNCHANGED <<pc, item, report, halted, sent, earlier>>
      /\ recent \subseteq recent'
      /\ \A x \in Object : remote'[x] \in {remote[x], "absent"} \/ x \in recent'
  BY OthersLeaveMarks
<1>2. Target' = Target /\ Planning' = Planning /\ Current' = Current
  BY <1>1 DEF Target, Planning, Current
<1>3. \A window, wider : \A x \in Object :
        Unchanged(x, window) /\ window \subseteq wider /\ recent' \subseteq wider
          => remote'[x] \in {"planned", "absent"} \/ x \in wider
  BY <1>1 DEF Unchanged
<1>4. CASE pc = "next"
  BY <1>1, <1>4 DEF LookInv
<1>5. CASE pc # "next"
  <2>1. Target \in Run /\ Target \in Object /\ Artifact \subseteq Object
    BY <1>5, OpenTarget, Belongs DEF Object
  <2>2. pc = "delete" => Current \in Object
    BY <1>5, OpenTarget, Belongs DEF IInv, Progress, Current
  <2>3. Present(Target)' \subseteq Present(Target) \cup recent'
    BY <1>1, <1>2, <2>1 DEF Present
  <2>4. pc = "enumerate" => Unchanged(Target, recent)'
    BY <1>1, <1>2, <1>3, <2>1 DEF LookInv, Unchanged
  <2>5. pc = "logs" => /\ Unchanged(Target, recent \cup earlier)'
                       /\ \A a \in Artifact : Owner[a] = Target => Unchanged(a, recent)'
    <3> SUFFICES ASSUME pc = "logs"
                 PROVE  /\ Unchanged(Target, recent \cup earlier)'
                        /\ \A a \in Artifact : Owner[a] = Target => Unchanged(a, recent)'
      OBVIOUS
    <3>1. Unchanged(Target, recent \cup earlier)'
      <4>1. recent \cup earlier \subseteq recent' \cup earlier'
        BY <1>1
      <4> QED
        BY <4>1, <1>2, <1>3, <2>1 DEF LookInv, Unchanged
    <3>2. \A a \in Artifact : Owner[a] = Target => Unchanged(a, recent)'
      BY <1>1, <1>3, <2>1 DEF LookInv, Unchanged
    <3> QED
      BY <3>1, <3>2
  <2>6. pc = "delete" => Unchanged(Current, recent)'
    BY <1>1, <1>2, <1>3, <2>2 DEF LookInv, Unchanged
  <2>7. pc = "recheck" => Present(Target)' \subseteq recent'
    BY <1>1, <2>3 DEF LookInv
  <2>8. pc = "destroy" => /\ Unchanged(Target, recent)' \/ remote'[Target] = "touched"
                          /\ Present(Target)' \subseteq (recent \cup earlier)'
    BY <1>1, <1>2, <2>1, <2>3 DEF LookInv, Unchanged
  <2> QED
    BY <1>1, <1>2, <2>4, <2>5, <2>6, <2>7, <2>8 DEF LookInv
<1> QED
  BY <1>4, <1>5

\* The executor's own steps: each place is entered by the look it rests on.
LEMMA ExecutorKeepsLookInv ==
  ASSUME IInv, LookInv,
         \/ NextTarget \/ AcquireLease \/ LookupRun \/ EnumerateArtifacts \/ DeleteRunLogs
         \/ LookupArtifact \/ DeleteArtifact \/ RetainRun \/ VerifyDependencies
         \/ RecheckRun \/ DeleteRun \/ ConfirmRun
  PROVE  LookInv'
<1>1. CASE pc' = "next"
  BY <1>1 DEF LookInv
<1>2. CASE pc' # "next"
  <2> USE DEF LookInv
  <2>0. \A to, open : Proceed(to, open) =>
          /\ pc' = to /\ item' = open /\ report' = report
          /\ Target' = Target /\ Planning' = Planning
    BY DEF Proceed, Target, Planning
  <2>f. \A done, halt : ~Finish(done, halt)
    BY <1>2 DEF Finish
  <2>1. CASE NextTarget \/ AcquireLease
    <3>1. Proceed("acquire", Fresh) \/ Proceed("preflight", Fresh)
      BY <2>f, <2>1 DEF NextTarget, AcquireLease
    <3>2. pc' \in {"acquire", "preflight"}
      BY <2>0, <3>1
    <3> QED
      BY <3>2
  <2>2. CASE LookupRun
    <3>1. Proceed("enumerate", Fresh) /\ remote[Target] = "planned" /\ remote' = remote
      BY <2>f, <2>2 DEF LookupRun, Looks
    <3>2. pc' = "enumerate" /\ Target' = Target
      BY <2>0, <3>1
    <3>3. Unchanged(Target, recent)'
      BY <3>1, <3>2 DEF Unchanged
    <3> QED
      BY <3>2, <3>3
  <2>3. CASE EnumerateArtifacts
    <3>1. /\ pc = "enumerate" /\ pc' = "logs" /\ ~Drifted(Target) /\ Target' = Target
          /\ recent' = {} /\ earlier' = recent /\ remote' = remote
      BY <2>0, <2>f, <2>3 DEF EnumerateArtifacts, Looks, Calls
    <3>2. Unchanged(Target, recent \cup earlier)'
      BY <3>1 DEF Unchanged
    <3>3. \A a \in Artifact : Owner[a] = Target => Unchanged(a, recent)'
      BY <3>1 DEF Drifted, Present, Unchanged
    <3> QED
      BY <3>1, <3>2, <3>3
  <2>4. CASE DeleteRunLogs
    <3>1. pc' = "artifacts" /\ Target' = Target /\ pc = "logs"
      BY <2>0, <2>4 DEF DeleteRunLogs
    <3>2. item'.logs \in Gone => Logs(Target) \in sent'
      <4>1. item \in Item
        BY <3>1, OpenTarget
      <4>2. CASE Target \in DeleteLogs
        BY <4>2, <2>4 DEF DeleteRunLogs, Delete
      <4>3. CASE Target \notin DeleteLogs
        <5>1. item' = [item EXCEPT !.logs = "Blocked"]
          BY <4>3, <2>0, <2>4 DEF DeleteRunLogs
        <5> QED
          BY <4>1, <5>1 DEF Gone, Item
      <4> QED
        BY <4>2, <4>3
    <3> QED
      BY <3>1, <3>2
  <2>5. CASE LookupArtifact
    <3>1. pc = "artifacts" /\ Target' = Target /\ sent' = sent /\ Planning' = Planning
          /\ recent' = {} /\ remote' = remote /\ item \in Item
      BY <2>0, <2>5, OpenTarget DEF LookupArtifact, Looks, Calls
    <3>2. CASE pc' = "delete" /\ item' = item /\ remote[Current] = "planned"
      <4>1. Current' = Current
        BY <3>1, <3>2 DEF Current
      <4>2. Unchanged(Current, recent)'
        BY <3>1, <3>2, <4>1 DEF Unchanged
      <4> QED
        BY <3>1, <3>2, <4>2
    <3>3. CASE pc' = "artifacts" /\ \E state, limited : item' = Pushed(state, limited)
      <4>1. item'.logs = item.logs
        BY <3>1, <3>3 DEF Pushed, Item
      <4> QED
        BY <3>1, <3>3, <4>1
    <3>4. \/ remote[Current] = "planned" /\ Proceed("delete", item)
          \/ \E state, limited : Proceed("artifacts", Pushed(state, limited))
      BY <2>5 DEF LookupArtifact
    <3> QED
      BY <2>0, <3>2, <3>3, <3>4
  <2>6. CASE DeleteArtifact
    <3>1. PICK state \in State, limited \in BOOLEAN :
            Delete(Current, state, limited) /\ Proceed("artifacts", Pushed(state, limited))
      BY <2>6 DEF DeleteArtifact
    <3>2. pc = "delete" /\ pc' = "artifacts" /\ Target' = Target /\ item \in Item
          /\ item' = Pushed(state, limited) /\ sent \subseteq sent'
      BY <2>0, <2>6, <3>1, OpenTarget DEF DeleteArtifact, Delete
    <3>3. item'.logs = item.logs
      BY <3>2 DEF Pushed, Item
    <3> QED
      BY <3>2, <3>3
  <2>7. CASE VerifyDependencies
    <3>1. /\ pc = "artifacts" /\ pc' = "recheck" /\ Target' = Target /\ sent' = sent
          /\ Present(Target) = {} /\ remote' = remote /\ item.logs \in Gone
      BY <2>0, <2>f, <2>7 DEF VerifyDependencies, Looks, Clean
    <3>2. Present(Target)' = {}
      BY <3>1 DEF Present
    <3> QED
      BY <3>1, <3>2
  <2>8. CASE RecheckRun
    <3>1. /\ pc = "recheck" /\ pc' = "destroy" /\ Target' = Target /\ sent' = sent
          /\ remote' = remote /\ earlier' = recent
          /\ remote[Target] \in {"planned", "touched"}
      BY <2>0, <2>f, <2>8 DEF RecheckRun, Looks, Calls
    <3>2. Present(Target)' = Present(Target)
      BY <3>1 DEF Present
    <3>3. Unchanged(Target, recent)' \/ remote'[Target'] = "touched"
      BY <3>1 DEF Unchanged
    <3> QED
      BY <3>1, <3>2, <3>3
  <2>9. CASE DeleteRun
    <3>1. Proceed("confirm", item)
      BY <2>f, <2>9 DEF DeleteRun
    <3>2. pc' = "confirm"
      BY <2>0, <3>1
    <3> QED
      BY <3>2
  <2>10. CASE RetainRun \/ ConfirmRun
    BY <2>f, <2>10 DEF RetainRun, ConfirmRun
  <2> QED
    BY <2>1, <2>2, <2>3, <2>4, <2>5, <2>6, <2>7, <2>8, <2>9, <2>10
<1> QED
  BY <1>1, <1>2

\* Which step sends which DELETE.
LEMMA Sends ==
  ASSUME IInv, Next, NEW o \in sent' \ sent
  PROVE  /\ pc # "next"
         /\ \/ pc = "logs" /\ o = Logs(Target)
            \/ pc = "delete" /\ o = Current /\ o \in Artifact
            \/ pc = "destroy" /\ o = Target
<1>1. CASE DeleteRunLogs
  BY <1>1 DEF DeleteRunLogs, Delete, NoCall
<1>2. CASE DeleteArtifact
  <2>1. pc = "delete" /\ pc # "next" /\ o = Current
    BY <1>2 DEF DeleteArtifact, Delete
  <2>2. Current \in Artifact
    BY <2>1, OpenTarget DEF Current, IInv, Progress
  <2> QED
    BY <2>1, <2>2
<1>3. CASE DeleteRun
  BY <1>3 DEF DeleteRun, Delete
<1>4. CASE ~(DeleteRunLogs \/ DeleteArtifact \/ DeleteRun)
  <2>1. sent' = sent
    BY <1>4, OthersLeaveMarks
    DEF Next, NextTarget, AcquireLease, LookupRun, EnumerateArtifacts, LookupArtifact,
        RetainRun, VerifyDependencies, RecheckRun, ConfirmRun, Looks, NoCall
  <2> QED
    BY <2>1
<1> QED
  BY <1>1, <1>2, <1>3, <1>4

LEMMA AlwaysLookInv == Spec => [](IInv /\ LookInv)
<1>1. Init => LookInv
  BY DEF Init, LookInv
<1>2. IInv /\ LookInv /\ [Next]_vars => LookInv'
  <2> SUFFICES ASSUME IInv, LookInv, [Next]_vars PROVE LookInv'
    OBVIOUS
  <2>1. CASE UNCHANGED vars
    BY <2>1 DEF vars, executor, LookInv, Target, Planning, Current, Present, Unchanged
  <2>2. CASE Next
    BY <2>2, OthersKeepLookInv, ExecutorKeepsLookInv DEF Next
  <2> QED
    BY <2>1, <2>2
<1> QED
  BY <1>1, <1>2, InitIInv, NextIInv, PTL DEF Spec

\* No DELETE meets anything but what was reviewed, or what others changed after
\* the last look: for every plan and any number of changes by others.
THEOREM OnlyTheReviewedIsDeleted == Spec => OnlyReviewedStateIsDeleted
<1>1. IInv /\ LookInv /\ [Next]_vars =>
        [\A o \in sent' \ sent :
           \/ o \in Artifact /\ Unchanged(o, recent)
           \/ o \in Run /\ (Unchanged(o, recent) \/ remote[o] = "touched")
           \/ /\ o \notin Run \cup Artifact
              /\ Unchanged(RunOf(o), recent \cup earlier)
              /\ \A a \in Artifact : Owner[a] = RunOf(o) => Unchanged(a, recent)]_vars
  <2> SUFFICES ASSUME IInv, LookInv, Next, NEW o \in sent' \ sent
               PROVE  \/ o \in Artifact /\ Unchanged(o, recent)
                      \/ o \in Run /\ (Unchanged(o, recent) \/ remote[o] = "touched")
                      \/ /\ o \notin Run \cup Artifact
                         /\ Unchanged(RunOf(o), recent \cup earlier)
                         /\ \A a \in Artifact : Owner[a] = RunOf(o) => Unchanged(a, recent)
    OBVIOUS
  <2>1. pc # "next" /\ Target \in Run
    BY Sends, OpenTarget
  <2>2. CASE pc = "logs" /\ o = Logs(Target)
    BY <2>1, <2>2, Belongs, LogsAssumption DEF LookInv
  <2>3. CASE pc = "delete" /\ o = Current /\ o \in Artifact
    BY <2>3 DEF LookInv
  <2>4. CASE pc = "destroy" /\ o = Target
    BY <2>1, <2>4 DEF LookInv
  <2> QED
    BY <2>2, <2>3, <2>4, Sends
<1> QED
  BY <1>1, AlwaysLookInv, PTL DEF Spec, OnlyReviewedStateIsDeleted

\* The DELETE of a run comes after that of its logs, and takes no artifact with
\* it but one that was uploaded within the last two calls.
THEOREM RunsAreDeletedLast == Spec => RunIsDeletedLast
<1>1. IInv /\ LookInv /\ [Next]_vars =>
        [\A r \in (sent' \ sent) \cap Run :
           /\ Present(r) \subseteq recent \cup earlier
           /\ remote[Logs(r)] = "absent" \/ Logs(r) \in sent]_vars
  <2> SUFFICES ASSUME IInv, LookInv, Next, NEW r \in (sent' \ sent) \cap Run
               PROVE  /\ Present(r) \subseteq recent \cup earlier
                      /\ remote[Logs(r)] = "absent" \/ Logs(r) \in sent
    OBVIOUS
  <2>1. pc # "next" /\ Target \in Run
    BY Sends, OpenTarget
  <2>2. r \notin Artifact /\ r # Logs(Target)
    BY <2>1, PlanAssumption, LogsAssumption
  <2>3. pc = "destroy" /\ r = Target
    BY <2>2, Sends
  <2> QED
    BY <2>3 DEF LookInv
<1> QED
  BY <1>1, AlwaysLookInv, PTL DEF Spec, RunIsDeletedLast

-----------------------------------------------------------------------------
(* What is gone stays gone *)

\* Whatever belongs to a run goes with it, and nothing is uploaded to what is gone.
GoneInv ==
  /\ \A r \in Run : remote[r] = "absent" =>
       \A o \in Object : RunOf(o) = r => remote[o] = "absent"
  /\ \A j \in 1..Len(report) :
       report[j].run \in Gone => remote[Targets[j]] = "absent"
  /\ item.run = "Blocked"

LEMMA ObjectsHaveRuns ==
  ASSUME NEW o \in Object
  PROVE  RunOf(o) \in Run
<1>1. CASE o \in Run
  BY <1>1 DEF RunOf
<1>2. CASE o \in Artifact
  BY <1>2, PlanAssumption DEF RunOf
<1>3. CASE o \in {Logs(r) : r \in Run}
  BY <1>3, Belongs
<1> QED
  BY <1>1, <1>2, <1>3 DEF Object

\* What a step may do to the provider: nothing, erase an object, or change one
\* that exists or whose run does.
LEMMA WorldMoves ==
  ASSUME IInv, Next
  PROVE  \/ remote' = remote
         \/ \E o \in Object : remote' = Erased(o)
         \/ \E o \in Object, version \in Version :
              /\ remote[RunOf(o)] # "absent"
              /\ version # "absent"
              /\ remote' = [remote EXCEPT ![o] = version]
         \/ \E o \in Artifact, version \in Version :
              remote[o] # "absent" /\ remote' = [remote EXCEPT ![o] = version]
<1>0. Run \cup Artifact \subseteq Object /\ (\A r \in Run : RunOf(r) = r)
  BY Belongs DEF Object
<1>1. ASSUME NEW o \in Object, NEW state, NEW limited, Delete(o, state, limited)
      PROVE  remote' = remote \/ remote' = Erased(o)
  BY <1>1 DEF Delete, NoEffect, Effect, LateEffect
<1>2. CASE DeleteRunLogs
  <2>1. pc = "logs" /\ Logs(Target) \in Object
    BY <1>2, OpenTarget, Belongs DEF DeleteRunLogs
  <2> QED
    BY <1>1, <1>2, <2>1 DEF DeleteRunLogs, NoCall
<1>3. CASE DeleteArtifact
  <2>1. pc = "delete" /\ Current \in Object
    BY <1>3, OpenTarget, Belongs DEF DeleteArtifact, Current, IInv, Progress
  <2> QED
    BY <1>1, <1>3, <2>1 DEF DeleteArtifact
<1>4. CASE DeleteRun
  <2>1. pc = "destroy" /\ Target \in Object
    BY <1>4, OpenTarget, Belongs DEF DeleteRun
  <2> QED
    BY <1>1, <1>4, <2>1 DEF DeleteRun
<1>5. CASE Touch \/ Change
  <2>1. PICK o \in Run \cup Artifact, version \in {"touched", "changed"} :
          remote[o] \in {"planned", "touched"} /\ Drift(o, version)
    BY <1>5 DEF Touch, Change
  <2>2. remote[o] # "absent" /\ remote' = [remote EXCEPT ![o] = version]
    BY <2>1 DEF Drift
  <2>3. version \in Version /\ version # "absent"
    BY <2>1 DEF Version
  <2> QED
    BY <1>0, <2>1, <2>2, <2>3
<1>6. CASE Upload
  <2>1. PICK a \in Artifact : remote[Owner[a]] # "absent" /\ Drift(a, "changed")
    BY <1>6 DEF Upload
  <2>2. remote' = [remote EXCEPT ![a] = "changed"] /\ RunOf(a) = Owner[a]
    BY <2>1, PlanAssumption DEF Drift, RunOf
  <2> QED
    BY <1>0, <2>1, <2>2 DEF Version
<1>7. CASE Vanish \/ Land
  BY <1>7 DEF Vanish, Land, Drift, IInv, TypeOK
<1>8. CASE NextTarget \/ AcquireLease \/ LookupRun \/ EnumerateArtifacts \/ LookupArtifact
           \/ RetainRun \/ VerifyDependencies \/ RecheckRun \/ ConfirmRun
  BY <1>8
  DEF NextTarget, AcquireLease, LookupRun, EnumerateArtifacts, LookupArtifact,
      RetainRun, VerifyDependencies, RecheckRun, ConfirmRun, Looks, NoCall
<1> QED
  BY <1>2, <1>3, <1>4, <1>5, <1>6, <1>7, <1>8 DEF Next

\* A run that is gone stays gone, with all that belonged to it.
LEMMA GoneStaysGone ==
  ASSUME IInv, GoneInv, Next, NEW r \in Run, remote'[r] = "absent"
  PROVE  \A o \in Object : RunOf(o) = r => remote'[o] = "absent"
<1>0. remote \in [Object -> Version] /\ r \in Object /\ RunOf(r) = r
  BY Belongs DEF IInv, TypeOK
<1>1. CASE remote[r] = "absent"
  <2>1. \A o \in Object : RunOf(o) = r => remote[o] = "absent"
    BY <1>1 DEF GoneInv
  <2>2. CASE \E o \in Object : remote' = Erased(o)
    BY <2>1, <2>2 DEF Erased
  <2>3. CASE remote' = remote
    BY <2>1, <2>3
  <2>4. ASSUME NEW o \in Object, NEW version \in Version,
               remote[RunOf(o)] # "absent" \/ remote[o] # "absent",
               remote' = [remote EXCEPT ![o] = version]
        PROVE  \A x \in Object : RunOf(x) = r => remote'[x] = "absent"
    BY <1>0, <1>1, <2>1, <2>4
  <2> QED
    BY <2>2, <2>3, <2>4, WorldMoves DEF Object
<1>2. CASE remote[r] # "absent"
  <2>1. \A a \in Artifact : a # r
    BY PlanAssumption
  <2>2. PICK o \in Object : remote' = Erased(o)
    BY <1>0, <1>2, <2>1, WorldMoves
  <2>3. o = r
    BY <1>0, <1>2, <2>2 DEF Erased, RunOf
  <2> QED
    BY <2>2, <2>3 DEF Erased
<1> QED
  BY <1>1, <1>2

LEMMA GoneIsForGood ==
  ASSUME IInv, GoneInv, Next, NEW r \in Run, remote[r] = "absent"
  PROVE  remote'[r] = "absent"
<1>0. remote \in [Object -> Version] /\ r \in Object /\ RunOf(r) = r /\ r \notin Artifact
  BY Belongs, PlanAssumption DEF IInv, TypeOK
<1>1. CASE \E o \in Object : remote' = Erased(o)
  BY <1>0, <1>1 DEF Erased
<1>2. ASSUME NEW o \in Object, NEW version,
             remote[RunOf(o)] # "absent" \/ o \in Artifact,
             remote' = [remote EXCEPT ![o] = version]
      PROVE  remote'[r] = "absent"
  BY <1>0, <1>2
<1> QED
  BY <1>0, <1>1, <1>2, WorldMoves DEF Object

\* The report grows by one item at a time, and one that says the run is gone is
\* added when a lookup or a DELETE has found it gone.
LEMMA ReportGrows ==
  ASSUME IInv, GoneInv, Next
  PROVE  \/ report' = report
         \/ \E done \in Item :
              /\ Len(report) < Len(Targets)
              /\ report' = Append(report, done)
              /\ done.run \in Gone => remote[Target] = "absent"
<1> DEFINE Grown(done) ==
      /\ Len(report) < Len(Targets)
      /\ report' = Append(report, done)
      /\ done.run \in Gone => remote[Target] = "absent"
<1>f. \A done, halt : Finish(done, halt) => report' = Append(report, done)
  BY DEF Finish
<1>p. \A to, open : Proceed(to, open) => report' = report
  BY DEF Proceed
<1>u. \A dependencies \in State, state \in State, limited \in BOOLEAN :
        Len(report) < Len(Targets) =>
          /\ Unstarted(dependencies, state, limited) \in Item
          /\ Unstarted(dependencies, state, limited).run = state
  <2> SUFFICES ASSUME NEW dependencies \in State, NEW state \in State,
                      NEW limited \in BOOLEAN, Len(report) < Len(Targets)
               PROVE  /\ Unstarted(dependencies, state, limited) \in Item
                      /\ Unstarted(dependencies, state, limited).run = state
    OBVIOUS
  <2>1. Len(Planning) \in Nat
    BY TargetTyped DEF IInv, TypeOK
  <2>2. [n \in 1..Len(Planning) |-> dependencies] \in Seq(State)
    BY <2>1
  <2> QED
    BY <2>2 DEF Unstarted, Item
<1>e. pc # "next" => \A state \in State, limited \in BOOLEAN :
        Ended(state, limited) \in Item /\ Ended(state, limited).run = state
  BY OpenTarget DEF Ended, Item
<1>g. pc # "next" => Len(report) < Len(Targets)
  BY OpenTarget
<1>1. CASE NextTarget
  <2>1. Len(report) < Len(Targets)
    BY <1>1 DEF NextTarget
  <2>2. CASE \E low \in BOOLEAN : Finish(Unstarted("Blocked", "Blocked", FALSE), low)
    <3> DEFINE done == Unstarted("Blocked", "Blocked", FALSE)
    <3>1. done \in Item /\ done.run = "Blocked"
      BY <1>u, <2>1 DEF State
    <3>2. \E low \in BOOLEAN : Finish(done, low)
      BY <2>2
    <3> HIDE DEF done
    <3>3. report' = Append(report, done)
      BY <3>2, <1>f
    <3> QED
      BY <2>1, <3>1, <3>3 DEF Gone
  <2> QED
    BY <1>1, <1>p, <2>2 DEF NextTarget
<1>2. CASE AcquireLease \/ LookupRun \/ EnumerateArtifacts
  <2>1. pc # "next"
    BY <1>2 DEF AcquireLease, LookupRun, EnumerateArtifacts
  <2>2. ASSUME NEW dependencies \in State, NEW state \in State, NEW limited \in BOOLEAN,
               Finish(Unstarted(dependencies, state, limited), FALSE),
               state \in Gone => remote[Target] = "absent"
        PROVE  \E done \in Item : Grown(done)
    <3> DEFINE it == Unstarted(dependencies, state, limited)
    <3>1. it \in Item /\ it.run = state
      BY <1>u, <1>g, <2>1
    <3>2. Finish(it, FALSE)
      BY <2>2
    <3> HIDE DEF it
    <3>3. report' = Append(report, it)
      BY <3>2, <1>f
    <3> QED
      BY <1>g, <2>1, <2>2, <3>1, <3>3
  <2>3. \/ \E to : Proceed(to, Fresh)
        \/ \E dependencies, state \in State, limited \in BOOLEAN :
             /\ Finish(Unstarted(dependencies, state, limited), FALSE)
             /\ state \in Gone => remote[Target] = "absent"
    BY <1>2 DEF AcquireLease, LookupRun, EnumerateArtifacts, State, Gone
  <2> QED
    BY <1>p, <2>2, <2>3
<1>3. CASE RetainRun \/ RecheckRun \/ DeleteRun \/ ConfirmRun
  <2>1. pc # "next"
    BY <1>3 DEF RetainRun, RecheckRun, DeleteRun, ConfirmRun
  <2>2. \/ \E to : Proceed(to, item)
        \/ \E state \in State, limited \in BOOLEAN :
             /\ Finish(Ended(state, limited), FALSE)
             /\ state \in Gone => remote[Target] = "absent"
    <3>1. CASE RetainRun
      BY <3>1 DEF RetainRun, State, Gone
    <3>2. CASE RecheckRun
      BY <3>2 DEF RecheckRun, State, Gone
    <3>3. CASE DeleteRun
      BY <3>3 DEF DeleteRun, Delete, Gone
    <3>4. CASE ConfirmRun
      BY <3>4 DEF ConfirmRun, State, Gone
    <3> QED
      BY <1>3, <3>1, <3>2, <3>3, <3>4
  <2> QED
    BY <1>f, <1>p, <1>e, <1>g, <2>1, <2>2
<1>4. CASE VerifyDependencies
  <2>1. pc = "artifacts" /\ pc # "next"
    BY <1>4 DEF VerifyDependencies
  <2> DEFINE done == [item EXCEPT
             !.residual = Present(Target),
             !.artifacts = [n \in 1..Len(@) |->
                IF Planning[n] \in Present(Target) THEN "VerificationFailed" ELSE @[n]]]
  <2>2. CASE Finish(done, FALSE)
    <3>1. item \in Item /\ item.run = "Blocked" /\ item.artifacts \in Seq(State)
      BY <2>1, OpenTarget DEF GoneInv, Item
    <3>2. [n \in 1..Len(item.artifacts) |->
             IF Planning[n] \in Present(Target) THEN "VerificationFailed"
             ELSE item.artifacts[n]] \in Seq(State)
      BY <3>1 DEF State
    <3>3. Present(Target) \in SUBSET Artifact
      BY DEF Present
    <3>4. done \in Item /\ done.run = "Blocked"
      BY <3>1, <3>2, <3>3 DEF Item
    <3> HIDE DEF done
    <3> QED
      BY <2>1, <2>2, <3>4, <1>f, <1>g DEF Gone
  <2>3. CASE \E limited \in BOOLEAN : Finish(Ended("VerificationFailed", limited), FALSE)
    BY <2>1, <2>3, <1>e, <1>f, <1>g DEF Gone, State
  <2>4. CASE Proceed("recheck", item)
    BY <2>4, <1>p
  <2> QED
    BY <1>4, <2>2, <2>3, <2>4 DEF VerifyDependencies
<1>5. CASE DeleteRunLogs \/ LookupArtifact \/ DeleteArtifact
  BY <1>5, <1>p DEF DeleteRunLogs, LookupArtifact, DeleteArtifact
<1>6. CASE Touch \/ Change \/ Upload \/ Vanish \/ Land
  BY <1>6, OthersLeaveMarks
<1> QED
  BY <1>1, <1>2, <1>3, <1>4, <1>5, <1>6 DEF Next

LEMMA OpenItemIsBlocked ==
  ASSUME IInv, GoneInv, Next
  PROVE  item'.run = "Blocked"
<1>0. item \in Item /\ item.run = "Blocked" /\ Fresh.run = "Blocked"
  BY DEF IInv, TypeOK, GoneInv, Fresh
<1>1. \A done, halt : Finish(done, halt) => item' = Fresh
  BY DEF Finish
<1>2. \A to, open : Proceed(to, open) => item' = open
  BY DEF Proceed
<1>3. CASE NextTarget \/ AcquireLease \/ LookupRun \/ EnumerateArtifacts
  <2>1. item' = Fresh
    BY <1>1, <1>2, <1>3 DEF NextTarget, AcquireLease, LookupRun, EnumerateArtifacts
  <2> QED
    BY <1>0, <2>1
<1>4. CASE DeleteRunLogs
  <2>1. \/ \E state, limited : item' = [item EXCEPT !.logs = state, !.limited = limited]
        \/ item' = [item EXCEPT !.logs = "Blocked"]
    BY <1>2, <1>4 DEF DeleteRunLogs
  <2> QED
    BY <1>0, <2>1 DEF Item
<1>5. CASE LookupArtifact \/ DeleteArtifact
  <2>1. item' = item \/ \E state, limited : item' = Pushed(state, limited)
    BY <1>2, <1>5 DEF LookupArtifact, DeleteArtifact
  <2> QED
    BY <1>0, <2>1 DEF Item, Pushed
<1>6. CASE RetainRun \/ VerifyDependencies \/ RecheckRun \/ DeleteRun \/ ConfirmRun
  <2>1. item' = item \/ item' = Fresh
    BY <1>1, <1>2, <1>6 DEF RetainRun, VerifyDependencies, RecheckRun, DeleteRun, ConfirmRun
  <2> QED
    BY <1>0, <2>1
<1>7. CASE Touch \/ Change \/ Upload \/ Vanish \/ Land
  BY <1>0, <1>7, OthersLeaveMarks
<1> QED
  BY <1>3, <1>4, <1>5, <1>6, <1>7 DEF Next

LEMMA AlwaysGoneInv == Spec => [](IInv /\ GoneInv)
<1>1. Init => GoneInv
  <2> SUFFICES ASSUME Init PROVE GoneInv
    OBVIOUS
  <2>1. \A r \in Run : remote[r] = "planned"
    BY DEF Init, Planned
  <2>2. report = <<>> /\ Len(report) = 0 /\ item.run = "Blocked"
    BY DEF Init, Fresh
  <2> QED
    BY <2>1, <2>2 DEF GoneInv
<1>2. IInv /\ GoneInv /\ [Next]_vars => GoneInv'
  <2> SUFFICES ASSUME IInv, GoneInv, [Next]_vars PROVE GoneInv'
    OBVIOUS
  <2>1. CASE UNCHANGED vars
    BY <2>1 DEF vars, executor, GoneInv
  <2>2. CASE Next
    <3>0. report \in Seq(Item) /\ Len(report) \in Nat /\ Len(report) <= Len(Targets)
      BY TargetsTyped DEF IInv, TypeOK
    <3>1. \A j \in 1..Len(report) :
            report[j].run \in Gone => remote'[Targets[j]] = "absent"
      <4>1. \A j \in 1..Len(report) : Targets[j] \in Run
        BY <3>0, TargetsTyped
      <4> QED
        BY <4>1, <2>2, GoneIsForGood DEF GoneInv
    <3>2. ASSUME NEW j \in 1..Len(report'), report'[j].run \in Gone
          PROVE  remote'[Targets[j]] = "absent"
      <4>1. CASE report' = report
        BY <4>1, <3>1, <3>2
      <4>2. ASSUME NEW done \in Item, Len(report) < Len(Targets),
                   report' = Append(report, done),
                   done.run \in Gone => remote[Target] = "absent"
            PROVE  remote'[Targets[j]] = "absent"
        <5>1. CASE j \in 1..Len(report)
          BY <5>1, <4>2, <3>0, <3>1, <3>2
        <5>2. CASE j = Len(report) + 1
          <6>1. done.run \in Gone
            BY <5>2, <4>2, <3>0, <3>2
          <6>2. Target \in Run /\ Target = Targets[j]
            BY <5>2, <4>2, <3>0, TargetTyped
          <6> QED
            BY <6>1, <6>2, <4>2, <2>2, GoneIsForGood
        <5> QED
          BY <5>1, <5>2, <4>2, <3>0
      <4> QED
        BY <4>1, <4>2, <2>2, ReportGrows
    <3> QED
      BY <3>2, <2>2, GoneStaysGone, OpenItemIsBlocked DEF GoneInv
  <2> QED
    BY <2>1, <2>2
<1> QED
  BY <1>1, <1>2, InitIInv, NextIInv, PTL DEF Spec

\* A run reported Deleted or AlreadyAbsent is gone for good with all that belonged
\* to it, whatever the provider answered and whoever deleted it.
THEOREM ReportedRunsAreGone == Spec => []ReportedRunIsGone
<1>1. IInv /\ GoneInv => ReportedRunIsGone
  <2> SUFFICES ASSUME IInv, GoneInv,
                      NEW j \in 1..Len(report), report[j].run \in Gone,
                      NEW o \in Object, RunOf(o) = Targets[j]
               PROVE  remote[o] = "absent"
    BY DEF ReportedRunIsGone
  <2>1. Targets[j] \in Run
    BY ObjectsHaveRuns
  <2> QED
    BY <2>1 DEF GoneInv
<1> QED
  BY <1>1, AlwaysGoneInv, PTL
=============================================================================
