-------------------------- MODULE Monitoring_proofs --------------------------
(***************************************************************************)
(* What the two loops of monitoring tell is right:                         *)
(* the scans, FollowerIsRight and SignalsMeanMovement for any accounts,    *)
(* scopes, thresholds and length of the history; and the usage polling     *)
(* (Usage), AlertsAreGrounded, OneRequestPerOwner and ToldOnceAsConfigured *)
(* for any owners, bills, configurations and months.                       *)
(***************************************************************************)
EXTENDS Monitoring, Usage, WellFoundedInduction, TLAPS

LevelSaid == {"healthy", "warning", "critical"}

\* The n-th sample of history h is the newest of its series.
Newest(h, n, series) ==
  /\ SeriesOf(h[n]) = series
  /\ \A m \in (n + 1)..Len(h) : SeriesOf(h[m]) # series

\* What a series is believed to be at, if anything, is the level of its newest
\* sample and of the report that the scheduler compares the next one with.
Right(h, p, t) ==
  \A series \in Account \X Scope : t[series] # "unknown" =>
    /\ t[series] \in LevelSaid
    /\ \A n \in 1..Len(h) : Newest(h, n, series) => LevelOf(h[n]) = t[series]
    /\ p # Nothing /\ SeriesOf(p) = series => LevelOf(p) = t[series]

IInv == TypeOK /\ Right(history, previous, told)

-----------------------------------------------------------------------------
(* Levels and signals *)

\* Behind the first of two sequences comes the second.
LEMMA InTheSecond ==
  ASSUME NEW S, NEW a \in Seq(S), NEW b \in Seq(S),
         NEW k \in 1..(Len(a) + Len(b)), ~(k <= Len(a))
  PROVE  (a \o b)[k] = b[k - Len(a)]
OBVIOUS

\* A report has a level and a series.
LEMMA ReportFacts ==
  ASSUME NEW r \in Report
  PROVE  LevelOf(r) \in PressureLevel /\ SeriesOf(r) \in Account \X Scope
BY DEF Report, LevelOf, Level, PressureLevel, SeriesOf

\* A signal of entering or recovering says the new level.
LEMMA SaysNewLevel ==
  ASSUME NEW from \in PressureLevel, NEW to \in PressureLevel, from # to,
         Kind(from, to) \in Entered \cup Recovered
  PROVE  Says[Kind(from, to)] = to /\ to \in LevelSaid
BY DEF Kind, Says, Entered, Recovered, PressureLevel, LevelSaid

\* A change that is not signalled is from or to the absence of thresholds.
LEMMA UnsaidChange ==
  ASSUME NEW from \in PressureLevel, NEW to \in PressureLevel, from # to,
         Kind(from, to) \notin Entered \cup Recovered
  PROVE  from = "unconfigured" \/ to = "unconfigured"
BY DEF Kind, Entered, Recovered, PressureLevel

\* The signal of two adjacent reports is one.
LEMMA SignalType ==
  ASSUME NEW p, NEW r
  PROVE  /\ SignalOf(p, r) \in Signal
         /\ SignalOf(p, r).kind \in Entered \cup Recovered =>
              /\ Comparable(p, r) /\ LevelOf(p) # LevelOf(r)
              /\ SignalOf(p, r).kind = Kind(LevelOf(p), LevelOf(r))
              /\ SignalOf(p, r).changed = ThresholdsChanged(p, r)
         /\ Comparable(p, r) /\ LevelOf(p) # LevelOf(r) =>
              SignalOf(p, r).kind = Kind(LevelOf(p), LevelOf(r))
<1>1. Kind(LevelOf(p), LevelOf(r)) \in SignalKind
  BY DEF Kind, SignalKind, Entered, Recovered
<1>2. ThresholdsChanged(p, r) \in BOOLEAN
  BY DEF ThresholdsChanged
<1>3. CASE Comparable(p, r) /\ LevelOf(p) # LevelOf(r)
  BY <1>1, <1>2, <1>3, SMT DEF SignalOf, Signal
<1>4. CASE ~(Comparable(p, r) /\ LevelOf(p) # LevelOf(r))
  <2>1. /\ SignalOf(p, r).kind \in {"monitoring_incomplete", "none"}
        /\ SignalOf(p, r) \in Signal
    BY <1>4, SMT DEF SignalOf, Signal, SignalKind, Entered, Recovered
  <2> QED BY <2>1, <1>4, SMT DEF Entered, Recovered
<1> QED BY <1>3, <1>4

\* With the same thresholds a higher level needs more bytes.
LEMMA LevelsMeanBytes ==
  ASSUME NEW t \in Threshold, NEW a \in Total, NEW b \in Total, Level(t, a) # Level(t, b)
  PROVE  /\ Kind(Level(t, a), Level(t, b)) \in Entered => b > a
         /\ Kind(Level(t, a), Level(t, b)) \in Recovered => b < a
<1>1. a \in Nat /\ b \in Nat
      /\ t.warning \in Nat \cup {Unset} /\ t.critical \in Nat \cup {Unset} /\ Unset \notin Nat
  BY ThresholdAssumption DEF ThresholdAssumption
<1>2. t.warning # Unset /\ t.critical # Unset => t.warning < t.critical
  BY ThresholdAssumption DEF ThresholdAssumption
<1>3. Level(t, b) = "critical" /\ Level(t, a) # "critical" => b > a
  BY <1>1, SMT DEF Level, Reached
<1>4. Level(t, a) = "critical" /\ Level(t, b) # "critical" => b < a
  BY <1>1, SMT DEF Level, Reached
<1>5. Level(t, a) = "warning" /\ Level(t, b) = "healthy" => b < a
  BY <1>1, SMT DEF Level, Reached
<1>6. Level(t, a) \in {"healthy", "unconfigured"} /\ Level(t, b) = "warning" => b > a
  BY <1>1, SMT DEF Level, Reached
<1>7. Level(t, a) \in PressureLevel /\ Level(t, b) \in PressureLevel
  BY DEF Level, PressureLevel
<1> QED
  BY <1>3, <1>4, <1>5, <1>6, <1>7, SMT DEF Kind, Entered, Recovered, PressureLevel

-----------------------------------------------------------------------------
(* The history *)

\* An append keeps what was newest, but for the sample's own series.
LEMMA AppendKeepsNewest ==
  ASSUME history \in Seq(Report), NEW r \in Report
  PROVE  /\ Appended(r) \in Seq(Report)
         /\ \A n \in 1..Len(Appended(r)), series \in Account \X Scope :
              Newest(Appended(r), n, series) =>
                \/ series = SeriesOf(r) /\ Appended(r)[n] = r
                \/ /\ series # SeriesOf(r)
                   /\ \E k \in 1..Len(history) :
                        Newest(history, k, series) /\ history[k] = Appended(r)[n]
<1> DEFINE new == Appended(r)
<1>1. \E d \in {0, 1} : /\ new \in Seq(Report)
                        /\ Len(new) = Len(history) + 1 - d
                        /\ d <= Len(history)
                        /\ new[Len(new)] = r
                        /\ \A n \in 1..(Len(history) - d) : new[n] = history[n + d]
  <2>1. CASE Len(history) < MaxSamples
    <3>1. new = Append(history, r)
      BY <2>1 DEF Appended
    <3> QED BY <3>1
  <2>2. CASE ~(Len(history) < MaxSamples)
    <3>1. new = Append(Tail(history), r)
      BY <2>2 DEF Appended
    <3>2. history # <<>>
      BY <2>2, ThresholdAssumption DEF ThresholdAssumption
    <3>3. /\ Tail(history) \in Seq(Report)
          /\ Len(history) >= 1
          /\ Len(Tail(history)) = Len(history) - 1
          /\ \A n \in 1..(Len(history) - 1) : Tail(history)[n] = history[n + 1]
      BY <3>2
    <3>4. \A n \in 1..(Len(history) - 1) : new[n] = Tail(history)[n]
      BY <3>1, <3>3
    <3>5. new \in Seq(Report) /\ Len(new) = Len(history) /\ new[Len(new)] = r
      BY <3>1, <3>3
    <3> HIDE DEF new
    <3>6. /\ Len(new) = Len(history) + 1 - 1
          /\ \A n \in 1..(Len(history) - 1) : new[n] = history[n + 1]
      BY <3>3, <3>4, <3>5
    <3>7. 1 \in {0, 1} /\ 1 <= Len(history)
      BY <3>3
    <3> QED BY <3>5, <3>6, <3>7
  <2> QED BY <2>1, <2>2
<1>2. PICK d \in {0, 1} : /\ new \in Seq(Report)
                          /\ Len(new) = Len(history) + 1 - d
                          /\ d <= Len(history)
                          /\ new[Len(new)] = r
                          /\ \A n \in 1..(Len(history) - d) : new[n] = history[n + d]
  BY <1>1
<1>3. Len(history) \in Nat /\ Len(new) \in Nat
  BY <1>2
<1> HIDE DEF new
<1>4. ASSUME NEW n \in 1..Len(new), NEW series \in Account \X Scope, Newest(new, n, series)
      PROVE  \/ series = SeriesOf(r) /\ new[n] = r
             \/ /\ series # SeriesOf(r)
                /\ \E k \in 1..Len(history) : Newest(history, k, series) /\ history[k] = new[n]
  <2>1. CASE n = Len(new)
    BY <2>1, <1>2, <1>4 DEF Newest
  <2>2. CASE n # Len(new)
    <3>1. Len(new) \in (n + 1)..Len(new)
      BY <2>2, <1>3
    <3>2. series # SeriesOf(r)
      BY <3>1, <1>2, <1>4 DEF Newest
    <3>3. n + d \in 1..Len(history) /\ history[n + d] = new[n]
      BY <1>2, <1>3, <2>2
    <3>4. ASSUME NEW m \in (n + d + 1)..Len(history)
          PROVE  SeriesOf(history[m]) # series
      <4>1. m - d \in (n + 1)..Len(new) /\ m - d \in 1..(Len(history) - d) /\ (m - d) + d = m
        BY <3>4, <1>2, <1>3
      <4>2. new[m - d] = history[m]
        BY <4>1, <1>2
      <4> QED BY <4>1, <4>2, <1>4 DEF Newest
    <3>5. Newest(history, n + d, series)
      BY <3>3, <3>4, <1>4 DEF Newest
    <3> QED BY <3>2, <3>3, <3>5
  <2> QED BY <2>1, <2>2
<1> QED BY <1>2, <1>4 DEF new

\* So an append of a report that is believed, or whose series is forgotten, is harmless.
LEMMA AppendIsRight ==
  ASSUME TypeOK, NEW r \in Report, NEW p, NEW q, NEW t,
         Right(history, q, told),
         \A series \in Account \X Scope : series # SeriesOf(r) =>
           /\ t[series] = told[series]
           /\ p # Nothing => p = q \/ SeriesOf(p) = SeriesOf(r),
         t[SeriesOf(r)] = "unknown" \/
           /\ t[SeriesOf(r)] = LevelOf(r) /\ LevelOf(r) \in LevelSaid
           /\ p # Nothing => p = r
  PROVE  Right(Appended(r), p, t)
<1> SUFFICES ASSUME NEW series \in Account \X Scope, t[series] # "unknown"
             PROVE  /\ t[series] \in LevelSaid
                    /\ \A n \in 1..Len(Appended(r)) :
                         Newest(Appended(r), n, series) => LevelOf(Appended(r)[n]) = t[series]
                    /\ p # Nothing /\ SeriesOf(p) = series => LevelOf(p) = t[series]
  BY DEF Right
<1>1. history \in Seq(Report)
  BY DEF TypeOK
<1>2. \A n \in 1..Len(Appended(r)) : Newest(Appended(r), n, series) =>
        \/ series = SeriesOf(r) /\ Appended(r)[n] = r
        \/ /\ series # SeriesOf(r)
           /\ \E k \in 1..Len(history) :
                Newest(history, k, series) /\ history[k] = Appended(r)[n]
  BY <1>1, AppendKeepsNewest
<1>3. CASE series = SeriesOf(r)
  BY <1>2, <1>3
<1>4. CASE series # SeriesOf(r)
  <2>1. /\ told[series] \in LevelSaid
        /\ \A n \in 1..Len(history) : Newest(history, n, series) => LevelOf(history[n]) = told[series]
        /\ q # Nothing /\ SeriesOf(q) = series => LevelOf(q) = told[series]
    BY <1>4 DEF Right
  <2> QED BY <2>1, <1>2, <1>4
<1> QED BY <1>3, <1>4

-----------------------------------------------------------------------------
(* The inductive invariant *)

LEMMA InitRight == Init => IInv
<1> SUFFICES ASSUME Init PROVE IInv
  OBVIOUS
<1>1. history = <<>> /\ history \in Seq(Report)
  BY DEF Init
<1>2. \A series \in Account \X Scope : told[series] = "unknown"
  BY DEF Init
<1>3. TypeOK
  BY <1>1 DEF Init, TypeOK
<1>4. Right(history, previous, told)
  BY <1>2 DEF Right
<1> QED BY <1>3, <1>4 DEF IInv

\* A start: the baseline is the newest sample of its series.
LEMMA StartRight == IInv /\ Start => IInv'
<1> SUFFICES ASSUME IInv, Start PROVE IInv'
  OBVIOUS
<1>1. TypeOK /\ Right(history, previous, told)
  BY DEF IInv
<1>2. PICK a \in Account, r \in Report \cup {Nothing} :
        IsLatest(r, <<a, scope'>>) /\ previous' = r
  BY DEF Start
<1>3. TypeOK'
  BY <1>1, <1>2 DEF Start, TypeOK
<1>4. ASSUME NEW series \in Account \X Scope, told[series] # "unknown",
             r # Nothing, SeriesOf(r) = series
      PROVE  LevelOf(r) = told[series]
  <2>1. PICK n \in 1..Len(history) :
          /\ r = history[n] /\ IsOf(n, <<a, scope'>>)
          /\ \A m \in (n + 1)..Len(history) : ~IsOf(m, <<a, scope'>>)
    BY <1>2, <1>4 DEF IsLatest
  <2>2. Newest(history, n, series)
    BY <2>1, <1>4 DEF Newest, IsOf
  <2> QED BY <2>1, <2>2, <1>1, <1>4 DEF Right
<1>5. Right(history, r, told)
  BY <1>1, <1>4 DEF Right
<1>6. history' = history /\ told' = told
  BY DEF Start
<1> QED BY <1>2, <1>3, <1>5, <1>6 DEF IInv

\* What a check lets a follower believe is the level of its report.
LEMMA TellIsRight ==
  ASSUME IInv, NEW r \in Report, Tell(r, SignalOf(previous, r))
  PROVE  /\ told' \in [Account \X Scope -> PressureLevel \cup {"unknown"}]
         /\ \A series \in Account \X Scope : series # SeriesOf(r) => told'[series] = told[series]
         /\ \/ told'[SeriesOf(r)] = "unknown"
            \/ told'[SeriesOf(r)] = LevelOf(r) /\ LevelOf(r) \in LevelSaid
<1> DEFINE s == SignalOf(previous, r)
           own == SeriesOf(r)
           now == IF s.kind \in Entered \cup Recovered THEN Says[s.kind]
                  ELSE IF Comparable(previous, r) /\ LevelOf(r) # "unconfigured" THEN told[own]
                  ELSE "unknown"
<1>1. TypeOK /\ Right(history, previous, told)
  BY DEF IInv
<1>2. own \in Account \X Scope /\ LevelOf(r) \in PressureLevel
  BY ReportFacts
<1>3. told' = [told EXCEPT ![own] = now]
  BY DEF Tell
<1>4. told \in [Account \X Scope -> PressureLevel \cup {"unknown"}]
  BY <1>1 DEF TypeOK
<1>5. \/ now = "unknown"
      \/ now = LevelOf(r) /\ LevelOf(r) \in LevelSaid
  <2>1. Comparable(previous, r) =>
          /\ LevelOf(previous) \in PressureLevel /\ previous # Nothing
          /\ SeriesOf(previous) = own
    BY <1>1, ReportFacts DEF Comparable, TypeOK
  <2>2. CASE s.kind \in Entered \cup Recovered
    <3>1. /\ Comparable(previous, r) /\ LevelOf(previous) # LevelOf(r)
          /\ s.kind = Kind(LevelOf(previous), LevelOf(r))
      BY <2>2, SignalType
    <3> QED BY <3>1, <2>1, <2>2, <1>2, SaysNewLevel
  <2>3. CASE /\ s.kind \notin Entered \cup Recovered
             /\ Comparable(previous, r) /\ LevelOf(r) # "unconfigured"
    <3>1. now = told[own]
      BY <2>3
    <3>2. told[own] # "unknown" => told[own] \in LevelSaid /\ LevelOf(previous) = told[own]
      BY <2>1, <2>3, <1>1, <1>2 DEF Right
    <3>3. LevelOf(previous) # LevelOf(r) => LevelOf(previous) = "unconfigured"
      BY <2>1, <2>3, <1>2, SignalType, UnsaidChange
    <3> QED BY <3>1, <3>2, <3>3 DEF LevelSaid
  <2>4. CASE /\ s.kind \notin Entered \cup Recovered
             /\ ~(Comparable(previous, r) /\ LevelOf(r) # "unconfigured")
    BY <2>4
  <2> QED BY <2>2, <2>3, <2>4
<1> HIDE DEF now, own, s
<1>6. now \in PressureLevel \cup {"unknown"}
  BY <1>2, <1>5
<1>7. told' \in [Account \X Scope -> PressureLevel \cup {"unknown"}]
  BY <1>3, <1>4, <1>6
<1>8. \A series \in Account \X Scope : series # own => told'[series] = told[series]
  BY <1>3, <1>4
<1>9. told'[own] = now
  BY <1>2, <1>3, <1>4
<1> QED BY <1>5, <1>7, <1>8, <1>9 DEF own

\* A notification is a signal that says something.
LEMMA NotifyType ==
  ASSUME TypeOK, NEW s \in Signal, Notify(s)
  PROVE  signal' \in Signal \cup {Nothing} /\ (signal' # Nothing => signal'.kind # "none")
BY DEF TypeOK, Notify

LEMMA CheckRight == IInv /\ Check => IInv'
<1> SUFFICES ASSUME IInv, Check PROVE IInv'
  OBVIOUS
<1>1. TypeOK /\ Right(history, previous, told)
  BY DEF IInv
<1>2. PICK r \in Scanned : LET s == SignalOf(previous, r)
                           IN /\ history' = Appended(r) /\ previous' = r
                              /\ Notify(s) /\ Tell(r, s)
  BY DEF Check
<1>3. r \in Report
  BY DEF Scanned
<1>4. /\ told' \in [Account \X Scope -> PressureLevel \cup {"unknown"}]
      /\ \A series \in Account \X Scope : series # SeriesOf(r) => told'[series] = told[series]
      /\ \/ told'[SeriesOf(r)] = "unknown"
         \/ told'[SeriesOf(r)] = LevelOf(r) /\ LevelOf(r) \in LevelSaid
  BY <1>2, <1>3, TellIsRight
<1>5. history' \in Seq(Report)
  BY <1>1, <1>2, <1>3, AppendKeepsNewest DEF TypeOK
<1>6. signal' \in Signal \cup {Nothing} /\ (signal' # Nothing => signal'.kind # "none")
  BY <1>1, <1>2, SignalType, NotifyType
<1>7. pc' = "sleep" /\ scope' = scope /\ thresholds' = thresholds
  BY DEF Check
<1>8. TypeOK'
  BY <1>1, <1>2, <1>3, <1>4, <1>5, <1>6, <1>7 DEF TypeOK
<1>9. Right(Appended(r), r, told')
  BY <1>1, <1>3, <1>4, AppendIsRight
<1> QED BY <1>2, <1>8, <1>9 DEF IInv

LEMMA FailRight == IInv /\ Fail => IInv'
<1> SUFFICES ASSUME IInv, Fail PROVE IInv'
  OBVIOUS
<1> DEFINE s == [kind |-> "monitoring_failure", changed |-> FALSE]
<1>1. TypeOK /\ Right(history, previous, told)
  BY DEF IInv
<1>2. s \in Signal /\ Notify(s)
  BY DEF Fail, Signal, SignalKind
<1>3. signal' \in Signal \cup {Nothing} /\ (signal' # Nothing => signal'.kind # "none")
  BY <1>1, <1>2, NotifyType
<1>4. TypeOK'
  BY <1>1, <1>3 DEF Fail, TypeOK
<1> QED BY <1>1, <1>4 DEF Fail, IInv

LEMMA IdleRight == IInv /\ (Wake \/ Stop \/ UNCHANGED vars) => IInv'
<1> SUFFICES ASSUME IInv, Wake \/ Stop \/ UNCHANGED vars PROVE IInv'
  OBVIOUS
<1>1. TypeOK /\ Right(history, previous, told)
  BY DEF IInv
<1>2. TypeOK'
  BY <1>1 DEF TypeOK, Wake, Stop, Off, vars, scheduler
<1>3. /\ history' = history /\ told' = told
      /\ previous' # Nothing => previous' = previous
  BY DEF Wake, Stop, Off, vars, scheduler
<1>4. Right(history', previous', told')
  BY <1>1, <1>3 DEF Right
<1> QED BY <1>2, <1>4 DEF IInv

\* A sample nobody signalled: the follower forgets its series.
LEMMA SilentSampleRight == IInv /\ (KillUntold \/ Once) => IInv'
<1> SUFFICES ASSUME IInv, KillUntold \/ Once PROVE IInv'
  OBVIOUS
<1>1. TypeOK /\ Right(history, previous, told)
  BY DEF IInv
<1>2. PICK r \in Report : history' = Appended(r) /\ Forget(SeriesOf(r))
  BY DEF KillUntold, Once, Scanned
<1>3. SeriesOf(r) \in Account \X Scope
  BY ReportFacts
<1>4. told \in [Account \X Scope -> PressureLevel \cup {"unknown"}]
  BY <1>1 DEF TypeOK
<1>5. /\ told' \in [Account \X Scope -> PressureLevel \cup {"unknown"}]
      /\ told'[SeriesOf(r)] = "unknown"
      /\ \A series \in Account \X Scope : series # SeriesOf(r) => told'[series] = told[series]
  BY <1>2, <1>3, <1>4 DEF Forget
<1>6. previous' # Nothing => previous' = previous
  BY DEF KillUntold, Once, Off, scheduler
<1>7. history' \in Seq(Report)
  BY <1>1, <1>2, AppendKeepsNewest DEF TypeOK
<1>8. TypeOK'
  <2>1. CASE KillUntold
    BY <2>1, <1>1, <1>5, <1>7 DEF TypeOK, KillUntold, Off
  <2>2. CASE Once
    BY <2>2, <1>1, <1>5, <1>7 DEF TypeOK, Once, scheduler
  <2> QED BY <2>1, <2>2
<1>9. Right(Appended(r), previous', told')
  BY <1>1, <1>5, <1>6, AppendIsRight
<1> QED BY <1>2, <1>8, <1>9 DEF IInv

LEMMA DamageRight == IInv /\ Damage => IInv'
<1> SUFFICES ASSUME IInv, Damage PROVE IInv'
  OBVIOUS
<1>1. TypeOK /\ Right(history, previous, told)
  BY DEF IInv
<1>2. PICK n \in 1..Len(history) :
        /\ history' = SubSeq(history, 1, n - 1) \o SubSeq(history, n + 1, Len(history))
        /\ Forget(SeriesOf(history[n]))
  BY DEF Damage
<1> DEFINE r == history[n]
           before == SubSeq(history, 1, n - 1)
           after == SubSeq(history, n + 1, Len(history))
<1>3. /\ history \in Seq(Report) /\ Len(history) \in Nat /\ n \in Nat /\ r \in Report
      /\ told \in [Account \X Scope -> PressureLevel \cup {"unknown"}]
  BY <1>1 DEF TypeOK
<1>4. /\ before \in Seq(Report) /\ Len(before) = n - 1
      /\ \A k \in 1..(n - 1) : before[k] = history[k]
  BY <1>3
<1>5. /\ after \in Seq(Report) /\ Len(after) = Len(history) - n
      /\ \A k \in 1..(Len(history) - n) : after[k] = history[n + k]
  <2>1. \A k \in (n + 1)..Len(history) : history[k] \in Report
    BY <1>3
  <2> QED BY <1>3, <2>1
<1> HIDE DEF before, after
<1>6. /\ history' \in Seq(Report) /\ Len(history') = Len(history) - 1
      /\ \A k \in 1..(n - 1) : history'[k] = history[k]
      /\ \A k \in n..(Len(history) - 1) : history'[k] = history[k + 1]
  <2>1. history' = before \o after
    BY <1>2 DEF before, after
  <2>2. history' \in Seq(Report) /\ Len(history') = Len(history) - 1
    BY <2>1, <1>3, <1>4, <1>5
  <2>3. \A k \in 1..(n - 1) : history'[k] = history[k]
    BY <2>1, <1>3, <1>4, <1>5
  <2>4. ASSUME NEW k \in n..(Len(history) - 1) PROVE history'[k] = history[k + 1]
    <3>1. /\ k \in 1..(Len(before) + Len(after)) /\ ~(k <= Len(before))
          /\ k - Len(before) \in 1..(Len(history) - n) /\ n + (k - Len(before)) = k + 1
      BY <1>3, <1>4, <1>5, <2>4
    <3>2. history'[k] = after[k - Len(before)]
      BY <3>1, <2>1, <1>4, <1>5, InTheSecond
    <3> DEFINE j == k - Len(before)
    <3>3. j \in 1..(Len(history) - n) /\ n + j = k + 1 /\ history'[k] = after[j]
      BY <3>1, <3>2
    <3> HIDE DEF j
    <3>4. after[j] = history[n + j]
      BY <3>3, <1>5
    <3> QED BY <3>3, <3>4
  <2> QED BY <2>2, <2>3, <2>4
<1>7. SeriesOf(r) \in Account \X Scope
  BY <1>3, ReportFacts
<1>8. /\ told' \in [Account \X Scope -> PressureLevel \cup {"unknown"}]
      /\ told'[SeriesOf(r)] = "unknown"
      /\ \A series \in Account \X Scope : series # SeriesOf(r) => told'[series] = told[series]
  BY <1>2, <1>3, <1>7 DEF Forget
<1>9. TypeOK'
  BY <1>1, <1>6, <1>8 DEF TypeOK, Damage, scheduler
<1>10. previous' = previous
  BY DEF Damage, scheduler
<1>11. ASSUME NEW series \in Account \X Scope, told'[series] # "unknown",
              NEW k \in 1..Len(history'), Newest(history', k, series)
       PROVE  LevelOf(history'[k]) = told'[series]
  <2>1. series # SeriesOf(r) /\ told'[series] = told[series]
    BY <1>8, <1>11
  <2> DEFINE at == IF k < n THEN k ELSE k + 1
  <2>2. at \in 1..Len(history) /\ history'[k] = history[at]
    BY <1>3, <1>6
  <2>3. ASSUME NEW m \in (at + 1)..Len(history), SeriesOf(history[m]) = series
        PROVE  FALSE
    <3>1. m # n
      BY <2>1, <2>3
    <3>2. CASE m < n
      <4>1. m \in (k + 1)..Len(history') /\ m \in 1..(n - 1)
        BY <3>2, <1>3, <1>6, <2>3
      <4> QED BY <4>1, <1>6, <1>11, <2>3 DEF Newest
    <3>3. CASE m > n
      <4>1. m - 1 \in (k + 1)..Len(history') /\ m - 1 \in n..(Len(history) - 1) /\ (m - 1) + 1 = m
        BY <3>3, <1>3, <1>6, <2>3
      <4>2. history'[m - 1] = history[m]
        BY <4>1, <1>6
      <4> QED BY <4>1, <4>2, <1>11, <2>3 DEF Newest
    <3>4. m \in Nat /\ n \in Nat
      BY <1>3, <2>2, <2>3
    <3> QED BY <3>1, <3>2, <3>3, <3>4
  <2>4. Newest(history, at, series)
    BY <2>2, <2>3, <1>11 DEF Newest
  <2> QED BY <2>1, <2>2, <2>4, <1>1, <1>11 DEF Right
<1>12. Right(history', previous', told')
  <2> SUFFICES ASSUME NEW series \in Account \X Scope, told'[series] # "unknown"
               PROVE  /\ told'[series] \in LevelSaid
                      /\ previous # Nothing /\ SeriesOf(previous) = series =>
                           LevelOf(previous) = told'[series]
    BY <1>10, <1>11 DEF Right
  <2>1. told'[series] = told[series]
    BY <1>8
  <2> QED BY <2>1, <1>1 DEF Right
<1> QED BY <1>9, <1>12 DEF IInv

LEMMA Inductive == Spec => []IInv
<1>1. Init => IInv
  BY InitRight
<1>2. IInv /\ [Next]_vars => IInv'
  BY StartRight, CheckRight, FailRight, IdleRight, SilentSampleRight, DamageRight DEF Next
<1> QED BY <1>1, <1>2, PTL DEF Spec

-----------------------------------------------------------------------------
(* Theorems *)

\* The types; a scheduler that is off remembers nothing, and the last notification
\* of the status was one (update_status_for_monitoring_event).
THEOREM TypeCorrect == Spec => []TypeOK
<1>1. IInv => TypeOK
  BY DEF IInv
<1> QED BY <1>1, Inductive, PTL

\* Who follows the signals is right or knows that he cannot tell (the order of
\* persist, compare and signal in MonitoringScheduler::run, and the baseline of a start).
THEOREM FollowersAreRight == Spec => []FollowerIsRight
<1>1. IInv => FollowerIsRight
  <2> SUFFICES ASSUME IInv, previous # Nothing,
                      told[SeriesOf(previous)] # "unknown"
               PROVE  told[SeriesOf(previous)] = LevelOf(previous)
    BY DEF FollowerIsRight
  <2>1. previous \in Report /\ SeriesOf(previous) \in Account \X Scope
    BY ReportFacts DEF IInv, TypeOK
  <2> QED BY <2>1 DEF IInv, Right
<1> QED BY <1>1, Inductive, PTL

\* A signal that does not blame the thresholds is about bytes (evaluate_pressure_transition).
THEOREM AllSignalsMeanMovement == Spec => SignalsMeanMovement
<1> DEFINE Moves == signal' \notin {signal, Nothing} /\ ~signal'.changed =>
                      /\ signal'.kind \in Entered   => previous'.total > previous.total
                      /\ signal'.kind \in Recovered => previous'.total < previous.total
<1>1. IInv /\ [Next]_vars => [Moves]_vars
  <2> SUFFICES ASSUME IInv, Next, signal' \notin {signal, Nothing}, ~signal'.changed,
                      signal'.kind \in Entered \cup Recovered
               PROVE  /\ signal'.kind \in Entered   => previous'.total > previous.total
                      /\ signal'.kind \in Recovered => previous'.total < previous.total
    OBVIOUS
  <2>1. ~Fail
    BY DEF Fail, Notify, Entered, Recovered
  <2>2. Check
    BY <2>1 DEF Next, Start, Wake, Stop, KillUntold, Once, Damage, Off, scheduler
  <2>3. PICK r \in Scanned : previous' = r /\ Notify(SignalOf(previous, r))
    BY <2>2 DEF Check
  <2>4. signal' = SignalOf(previous, r)
    BY <2>3 DEF Notify
  <2>5. /\ Comparable(previous, r) /\ LevelOf(previous) # LevelOf(r)
        /\ signal'.kind = Kind(LevelOf(previous), LevelOf(r))
        /\ ~ThresholdsChanged(previous, r)
    BY <2>4, SignalType
  <2>6. previous \in Report /\ r \in Report
    BY <2>5 DEF IInv, TypeOK, Comparable, Scanned
  <2>7. previous.thresholds = r.thresholds
    <3>1. /\ previous.thresholds \in [warning : (Nat \ {0}) \cup {Unset},
                                      critical : (Nat \ {0}) \cup {Unset}]
          /\ r.thresholds \in [warning : (Nat \ {0}) \cup {Unset},
                               critical : (Nat \ {0}) \cup {Unset}]
      BY <2>6, ThresholdAssumption DEF Report, ThresholdAssumption
    <3> QED BY <3>1, <2>5 DEF ThresholdsChanged
  <2>8. /\ previous.thresholds \in Threshold /\ previous.total \in Total /\ r.total \in Total
    BY <2>6 DEF Report
  <2> QED BY <2>3, <2>5, <2>7, <2>8, LevelsMeanBytes DEF LevelOf
<1> QED BY <1>1, Inductive, PTL DEF Spec, SignalsMeanMovement

-----------------------------------------------------------------------------
(* The inductive invariant of the usage polling *)

InCycle == loop \in {"poll", "persist", "notify", "sleep"}

\* Those of the cycle's owners who are still to be polled are those who have not
\* been asked for.
OwnersAreAsked ==
  /\ loop \in {"off", "sleep"} => owners = {}
  /\ owners \subseteq UniqueBillingOwners(config.allowances)
  /\ \A o \in Owner : asked[o] \in {0, 1}
  /\ InCycle => \A o \in Owner :
       asked[o] = 1 <=> \E n \in UniqueBillingOwners(config.allowances) \ owners :
                          Folded[config.allowances[n].owner] = o

\* The observation is of the cycle's month, spells its owner as the configuration
\* does first, and says what was listed.
ObservedIsListed ==
  loop \in {"persist", "notify"} =>
    /\ observed \in Observation
    /\ observed.available => observed.items = listed
    /\ observed.period = period
    /\ \E n \in UniqueBillingOwners(config.allowances) :
         observed.owner = config.allowances[n].owner

DueIsObserved ==
  /\ loop = "notify" => recorded
  /\ loop # "notify" => due = {}
  /\ due \subseteq AllCandidates(observed)

\* The receipt of a limit is spelled as the configuration of its time spells it.
ToldHasReceipt ==
  \A t \in notified : \E k \in receipts :
    /\ Limit(k) = t.limit
    /\ \E n \in UniqueBillingOwners(t.config.allowances) :
         k.owner = t.config.allowances[n].owner

UsageInv ==
  /\ UsageTypeOK /\ OwnersAreAsked /\ ObservedIsListed /\ DueIsObserved
  /\ ToldHasReceipt /\ ToldOnceAsConfigured

-----------------------------------------------------------------------------
(* Owners and their spellings *)

\* Every set of numbers that is not empty has a least one.
LEMMA LeastOf ==
  ASSUME NEW T, T \subseteq Nat, T # {}
  PROVE  \E m \in T : \A n \in T : m <= n
<1> DEFINE R == {ss \in Nat \X Nat : ss[1] < ss[2]}
<1>1. IsWellFoundedOn(R, Nat)
  BY NatLessThanWellFounded DEF OpToRel
<1>2. \A x, y \in Nat : x < y => <<x, y>> \in R
  OBVIOUS
<1> HIDE DEF R
<1>3. PICK m \in T : \A n \in T : ~ (<<n, m>> \in R)
  BY <1>1, WFMin, Zenon
<1>4. ASSUME NEW n \in T PROVE m <= n
  <2>1. ~ (n < m)
    BY <1>2, <1>3
  <2>2. m \in Nat /\ n \in Nat
    OBVIOUS
  <2> QED
    BY <2>1, <2>2
<1> QED
  BY <1>4

\* No owner is among the billing owners twice.
LEMMA OwnersAreUnique ==
  ASSUME NEW s \in Seq(Allowance), NEW m \in UniqueBillingOwners(s),
         NEW n \in UniqueBillingOwners(s), Folded[s[m].owner] = Folded[s[n].owner]
  PROVE  m = n
<1>1. m \in 1..Len(s) /\ n \in 1..Len(s)
  BY DEF UniqueBillingOwners
<1>2. ~ (m < n) /\ ~ (n < m)
  BY <1>1 DEF UniqueBillingOwners, SameBillingOwner
<1> QED
  BY <1>1, <1>2

\* And every owner is, where it is named first.
LEMMA OwnersAreAll ==
  ASSUME NEW s \in Seq(Allowance), NEW n \in DOMAIN s
  PROVE  \E m \in UniqueBillingOwners(s) : Folded[s[m].owner] = Folded[s[n].owner]
<1> DEFINE T == {m \in DOMAIN s : Folded[s[m].owner] = Folded[s[n].owner]}
<1>1. T \subseteq Nat /\ T # {}
  OBVIOUS
<1>2. PICK m \in T : \A k \in T : m <= k
  BY <1>1, LeastOf
<1>3. ASSUME NEW k \in 1..(m - 1) PROVE ~ SameBillingOwner(s[k].owner, s[m].owner)
  <2>1. k \in DOMAIN s /\ ~ (m <= k)
    BY <1>2
  <2>2. k \notin T
    BY <1>2, <2>1
  <2> QED
    BY <2>1, <2>2 DEF SameBillingOwner
<1> QED
  BY <1>2, <1>3 DEF UniqueBillingOwners

LEMMA Configured ==
  ASSUME UsageTypeOK
  PROVE  /\ config.allowances \in Seq(Allowance) /\ file.allowances \in Seq(Allowance)
         /\ \A n \in DOMAIN config.allowances : config.allowances[n] \in Allowance
         /\ \A n \in DOMAIN config.allowances :
              /\ config.allowances[n].owner \in Login
              /\ Folded[config.allowances[n].owner] \in Owner
         /\ UniqueBillingOwners(config.allowances) \subseteq DOMAIN config.allowances
         /\ DOMAIN config.allowances \subseteq Nat
<1>1. config.allowances \in Seq(Allowance) /\ file.allowances \in Seq(Allowance)
  BY UsageAssumption DEF UsageTypeOK
<1>2. \A n \in DOMAIN config.allowances : config.allowances[n] \in Allowance
  BY <1>1
<1>3. \A n \in DOMAIN config.allowances :
        /\ config.allowances[n].owner \in Login
        /\ Folded[config.allowances[n].owner] \in Owner
  BY <1>2, UsageAssumption DEF Allowance
<1> QED
  BY <1>1, <1>2, <1>3 DEF UniqueBillingOwners

\* What the provider is believed to say is what it has for that owner and month.
LEMMA BelievedIsListed ==
  ASSUME UsageTypeOK, NEW login \in Login, NEW of \in Month,
         NEW o \in BillingUsageSummary(login, of)
  PROVE  /\ o \in Observation /\ o.owner = login /\ o.period = of
         /\ o.available => o.items = bill[Folded[login]][of]
<1>1. Folded[login] \in Owner
  BY UsageAssumption
<1>2. CASE o = Unknown(login, of)
  BY <1>2, UsageAssumption DEF Unknown, Observation
<1>3. ASSUME NEW answer \in Answers(login, of), Accepted(answer, login, of),
             o = [owner |-> login, period |-> of, available |-> TRUE, items |-> answer.items]
      PROVE  /\ o \in Observation /\ o.owner = login /\ o.period = of
             /\ o.items = bill[Folded[login]][of]
  <2>1. answer.items = bill[Folded[login]][of]
    BY <1>3 DEF Answers, Accepted
  <2>2. bill[Folded[login]][of] \in Bills
    BY <1>1 DEF UsageTypeOK
  <2> QED
    BY <1>3, <2>1, <2>2 DEF Observation
<1> QED
  BY <1>2, <1>3 DEF BillingUsageSummary

-----------------------------------------------------------------------------
(* Initially, and every step *)

LEMMA InitUsageInv == UsageInit => UsageInv
<1> SUFFICES ASSUME UsageInit PROVE UsageInv
  OBVIOUS
<1>1. config = Default /\ Default \in Configs /\ DOMAIN config.allowances = {}
  BY UsageAssumption DEF UsageInit, Default
<1>2. UsageTypeOK
  <2>1. bill \in [Owner -> [Month -> Bills]] /\ listed \in Bills
    BY UsageAssumption DEF UsageInit
  <2>2. month \in Month /\ period \in Month /\ period <= month /\ moves \in 0..MaxMoves
    BY UsageAssumption DEF UsageInit, Month
  <2>3. asked \in [Owner -> Nat] /\ file \in Configs /\ config \in Configs
    BY <1>1 DEF UsageInit
  <2> QED
    BY <2>1, <2>2, <2>3 DEF UsageInit, UsageTypeOK
<1>3. /\ OwnersAreAsked /\ ObservedIsListed /\ DueIsObserved /\ ToldHasReceipt
      /\ ToldOnceAsConfigured
  BY <1>1 DEF UsageInit, OwnersAreAsked, ObservedIsListed, DueIsObserved, ToldHasReceipt,
              ToldOnceAsConfigured, InCycle
<1> QED
  BY <1>2, <1>3 DEF UsageInv

LEMMA StartKeepsUsage == ASSUME UsageInv, StartPolling PROVE UsageInv'
<1>1. /\ loop = "off" /\ loop' = "check" /\ config' \in Configs
      /\ UNCHANGED <<period, owners, asked, observed, listed, recorded, due, receipts,
                     notified, twice, bill, month, file, moves>>
  BY DEF StartPolling, Goto, poll, alerts, world, Load, UsageInv, UsageTypeOK
<1>2. owners = {} /\ due = {}
  BY <1>1 DEF UsageInv, OwnersAreAsked, DueIsObserved
<1>3. UsageTypeOK'
  BY <1>1, <1>2 DEF UsageInv, UsageTypeOK
<1>4. (OwnersAreAsked /\ ObservedIsListed /\ DueIsObserved)'
  BY <1>1, <1>2 DEF UsageInv, OwnersAreAsked, ObservedIsListed, DueIsObserved, InCycle
<1>5. (ToldHasReceipt /\ ToldOnceAsConfigured)'
  BY <1>1 DEF UsageInv, ToldHasReceipt, ToldOnceAsConfigured
<1> QED
  BY <1>3, <1>4, <1>5 DEF UsageInv

LEMMA BeginCycleKeepsUsage == ASSUME UsageInv, BeginCycle PROVE UsageInv'
<1>1. /\ loop \in {"check", "sleep"} /\ loop' = "poll" /\ period' = month
      /\ owners' = UniqueBillingOwners(config.allowances)
      /\ asked' = [o \in Owner |-> 0]
      /\ UNCHANGED <<config, observed, listed, recorded, due, receipts,
                     notified, twice, bill, month, file, moves>>
  BY DEF BeginCycle, Goto, poll, alerts, world
<1>2. due = {}
  BY <1>1 DEF UsageInv, DueIsObserved
<1>3. UsageTypeOK'
  BY <1>1, <1>2, Configured DEF UsageInv, UsageTypeOK, Month
<1>4. (OwnersAreAsked /\ ObservedIsListed /\ DueIsObserved)'
  BY <1>1, <1>2 DEF OwnersAreAsked, ObservedIsListed, DueIsObserved, InCycle
<1>5. (ToldHasReceipt /\ ToldOnceAsConfigured)'
  BY <1>1 DEF UsageInv, ToldHasReceipt, ToldOnceAsConfigured
<1> QED
  BY <1>3, <1>4, <1>5 DEF UsageInv

LEMMA PollKeepsUsage == ASSUME UsageInv, Poll PROVE UsageInv'
<1>0. UsageTypeOK /\ OwnersAreAsked
  BY DEF UsageInv
<1>1. /\ loop = "poll" /\ loop' = "persist" /\ recorded' = FALSE
      /\ UNCHANGED <<config, period, due, receipts, notified, twice, bill, month, file, moves>>
  BY DEF Poll, Goto, alerts, world
<1>2. PICK n \in owners :
        /\ observed' \in BillingUsageSummary(config.allowances[n].owner, period)
        /\ listed' = bill[Folded[config.allowances[n].owner]][period]
        /\ owners' = owners \ {n}
        /\ asked' = [asked EXCEPT ![Folded[config.allowances[n].owner]] = @ + 1]
  BY DEF Poll
<1> DEFINE login == config.allowances[n].owner
           U == UniqueBillingOwners(config.allowances)
<1>3. /\ n \in U /\ n \in DOMAIN config.allowances /\ login \in Login /\ Folded[login] \in Owner
      /\ due = {} /\ U \subseteq DOMAIN config.allowances
      /\ config.allowances \in Seq(Allowance)
  BY <1>0, <1>1, Configured DEF OwnersAreAsked, UsageInv, DueIsObserved
<1>4. period \in Month
  BY <1>0 DEF UsageTypeOK
<1>5. /\ observed' \in Observation /\ observed'.owner = login /\ observed'.period = period
      /\ observed'.available => observed'.items = bill[Folded[login]][period]
  BY <1>0, <1>2, <1>3, <1>4, BelievedIsListed
<1>6. asked[Folded[login]] = 0
  <2>1. ~ \E m \in U \ owners : Folded[config.allowances[m].owner] = Folded[login]
    BY <1>2, <1>3, OwnersAreUnique
  <2> QED
    BY <1>0, <1>1, <1>3, <2>1 DEF OwnersAreAsked, InCycle
<1>7. UsageTypeOK'
  <2>1. bill[Folded[login]][period] \in Bills
    BY <1>0, <1>3, <1>4 DEF UsageTypeOK
  <2>2. asked' \in [Owner -> Nat]
    BY <1>0, <1>2, <1>3, <1>6 DEF UsageTypeOK
  <2> QED
    BY <1>0, <1>1, <1>2, <1>3, <1>5, <2>1, <2>2 DEF UsageTypeOK
<1>8. OwnersAreAsked'
  <2>1. owners' \subseteq U
    BY <1>0, <1>2 DEF OwnersAreAsked
  <2>2. ASSUME NEW o \in Owner
        PROVE  /\ asked'[o] \in {0, 1}
               /\ asked'[o] = 1 <=> \E m \in U \ owners' : Folded[config.allowances[m].owner] = o
    <3>1. /\ asked[o] \in {0, 1}
          /\ asked[o] = 1 <=> \E m \in U \ owners : Folded[config.allowances[m].owner] = o
      BY <1>0, <1>1 DEF OwnersAreAsked, InCycle
    <3>2. asked \in [Owner -> Nat]
      BY <1>0 DEF UsageTypeOK
    <3>3. U \ owners' = (U \ owners) \cup {n}
      BY <1>2, <1>3
    <3>4. CASE o = Folded[login]
      BY <1>2, <1>6, <3>2, <3>3, <3>4
    <3>5. CASE o # Folded[login]
      BY <1>2, <3>1, <3>2, <3>3, <3>5
    <3> QED
      BY <3>4, <3>5
  <2> QED
    BY <1>1, <2>1, <2>2 DEF OwnersAreAsked
<1>9. (ObservedIsListed /\ DueIsObserved)'
  BY <1>1, <1>2, <1>3, <1>5 DEF ObservedIsListed, DueIsObserved
<1>10. (ToldHasReceipt /\ ToldOnceAsConfigured)'
  BY <1>1 DEF UsageInv, ToldHasReceipt, ToldOnceAsConfigured
<1> QED
  BY <1>7, <1>8, <1>9, <1>10 DEF UsageInv

LEMMA PersistKeepsUsage == ASSUME UsageInv, Persist PROVE UsageInv'
<1>1. /\ loop = "persist"
      /\ UNCHANGED <<config, period, owners, asked, observed, listed, receipts,
                     notified, twice, bill, month, file, moves>>
      /\ \/ loop' = "notify" /\ recorded' = TRUE /\ due' = AllCandidates(observed)
         \/ loop' = "poll" /\ recorded' = recorded /\ due' = due
  BY DEF Persist, Goto, cycle, alerts, world
<1>2. due = {} /\ UsageTypeOK
  BY <1>1 DEF UsageInv, DueIsObserved
<1>3. AllCandidates(observed)' = AllCandidates(observed)
  BY <1>1 DEF AllCandidates, Candidates
<1>4. UsageTypeOK'
  BY <1>1, <1>2 DEF UsageTypeOK, AllCandidates
<1>5. (OwnersAreAsked /\ ObservedIsListed /\ DueIsObserved)'
  BY <1>1, <1>2, <1>3 DEF UsageInv, OwnersAreAsked, ObservedIsListed, DueIsObserved, InCycle
<1>6. (ToldHasReceipt /\ ToldOnceAsConfigured)'
  BY <1>1 DEF UsageInv, ToldHasReceipt, ToldOnceAsConfigured
<1> QED
  BY <1>4, <1>5, <1>6 DEF UsageInv

\* A candidate spells its owner as the configuration does first, and two keys of one
\* limit with the same spelling are the same key.
LEMMA DueIsSpelledFirst ==
  ASSUME UsageInv, NEW d \in due
  PROVE  /\ d.key \in Key
         /\ \E n \in UniqueBillingOwners(config.allowances) :
              d.key.owner = config.allowances[n].owner
<1>1. loop = "notify" /\ d \in AllCandidates(observed)
  BY DEF UsageInv, DueIsObserved
<1>2. d.key \in Key /\ d.key.owner = observed.owner
  BY <1>1 DEF AllCandidates, Candidates
<1> QED
  BY <1>1, <1>2 DEF UsageInv, ObservedIsListed

LEMMA NotifyKeepsUsage == ASSUME UsageInv, NotifyOwner PROVE UsageInv'
<1>0. UsageTypeOK /\ ToldHasReceipt /\ ToldOnceAsConfigured
  BY DEF UsageInv
<1>1. /\ loop = "notify"
      /\ UNCHANGED <<loop, config, period, owners, asked, observed, listed, recorded,
                     bill, month, file, moves>>
  BY DEF NotifyOwner, cycle, poll, world
<1>2. PICK d \in due :
        /\ due' = due \ {d}
        /\ \/ UNCHANGED <<receipts, notified, twice>>
           \/ /\ d.key \notin receipts
              /\ receipts' \in {receipts, receipts \cup {d.key}}
              /\ notified' = IF d.key \in receipts'
                            THEN notified \cup {[limit |-> Limit(d.key), config |-> config]}
                            ELSE notified
              /\ twice' = twice \cup
                   {[limit |-> t.limit, same |-> t.config = config] :
                      t \in {t \in notified : t.limit = Limit(d.key)}}
  BY DEF NotifyOwner, alerts
<1>3. PICK n \in UniqueBillingOwners(config.allowances) :
        d.key \in Key /\ d.key.owner = config.allowances[n].owner
  BY DueIsSpelledFirst
<1>4. d.key \notin receipts =>
        \A t \in notified : t.limit = Limit(d.key) => t.config # config
  <2> SUFFICES ASSUME d.key \notin receipts, NEW t \in notified, t.limit = Limit(d.key),
                      t.config = config
               PROVE  FALSE
    OBVIOUS
  <2>1. PICK k \in receipts, m \in UniqueBillingOwners(config.allowances) :
          Limit(k) = Limit(d.key) /\ k.owner = config.allowances[m].owner
    BY <1>0 DEF ToldHasReceipt
  <2>2. k \in Key
    BY <1>0 DEF UsageTypeOK
  <2>3. m = n
    <3>1. Folded[k.owner] = Folded[d.key.owner]
      BY <2>1 DEF Limit
    <3> QED
      BY <1>0, <1>3, <2>1, <3>1, OwnersAreUnique, Configured
  <2>4. k = d.key
    BY <1>3, <2>1, <2>2, <2>3 DEF Limit, Key
  <2> QED
    BY <2>4
<1>5. ToldOnceAsConfigured'
  <2>1. ASSUME NEW e \in twice' PROVE e \in twice \/ ~e.same
    <3>1. CASE e \notin twice
      <4>1. PICK t \in notified : /\ t.limit = Limit(d.key) /\ d.key \notin receipts
                                  /\ e = [limit |-> t.limit, same |-> t.config = config]
        BY <1>2, <2>1, <3>1
      <4>2. e.same = (t.config = config)
        BY <4>1
      <4> QED
        BY <1>4, <4>1, <4>2
    <3> QED
      BY <3>1
  <2> QED
    BY <1>0, <2>1 DEF ToldOnceAsConfigured
<1>6. ToldHasReceipt'
  <2> SUFFICES ASSUME NEW t \in notified'
               PROVE  \E k \in receipts' :
                        /\ Limit(k) = t.limit
                        /\ \E m \in UniqueBillingOwners(t.config.allowances) :
                             k.owner = t.config.allowances[m].owner
    BY DEF ToldHasReceipt, Limit, UniqueBillingOwners, SameBillingOwner
  <2>1. receipts \subseteq receipts'
    BY <1>2
  <2>2. CASE t \in notified
    BY <1>0, <2>1, <2>2 DEF ToldHasReceipt
  <2>3. CASE t \notin notified
    <3>1. d.key \in receipts' /\ t = [limit |-> Limit(d.key), config |-> config]
      BY <1>2, <2>3
    <3>2. t.limit = Limit(d.key) /\ t.config = config
      BY <3>1
    <3> QED
      BY <1>3, <3>1, <3>2
  <2> QED
    BY <2>2, <2>3
<1>7. UsageTypeOK'
  <2>1. due' \subseteq [at : DOMAIN config.allowances, key : Key] /\ receipts' \subseteq Key
    BY <1>0, <1>2, <1>3 DEF UsageTypeOK
  <2>2. notified' \subseteq [limit : {Limit(k) : k \in Key}, config : Configs]
    BY <1>0, <1>2, <1>3 DEF UsageTypeOK
  <2>3. twice' \subseteq [limit : {Limit(k) : k \in Key}, same : BOOLEAN]
    <3>1. \A t \in notified : t.limit = Limit(d.key) =>
            [limit |-> t.limit, same |-> t.config = config]
              \in [limit : {Limit(k) : k \in Key}, same : BOOLEAN]
      BY <1>3
    <3>2. twice \subseteq [limit : {Limit(k) : k \in Key}, same : BOOLEAN]
      BY <1>0 DEF UsageTypeOK
    <3>3. ASSUME NEW e \in twice', e \notin twice
          PROVE  e \in [limit : {Limit(k) : k \in Key}, same : BOOLEAN]
      <4>1. PICK t \in notified : /\ t.limit = Limit(d.key)
                                  /\ e = [limit |-> t.limit, same |-> t.config = config]
        BY <1>2, <3>3
      <4> QED
        BY <3>1, <4>1
    <3> QED
      BY <3>2, <3>3
  <2> QED
    BY <1>0, <1>1, <2>1, <2>2, <2>3 DEF UsageTypeOK, Limit
<1>8. (OwnersAreAsked /\ ObservedIsListed)'
  BY <1>1 DEF UsageInv, OwnersAreAsked, ObservedIsListed, InCycle
<1>9. DueIsObserved'
  <2>1. AllCandidates(observed)' = AllCandidates(observed)
    BY <1>1 DEF AllCandidates, Candidates
  <2> QED
    BY <1>1, <1>2, <2>1 DEF UsageInv, DueIsObserved
<1> QED
  BY <1>5, <1>6, <1>7, <1>8, <1>9 DEF UsageInv

\* The loop goes on to the next owner, the end of the cycle, or ends.
LEMMA LoopKeepsUsage == ASSUME UsageInv, NextOwner \/ EndCycle \/ StopPolling PROVE UsageInv'
<1>1. CASE NextOwner
  <2>1. loop = "notify" /\ loop' = "poll" /\ due = {} /\ UNCHANGED <<cycle, poll, due, alerts, world>>
    BY <1>1 DEF NextOwner, Goto
  <2> QED
    BY <2>1 DEF cycle, poll, alerts, world, UsageInv, UsageTypeOK, OwnersAreAsked, ObservedIsListed,
                DueIsObserved, ToldHasReceipt, ToldOnceAsConfigured, InCycle
<1>2. CASE EndCycle
  <2>1. /\ loop = "poll" /\ loop' = "sleep" /\ owners = {}
        /\ UNCHANGED <<cycle, poll, due, alerts, world>>
    BY <1>2 DEF EndCycle, Goto
  <2> QED
    BY <2>1 DEF cycle, poll, alerts, world, UsageInv, UsageTypeOK, OwnersAreAsked, ObservedIsListed,
                DueIsObserved, ToldHasReceipt, ToldOnceAsConfigured, InCycle
<1>3. CASE StopPolling
  <2>1. /\ loop' = "off" /\ owners' = {} /\ observed' = NoObservation /\ due' = {}
        /\ UNCHANGED <<config, period, asked, listed, recorded, alerts, world>>
    BY <1>3 DEF StopPolling, Goto
  <2> QED
    BY <2>1 DEF alerts, world, UsageInv, UsageTypeOK, OwnersAreAsked, ObservedIsListed,
                DueIsObserved, ToldHasReceipt, ToldOnceAsConfigured, InCycle
<1> QED
  BY <1>1, <1>2, <1>3

\* The month passes, a bill moves, the configuration is edited.
LEMMA WorldKeepsUsage ==
  ASSUME UsageInv, UNCHANGED <<loop, cycle, poll, due, alerts>>,
         NextMonth \/ Edit \/ \E o \in Owner, m \in Month : Bill(o, m)
  PROVE  UsageInv'
<1>0. UNCHANGED <<loop, config, period, owners, asked, observed, listed, recorded, due,
                  receipts, notified, twice>>
  BY DEF cycle, poll, alerts
<1>1. UsageTypeOK'
  <2>1. UsageTypeOK
    BY DEF UsageInv
  <2>0. /\ due' \subseteq [at : DOMAIN config'.allowances, key : Key]
        /\ notified' \subseteq [limit : {Limit(k) : k \in Key}, config : Configs]
        /\ twice' \subseteq [limit : {Limit(k) : k \in Key}, same : BOOLEAN]
        /\ owners' \subseteq DOMAIN config'.allowances
    BY <1>0, <2>1 DEF UsageTypeOK
  <2>5. /\ config' \in Configs /\ observed' \in Observation \cup {NoObservation}
        /\ loop' \in {"off", "check", "poll", "persist", "notify", "sleep"}
        /\ listed' \in Bills /\ recorded' \in BOOLEAN /\ receipts' \subseteq Key
        /\ asked' \in [Owner -> Nat] /\ period' = period /\ period \in Month
        /\ period <= month
    BY <1>0, <2>1 DEF UsageTypeOK
  <2>2. bill' \in [Owner -> [Month -> Bills]]
    <3>1. bill \in [Owner -> [Month -> Bills]]
      BY <2>1 DEF UsageTypeOK
    <3>2. CASE NextMonth \/ Edit
      BY <3>1, <3>2 DEF NextMonth, Edit
    <3>3. ASSUME NEW o \in Owner, NEW m \in Month, Bill(o, m)
          PROVE  bill' \in [Owner -> [Month -> Bills]]
      <4>1. PICK b \in Bills : bill' = [bill EXCEPT ![o][m] = b]
        BY <3>3 DEF Bill
      <4>2. [bill[o] EXCEPT ![m] = b] \in [Month -> Bills]
        BY <3>1
      <4> QED
        BY <3>1, <4>1, <4>2
    <3> QED
      BY <3>2, <3>3
  <2>3. month' \in Month /\ month <= month' /\ month \in Nat /\ period \in Nat
    <3>1. month \in 1..MaxMonth /\ period \in 1..MaxMonth /\ MaxMonth \in Nat
      BY <2>1, UsageAssumption DEF UsageTypeOK, Month
    <3>2. month' = month \/ (month < MaxMonth /\ month' = month + 1)
      BY DEF NextMonth, Edit, Bill
    <3> QED
      BY <3>1, <3>2 DEF Month
  <2>6. period' <= month'
    BY <2>3, <2>5
  <2>4. file' \in Configs /\ moves' \in 0..MaxMoves
    BY <2>1, UsageAssumption DEF UsageTypeOK, NextMonth, Edit, Bill
  <2> QED
    BY <2>0, <2>5, <2>2, <2>3, <2>6, <2>4 DEF UsageTypeOK
<1>2. AllCandidates(observed)' = AllCandidates(observed)
  BY <1>0 DEF AllCandidates, Candidates
<1>3. (OwnersAreAsked /\ ObservedIsListed /\ DueIsObserved)'
  BY <1>0, <1>2 DEF UsageInv, OwnersAreAsked, ObservedIsListed, DueIsObserved, InCycle
<1>4. (ToldHasReceipt /\ ToldOnceAsConfigured)'
  BY <1>0 DEF UsageInv, ToldHasReceipt, ToldOnceAsConfigured
<1> QED
  BY <1>1, <1>3, <1>4 DEF UsageInv

LEMMA NextUsageInv == ASSUME UsageInv, [UsageNext]_usage PROVE UsageInv'
<1>1. CASE UNCHANGED usage
  <2>1. UNCHANGED <<loop, config, period, owners, asked, observed, listed, recorded, due,
                    receipts, notified, twice, bill, month, file, moves>>
    BY <1>1 DEF usage, cycle, poll, alerts, world
  <2>2. UsageTypeOK'
    <3>1. UsageTypeOK
      BY DEF UsageInv
    <3> QED
      BY <2>1, <3>1 DEF UsageTypeOK
  <2>3. AllCandidates(observed)' = AllCandidates(observed)
    BY <2>1 DEF AllCandidates, Candidates
  <2>4. (OwnersAreAsked /\ ObservedIsListed /\ DueIsObserved)'
    BY <2>1, <2>3 DEF UsageInv, OwnersAreAsked, ObservedIsListed, DueIsObserved, InCycle
  <2>5. (ToldHasReceipt /\ ToldOnceAsConfigured)'
    BY <2>1 DEF UsageInv, ToldHasReceipt, ToldOnceAsConfigured
  <2> QED
    BY <2>2, <2>4, <2>5 DEF UsageInv
<1>2. CASE NextMonth \/ Edit \/ \E o \in Owner, m \in Month : Bill(o, m)
  BY <1>2, WorldKeepsUsage DEF NextMonth, Edit, Bill
<1> QED
  BY <1>1, <1>2, StartKeepsUsage, BeginCycleKeepsUsage, PollKeepsUsage, PersistKeepsUsage,
     NotifyKeepsUsage, LoopKeepsUsage DEF UsageNext

LEMMA AlwaysUsageInv == UsageSpec => []UsageInv
BY InitUsageInv, NextUsageInv, PTL DEF UsageSpec

-----------------------------------------------------------------------------
(* Theorems *)

\* Every variable of the usage polling keeps its type.
THEOREM UsageIsTyped == UsageSpec => []UsageTypeOK
<1>1. UsageInv => UsageTypeOK
  BY DEF UsageInv
<1> QED
  BY <1>1, AlwaysUsageInv, PTL

\* What is delivered was listed by the provider for that owner and month, and recorded.
THEOREM AllAlertsAreGrounded == UsageSpec => []AlertsAreGrounded
<1>1. UsageInv => AlertsAreGrounded
  <2> SUFFICES ASSUME UsageInv, NEW d \in due
      PROVE /\ recorded
            /\ d.key.owner = observed.owner /\ d.key.period = period
            /\ \E m \in DOMAIN config.allowances, t \in config.thresholds, n \in DOMAIN listed :
                 /\ config.allowances[m].resource = d.key.resource
                 /\ Folded[config.allowances[m].owner] = Folded[d.key.owner]
                 /\ \A row \in DOMAIN listed :
                      listed[row].sku = config.allowances[m].sku <=> row = n
                 /\ listed[n][config.allowances[m].basis] * 100
                      >= t[d.key.level] * config.allowances[m].quantity
    BY DEF AlertsAreGrounded
  <2>1. /\ loop = "notify" /\ recorded /\ d \in AllCandidates(observed)
    BY DEF UsageInv, DueIsObserved
  <2> DEFINE a == config.allowances[d.at]
  <2>2. /\ d.at \in DOMAIN config.allowances /\ SameBillingOwner(a.owner, observed.owner)
    BY <2>1 DEF AllCandidates
  <2>3. PICK t \in config.thresholds : d.key \in Candidates(observed, a, t)
    BY <2>1 DEF AllCandidates
  <2>4. observed.available /\ observed.items = listed /\ observed.period = period
    BY <2>1, <2>3 DEF Candidates, UsageInv, ObservedIsListed
  <2>5. PICK l \in UNION {QuotaLevel(Quantity(listed[n], a), a, t) : n \in KnownRows(listed, a)} :
          d.key = [owner |-> observed.owner, resource |-> a.resource,
                   period |-> observed.period, level |-> l]
    BY <2>3, <2>4 DEF Candidates
  <2>6. PICK n \in KnownRows(listed, a) : l \in QuotaLevel(Quantity(listed[n], a), a, t)
    BY <2>5
  <2>7. n \in DOMAIN listed /\ Matches(listed, a) = {n}
    BY <2>6 DEF KnownRows, Matches
  <2>8. \A row \in DOMAIN listed : listed[row].sku = a.sku <=> row = n
    BY <2>7 DEF Matches
  <2>9. listed[n][a.basis] * 100 >= t[l] * a.quantity
    BY <2>6 DEF QuotaLevel, Quantity
  <2>10. /\ d.key.owner = observed.owner /\ d.key.resource = a.resource
         /\ d.key.period = period /\ d.key.level = l
    BY <2>4, <2>5
  <2> QED
    BY <2>1, <2>2, <2>7, <2>8, <2>9, <2>10 DEF SameBillingOwner
<1> QED
  BY <1>1, AlwaysUsageInv, PTL

\* Whatever the spellings, a cycle asks once for every owner of an allowance.
THEOREM OwnersAreAskedOnce == UsageSpec => []OneRequestPerOwner
<1>1. UsageInv => OneRequestPerOwner
  <2> SUFFICES ASSUME UsageInv PROVE OneRequestPerOwner
    OBVIOUS
  <2>1. \A o \in Owner : asked[o] <= 1
    BY DEF UsageInv, OwnersAreAsked
  <2>2. ASSUME loop = "sleep", NEW n \in DOMAIN config.allowances
        PROVE  asked[Folded[config.allowances[n].owner]] = 1
    <3>1. Folded[config.allowances[n].owner] \in Owner /\ config.allowances \in Seq(Allowance)
      BY Configured DEF UsageInv
    <3>2. \E m \in UniqueBillingOwners(config.allowances) :
            Folded[config.allowances[m].owner] = Folded[config.allowances[n].owner]
      BY <3>1, OwnersAreAll
    <3> QED
      BY <2>2, <3>1, <3>2 DEF UsageInv, OwnersAreAsked, InCycle
  <2> QED
    BY <2>1, <2>2 DEF OneRequestPerOwner
<1> QED
  BY <1>1, AlwaysUsageInv, PTL

\* A receipt holds for a limit as long as the configuration does, and whenever it comes
\* back.
THEOREM LimitsAreToldOnce == UsageSpec => []ToldOnceAsConfigured
<1>1. UsageInv => ToldOnceAsConfigured
  BY DEF UsageInv
<1> QED
  BY <1>1, AlwaysUsageInv, PTL
=============================================================================
