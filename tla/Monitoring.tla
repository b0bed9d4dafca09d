----------------------------- MODULE Monitoring -----------------------------
(***************************************************************************)
(* Storage-pressure monitoring across restarts: a scheduler compares each  *)
(* report with the one before, the first one with the newest compatible    *)
(* sample on disk, and signals what changed.  `monitor once` appends       *)
(* samples to the same history, without the scheduler's instance lock.     *)
(*                                                                         *)
(* A scan, the append of its sample and the event about it are one step:   *)
(* the code does not await between the last two.  Only a kill comes there. *)
(* What an account holds is anything at each scan.                         *)
(***************************************************************************)
EXTENDS Naturals, Sequences

CONSTANTS
  Account,    \* provider and login, in lower case
  Scope,      \* scan scope and exclusions, normalized
  Total,      \* bytes an account may hold
  Threshold,  \* configurations of the two thresholds
  Unset,      \* a threshold that is not configured
  MaxSamples, \* bound: how many of the newest samples are kept
  Nothing     \* no report, no signal

\* StorageThresholds::new.
ASSUME ThresholdAssumption ==
  /\ Total \subseteq Nat
  /\ Unset \notin Nat
  /\ Threshold \subseteq [warning : (Nat \ {0}) \cup {Unset}, critical : (Nat \ {0}) \cup {Unset}]
  /\ \A t \in Threshold : t.warning # Unset /\ t.critical # Unset => t.warning < t.critical
  /\ MaxSamples \in Nat \ {0}

VARIABLES
  history,     \* the samples that can be read, oldest first
  pc,          \* where the scheduler is; "off" when none runs
  scope,       \* the scope it scans
  thresholds,  \* its thresholds
  previous,    \* the report it compares the next one with
  signal,      \* DaemonStatus.last_notification
  told         \* the level that the signals of a series say it is at, if they say

scheduler == <<pc, scope, thresholds, previous, signal>>
vars == <<history, scheduler, told>>

-----------------------------------------------------------------------------
(* Pressure, transitions and signals *)

PressureLevel == {"unconfigured", "healthy", "warning", "critical"}

Reached(bytes, threshold) == threshold # Unset /\ bytes >= threshold

\* StorageThresholds::evaluate.
Level(t, bytes) ==
  IF t.warning = Unset /\ t.critical = Unset THEN "unconfigured"
  ELSE IF Reached(bytes, t.critical) THEN "critical"
  ELSE IF Reached(bytes, t.warning) THEN "warning"
  ELSE "healthy"

Report == [account : Account, scope : Scope, total : Total, thresholds : Threshold,
           complete : BOOLEAN]

LevelOf(r) == Level(r.thresholds, r.total)
SeriesOf(r) == <<r.account, r.scope>>

\* Two adjacent reports are compared when they are of one series and complete.
Comparable(r, s) ==
  r # Nothing /\ SeriesOf(r) = SeriesOf(s) /\ r.complete /\ s.complete

\* notification_signal_for_transition, of a change of the level.
Kind(from, to) ==
  IF to = "critical" THEN "entered_critical"
  ELSE IF from = "critical" /\ to = "warning" THEN "recovered_to_warning"
  ELSE IF from \in {"warning", "critical"} /\ to = "healthy" THEN "recovered_to_healthy"
  ELSE IF to = "warning" THEN "entered_warning"
  ELSE "none"

\* Mutation of ThresholdsChanged: the critical one is forgotten.
WarningChanged(r, s) == r.thresholds.warning # s.thresholds.warning

ThresholdsChanged(r, s) ==
  r.thresholds.warning # s.thresholds.warning \/ r.thresholds.critical # s.thresholds.critical

\* evaluate_pressure_transition and the signal derived from it.
SignalOf(r, s) ==
  IF Comparable(r, s) /\ LevelOf(r) # LevelOf(s)
  THEN [kind |-> Kind(LevelOf(r), LevelOf(s)), changed |-> ThresholdsChanged(r, s)]
  ELSE [kind |-> IF r # Nothing /\ SeriesOf(r) = SeriesOf(s) /\ ~(r.complete /\ s.complete)
                 THEN "monitoring_incomplete" ELSE "none",
        changed |-> FALSE]

Entered == {"entered_critical", "entered_warning"}
Recovered == {"recovered_to_warning", "recovered_to_healthy"}
SignalKind == Entered \cup Recovered \cup {"monitoring_incomplete", "monitoring_failure", "none"}
Signal == [kind : SignalKind, changed : BOOLEAN]

\* The level a signal says.
Says == [k \in Entered \cup Recovered |->
           IF k = "entered_critical" THEN "critical"
           ELSE IF k = "recovered_to_healthy" THEN "healthy" ELSE "warning"]

-----------------------------------------------------------------------------
(* State *)

\* Types; a scheduler that does not run remembers nothing, and what the status
\* keeps as the last notification was one (update_status_for_monitoring_event).
TypeOK ==
  /\ history \in Seq(Report)
  /\ pc \in {"off", "scan", "sleep"}
  /\ scope \in Scope
  /\ thresholds \in Threshold
  /\ previous \in Report \cup {Nothing}
  /\ signal \in Signal \cup {Nothing}
  /\ signal # Nothing => signal.kind # "none"
  /\ told \in [Account \X Scope -> PressureLevel \cup {"unknown"}]
  /\ pc = "off" => previous = Nothing /\ signal = Nothing

Init ==
  /\ history = <<>>
  /\ pc = "off"
  /\ scope \in Scope
  /\ thresholds \in Threshold
  /\ previous = Nothing
  /\ signal = Nothing
  /\ told = [series \in Account \X Scope |-> "unknown"]

-----------------------------------------------------------------------------
(* The history *)

\* append; the window is the model's.
Appended(r) ==
  IF Len(history) < MaxSamples THEN Append(history, r) ELSE Append(Tail(history), r)

IsOf(n, series) == SeriesOf(history[n]) = series

\* Mutation of IsLatest: the samples are not reversed.
IsOldest(r, series) ==
  \/ r = Nothing /\ \A n \in 1..Len(history) : ~IsOf(n, series)
  \/ \E n \in 1..Len(history) :
       /\ r = history[n] /\ IsOf(n, series)
       /\ \A m \in 1..(n - 1) : ~IsOf(m, series)

\* MonitoringHistoryStore::latest_compatible.
IsLatest(r, series) ==
  \/ r = Nothing /\ \A n \in 1..Len(history) : ~IsOf(n, series)
  \/ \E n \in 1..Len(history) :
       /\ r = history[n] /\ IsOf(n, series)
       /\ \A m \in (n + 1)..Len(history) : ~IsOf(m, series)

Forget(series) == told' = [told EXCEPT ![series] = "unknown"]

-----------------------------------------------------------------------------
(* The scheduler *)

Off ==
  /\ pc' = "off"
  /\ previous' = Nothing
  /\ signal' = Nothing
  /\ UNCHANGED <<scope, thresholds>>

\* run_foreground_daemon_with_control, with the configuration of that moment.
Start ==
  /\ pc = "off"
  /\ scope' \in Scope
  /\ thresholds' \in Threshold
  /\ \E a \in Account, r \in Report \cup {Nothing} :
       IsLatest(r, <<a, scope'>>) /\ previous' = r
  /\ pc' = "scan"
  /\ UNCHANGED <<history, signal, told>>

\* The scan, by whatever account the token now belongs to.
Scanned ==
  {r \in Report : r.scope = scope /\ r.thresholds = thresholds}

Notify(s) == signal' = IF s.kind = "none" THEN signal ELSE s

\* What the follower of the signals of r's series now knows of it: what it last heard as
\* long as reports are compared, nothing after a report that was not, be it the first, an
\* incomplete one, or one that follows a report of another account (IncompatibleAccount).
Tell(r, s) ==
  told' = [told EXCEPT ![SeriesOf(r)] =
             IF s.kind \in Entered \cup Recovered THEN Says[s.kind]
             ELSE IF Comparable(previous, r) /\ LevelOf(r) # "unconfigured" THEN @
             ELSE "unknown"]

Check ==
  /\ pc = "scan"
  /\ \E r \in Scanned :
       LET s == SignalOf(previous, r)
       IN /\ history' = Appended(r)
          /\ previous' = r
          /\ Notify(s)
          /\ Tell(r, s)
  /\ pc' = "sleep"
  /\ UNCHANGED <<scope, thresholds>>

\* Mutation of Fail: a report that was not persisted is compared with all the same.
FailAndRemember ==
  /\ pc = "scan"
  /\ Notify([kind |-> "monitoring_failure", changed |-> FALSE])
  /\ previous' \in Scanned
  /\ pc' = "sleep"
  /\ UNCHANGED <<history, scope, thresholds, told>>

\* The provider or the append fails.
Fail ==
  /\ pc = "scan"
  /\ Notify([kind |-> "monitoring_failure", changed |-> FALSE])
  /\ pc' = "sleep"
  /\ UNCHANGED <<history, scope, thresholds, previous, told>>

Wake ==
  /\ pc = "sleep"
  /\ pc' = "scan"
  /\ UNCHANGED <<history, scope, thresholds, previous, signal, told>>

\* Cancellation, the attempt limit, or a kill.
Stop ==
  /\ pc # "off"
  /\ Off
  /\ UNCHANGED <<history, told>>

-----------------------------------------------------------------------------
(* The environment *)

\* A kill between the append and the event: nobody hears of the sample.
KillUntold ==
  /\ pc = "scan"
  /\ \E r \in Scanned : history' = Appended(r) /\ Forget(SeriesOf(r))
  /\ Off

\* `monitor once`: it prints its report, but signals nothing.
Once ==
  /\ \E r \in Report : history' = Appended(r) /\ Forget(SeriesOf(r))
  /\ UNCHANGED scheduler

\* A sample is removed or becomes unreadable, which read_all reports.
Damage ==
  /\ \E n \in 1..Len(history) :
       /\ history' = SubSeq(history, 1, n - 1) \o SubSeq(history, n + 1, Len(history))
       /\ Forget(SeriesOf(history[n]))
  /\ UNCHANGED scheduler

Next ==
  Start \/ Check \/ Fail \/ Wake \/ Stop \/ KillUntold \/ Once \/ Damage

Spec == Init /\ [][Next]_vars

-----------------------------------------------------------------------------
(* Properties *)

\* Who follows the signals of a series is right about its level, whatever
\* failures, restarts, changes of the account and of the thresholds came in
\* between; or knows that he cannot tell: before the first signal, after an
\* incomplete scan, without thresholds, after a report that came right after one of
\* another account (the token changed hands during a run), or when a sample was lost,
\* was never told, or came from `monitor once`.  (The order of persist, comparison and
\* signal in MonitoringScheduler::run, and the baseline of the daemon's start.)
FollowerIsRight ==
  previous # Nothing =>
    LET believed == told[SeriesOf(previous)]
    IN believed \in {"unknown", LevelOf(previous)}

\* A signal that does not blame the thresholds is about bytes: the account holds
\* more than at the complete scan before when it entered, less when it recovered.
\* (evaluate_pressure_transition compares two reports, the thresholds of each
\* being those of its own process.)
SignalsMeanMovement ==
  [][signal' \notin {signal, Nothing} /\ ~signal'.changed =>
       /\ signal'.kind \in Entered   => previous'.total > previous.total
       /\ signal'.kind \in Recovered => previous'.total < previous.total]_vars
=============================================================================
