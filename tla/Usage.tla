-------------------------------- MODULE Usage --------------------------------
(***************************************************************************)
(* Account-usage monitoring: what the billing provider says of an owner's  *)
(* month, what the configured allowances make of it, and the alerts that   *)
(* follow.  The daemon polls in cycles, owner after owner, while the       *)
(* months pass, the bills move and somebody edits the configuration.       *)
(*                                                                         *)
(* A delivery and its receipt are one step: Daemon has them apart, and the *)
(* damaged receipts.  Quantities are integers; product, SKU and unit are   *)
(* one name without letter case.                                           *)
(***************************************************************************)
EXTENDS Integers, Sequences, FiniteSets

CONSTANTS
  Login,     \* spellings of the owners' logins
  Folded,    \* the owner that a spelling names, whatever its letter case
  Owner,     \* the owners
  Resource,  \* resource_id of the allowances
  Sku,       \* what the provider bills, and an allowance is of
  Bills,     \* what the provider may list for one owner and month: rows
  Configs,   \* the configurations that somebody may write
  MaxMonth,  \* bound: months that pass
  MaxMoves   \* bound: how often a bill or the configuration changes

Basis == {"gross", "discount", "net"}

Row == [sku : Sku, gross : Int, discount : Int, net : Int]

Allowance == [owner : Login, resource : Resource, sku : Sku, quantity : Int, basis : Basis]

ASSUME UsageAssumption ==
  /\ Folded \in [Login -> Owner]
  /\ Bills \subseteq Seq(Row)
  /\ \A c \in Configs : c.allowances \in Seq(Allowance)
  /\ <<>> \in Bills
  /\ [allowances |-> <<>>, thresholds |-> {}] \in Configs
  /\ MaxMonth \in Nat \ {0} /\ MaxMoves \in Nat

Month == 1..MaxMonth

VARIABLES
  bill,      \* the provider's rows of each owner and month
  month,     \* the current UTC month
  file,      \* the configuration file
  config,    \* the configuration the daemon has loaded
  loop,        \* where the polling loop is
  period,    \* BillingPeriod of the cycle
  owners,    \* the owners the cycle has still to poll: where each is named first
  observed,  \* the observation of the owner it is at
  due,       \* the candidates of that owner still to be notified, and their allowances
  recorded,  \* that observation is among the samples on disk
  receipts,  \* the keys with a receipt
  listed,    \* what the provider had for that owner and month when it was asked
  notified,      \* limits delivered with a receipt, and the configuration at that time
  twice,     \* those that were delivered again
  asked,     \* how often the cycle has asked for each owner
  moves      \* how often a bill or the configuration has changed

cycle == <<config, period, owners, asked>>
poll == <<observed, listed, recorded>>
alerts == <<receipts, notified, twice>>
world == <<bill, month, file, moves>>
usage == <<loop, cycle, poll, due, alerts, world>>

-----------------------------------------------------------------------------
(* Types *)

AlertLevel == {"warning", "critical"}

\* UsageQuotaAlertKey, its owner spelled as in the configuration.
Key == [owner : Login, resource : Resource, period : Month, level : AlertLevel]

\* What a key stands for.
Limit(k) == <<Folded[k.owner], k.resource, k.period, k.level>>

Observation == [owner : Login, period : Month, available : BOOLEAN, items : Bills]

NoObservation == [available |-> FALSE]

UsageTypeOK ==
  /\ bill \in [Owner -> [Month -> Bills]]
  /\ month \in Month
  /\ file \in Configs /\ config \in Configs
  /\ loop \in {"off", "check", "poll", "persist", "notify", "sleep"}
  /\ period \in Month /\ period <= month
  /\ owners \subseteq DOMAIN config.allowances
  /\ observed \in Observation \cup {NoObservation}
  /\ due \subseteq [at : DOMAIN config.allowances, key : Key]
  /\ listed \in Bills /\ recorded \in BOOLEAN
  /\ receipts \subseteq Key
  /\ notified \subseteq [limit : {Limit(k) : k \in Key}, config : Configs]
  /\ twice \subseteq [limit : {Limit(k) : k \in Key}, same : BOOLEAN]
  /\ asked \in [Owner -> Nat]
  /\ moves \in 0..MaxMoves

-----------------------------------------------------------------------------
(* Configuration *)

\* UsageAllowance::validate
AllowanceValid(a) == a.quantity > 0

\* UsagePercentageThresholds::validate: both, in order, or neither.
ThresholdsValid(c) ==
  \A t \in c.thresholds : 0 < t.warning /\ t.warning <= t.critical /\ t.critical <= 100

\* AccountUsageMonitoringConfig::validate: no two allowances of one owner, in
\* whatever spelling, are of one resource.
Valid(c) ==
  /\ ThresholdsValid(c)
  /\ \A n \in DOMAIN c.allowances : AllowanceValid(c.allowances[n])
  /\ \A m, n \in DOMAIN c.allowances :
       /\ Folded[c.allowances[m].owner] = Folded[c.allowances[n].owner]
       /\ c.allowances[m].resource = c.allowances[n].resource
       => m = n

\* AppConfig::default, which stands for a missing file and for one of schema 1 too.
Default == [allowances |-> <<>>, thresholds |-> {}]

\* ConfigStore::load: an invalid file is an error.
Load(c) == IF Valid(c) THEN {c} ELSE {}

SameBillingOwner(left, right) == Folded[left] = Folded[right]

\* Mutation of UniqueBillingOwners: the spellings are compared as they are.
UniqueSpellings(s) == {n \in DOMAIN s : \A m \in 1..(n - 1) : s[m].owner # s[n].owner}

\* unique_billing_owners: each owner once, where it is named, and spelled, first.
UniqueBillingOwners(s) ==
  {n \in DOMAIN s : \A m \in 1..(n - 1) : ~SameBillingOwner(s[m].owner, s[n].owner)}

-----------------------------------------------------------------------------
(* The provider's answer *)

\* Mutation of Accepted: the year is checked, the month is not.
AcceptedAnyMonth(answer, login, of) == Folded[login] \in answer.owner

\* GithubBillingUsageSummary::into_domain: an answer that names another period or
\* owner is refused; one that leaves them out is believed.
Accepted(answer, login, of) == of \in answer.period /\ Folded[login] \in answer.owner

\* An answer is of the owner and the month it names, which by mistake may be others than
\* those that were asked for.  Of one that names no month, or no owner, it is ASSUMED that
\* the omitted is what the request asked for: the code believes it (TimePeriod.month is
\* an Option), and could not tell the summary of a whole year from that of the month.
Answers(login, of) ==
  {[owner |-> o, period |-> m, items |-> bill[Folded[login]][of]] :
     o \in {{Folded[login]}, Owner}, m \in {{of}, Month}} \cup
  {[owner |-> {o}, period |-> {m}, items |-> bill[o][m]] : o \in Owner, m \in Month}

Unknown(login, of) == [owner |-> login, period |-> of, available |-> FALSE, items |-> <<>>]

\* billing_usage_summary: a failure and a refused answer are unknown, never empty.
BillingUsageSummary(login, of) ==
  {[owner |-> login, period |-> of, available |-> TRUE, items |-> answer.items] :
     answer \in {a \in Answers(login, of) : Accepted(a, login, of)}}
  \cup {Unknown(login, of)}

-----------------------------------------------------------------------------
(* evaluate_usage_quota *)

\* usage_item_matches_allowance
Matches(items, a) == {n \in DOMAIN items : items[n].sku = a.sku}

\* UsageQuantityBasis::quantity
Quantity(item, a) == item[a.basis]

\* The level of a known quota; the percentage is not rounded.
QuotaLevel(quantity, a, t) ==
  IF quantity * 100 >= t.critical * a.quantity THEN {"critical"}
  ELSE IF quantity * 100 >= t.warning * a.quantity THEN {"warning"} ELSE {}

\* A quota is known from exactly one row, with a quantity that is none below zero.
KnownRows(items, a) ==
  {n \in Matches(items, a) : Matches(items, a) = {n} /\ Quantity(items[n], a) >= 0}

\* evaluate_usage_quota and notification_candidate: a known quota is worth an alert
\* at a level.  An observation of this very cycle is never too old for it.
Candidates(o, a, t) ==
  IF o.available
  THEN {[owner |-> o.owner, resource |-> a.resource, period |-> o.period, level |-> l] :
          l \in UNION {QuotaLevel(Quantity(o.items[n], a), a, t) : n \in KnownRows(o.items, a)}}
  ELSE {}

\* The candidates of one owner, each at its allowance.
AllCandidates(o) ==
  {d \in [at : DOMAIN config.allowances, key : Key] :
     LET a == config.allowances[d.at]
     IN /\ SameBillingOwner(a.owner, o.owner)
        /\ \E t \in config.thresholds : d.key \in Candidates(o, a, t)}

-----------------------------------------------------------------------------
(* The polling loop *)

UsageInit ==
  /\ bill = [o \in Owner |-> [m \in Month |-> <<>>]]
  /\ month = 1
  /\ file \in Configs /\ config = Default
  /\ loop = "off"
  /\ period = 1
  /\ owners = {} /\ observed = NoObservation /\ due = {}
  /\ listed = <<>> /\ recorded = FALSE
  /\ receipts = {} /\ notified = {} /\ twice = {}
  /\ asked = [o \in Owner |-> 0]
  /\ moves = 0

Goto(place) == loop' = place

\* The daemon starts; without allowances it has no usage task.
StartPolling ==
  /\ loop = "off"
  /\ config' \in {c \in Load(file) : c.allowances # <<>>}
  /\ Goto("check")
  /\ UNCHANGED <<period, owners, asked, poll, due, alerts, world>>

\* The clock is read once in a cycle.
BeginCycle ==
  /\ loop \in {"check", "sleep"}
  /\ period' = month
  /\ owners' = UniqueBillingOwners(config.allowances)
  /\ asked' = [o \in Owner |-> 0]
  /\ Goto("poll")
  /\ UNCHANGED <<config, poll, due, alerts, world>>

\* The owners are polled in the order of the allowances.
Poll ==
  /\ loop = "poll"
  /\ \E n \in owners :
       LET login == config.allowances[n].owner
       IN /\ \A m \in owners : n <= m
          /\ observed' \in BillingUsageSummary(login, period)
          /\ listed' = bill[Folded[login]][period]
          /\ owners' = owners \ {n}
          /\ asked' = [asked EXCEPT ![Folded[login]] = @ + 1]
  /\ recorded' = FALSE
  /\ Goto("persist")
  /\ UNCHANGED <<config, period, due, alerts, world>>

\* An observation that cannot be recorded is not evaluated either.
Persist ==
  /\ loop = "persist"
  /\ \/ /\ recorded' = TRUE
        /\ due' = AllCandidates(observed)
        /\ Goto("notify")
     \/ Goto("poll") /\ UNCHANGED <<recorded, due>>
  /\ UNCHANGED <<cycle, observed, listed, alerts, world>>

\* A key with a receipt is suppressed; the alert of another is delivered, or not,
\* and then its receipt is written, or not.
NotifyOwner ==
  /\ loop = "notify"
  /\ \E d \in due :
       LET again == {t \in notified : t.limit = Limit(d.key)}
       IN /\ \A e \in due : d.at <= e.at
          /\ due' = due \ {d}
          /\ \/ UNCHANGED alerts
             \/ /\ d.key \notin receipts
                /\ receipts' \in {receipts, receipts \cup {d.key}}
                /\ notified' = IF d.key \in receipts'
                              THEN notified \cup {[limit |-> Limit(d.key), config |-> config]}
                              ELSE notified
                /\ twice' = twice \cup
                     {[limit |-> t.limit, same |-> t.config = config] : t \in again}
  /\ UNCHANGED <<loop, cycle, poll, world>>

NextOwner ==
  /\ loop = "notify" /\ due = {}
  /\ Goto("poll")
  /\ UNCHANGED <<cycle, poll, due, alerts, world>>

EndCycle ==
  /\ loop = "poll" /\ owners = {}
  /\ Goto("sleep")
  /\ UNCHANGED <<cycle, poll, due, alerts, world>>

\* The daemon ends, or is killed, between any two steps.
StopPolling ==
  /\ loop # "off"
  /\ Goto("off")
  /\ owners' = {} /\ observed' = NoObservation /\ due' = {}
  /\ UNCHANGED <<config, period, asked, listed, recorded, alerts, world>>

-----------------------------------------------------------------------------
(* Everybody else *)

NextMonth ==
  /\ month < MaxMonth
  /\ month' = month + 1
  /\ UNCHANGED <<loop, cycle, poll, due, alerts, bill, file, moves>>

Bill(o, m) ==
  /\ moves < MaxMoves
  /\ m <= month
  /\ \E b \in Bills : b # bill[o][m] /\ bill' = [bill EXCEPT ![o][m] = b]
  /\ moves' = moves + 1
  /\ UNCHANGED <<loop, cycle, poll, due, alerts, month, file>>

\* Somebody writes the configuration file, valid or not; a daemon that runs goes
\* on with the one it has.
Edit ==
  /\ moves < MaxMoves
  /\ file' \in Configs \ {file}
  /\ moves' = moves + 1
  /\ UNCHANGED <<loop, cycle, poll, due, alerts, bill, month>>

-----------------------------------------------------------------------------
UsageNext ==
  \/ StartPolling \/ BeginCycle \/ Poll \/ Persist \/ NotifyOwner \/ NextOwner \/ EndCycle \/ StopPolling
  \/ \E o \in Owner, m \in Month : Bill(o, m)
  \/ NextMonth \/ Edit

UsageSpec == UsageInit /\ [][UsageNext]_usage

-----------------------------------------------------------------------------
(* Properties *)

\* An alert is true and on record: when the provider was asked, it did have the
\* owner's usage of that month at the level, in the one row of the allowance, and
\* the observation that says so is persisted before anything is delivered.
\* Failures, answers that name another month or owner and ambiguous rows alert nobody
\* (of an answer that names none, see Answers).
AlertsAreGrounded ==
  \A d \in due :
    LET k == d.key
    IN /\ recorded
       /\ k.owner = observed.owner /\ k.period = period
       /\ \E m \in DOMAIN config.allowances, t \in config.thresholds, n \in DOMAIN listed :
            LET a == config.allowances[m]
            IN /\ a.resource = k.resource /\ Folded[a.owner] = Folded[k.owner]
               /\ \A row \in DOMAIN listed : listed[row].sku = a.sku <=> row = n
               /\ listed[n][a.basis] * 100 >= t[k.level] * a.quantity

\* DAEMON.md: one request per owner and month in each cycle, however the owner is
\* spelled in the allowances, and none is left out because another failed.
OneRequestPerOwner ==
  /\ \A o \in Owner : asked[o] <= 1
  /\ loop = "sleep" =>
       \A n \in DOMAIN config.allowances : asked[Folded[config.allowances[n].owner]] = 1

\* A limit whose alert has a receipt is not delivered again under the configuration
\* of that time, whatever other configurations were loaded in between.
ToldOnceAsConfigured == \A t \in twice : ~t.same

\* DAEMON.md: "suppress duplicates per billing owner, resource ID, threshold, and
\* billing period".
ToldOnce == twice = {}
=============================================================================
