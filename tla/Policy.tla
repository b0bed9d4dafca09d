------------------------------- MODULE Policy -------------------------------
(***************************************************************************)
(* The policy engine: what a policy file decides about each object of a    *)
(* snapshot.  Only decisions are kept, not their reasons.                  *)
(*                                                                         *)
(* A glob is the set of the values it matches, an Option a set of at most  *)
(* one element.  An item describes an artifact, a cache or a workflow run: *)
(* `values' are its values in the dimensions a rule can select by (one it  *)
(* does not have is not in the domain), `touched' is updated_at or         *)
(* last_accessed_at.                                                       *)
(***************************************************************************)
EXTENDS Integers, Sequences, FiniteSets

CONSTANTS
  Day,         \* SECONDS_PER_DAY, in ticks of the clock
  MaxSeconds,  \* u64::MAX
  MaxDate      \* the last instant that DateTime<Utc> can represent

\* No date is more seconds away than a u64 can count.
ASSUME PolicyAssumption ==
  /\ Day \in Nat \ {0} /\ MaxSeconds \in Nat /\ MaxDate \in Nat
  /\ MaxDate < MaxSeconds

Kind == {"artifact", "cache", "workflow_run"}

Decision == {"Keep", "Delete", "Protected", "ManualReview"}

IsOption(option, S) == option \subseteq S /\ \A u, v \in option : u = v

\* PolicyConfig and its rules.
IsRule(rule) ==
  /\ \A days \in {rule.keep_days, rule.keep_business_days, rule.keep_unused_days,
                 rule.keep_latest} : IsOption(days, Nat)
  /\ rule.protect \in BOOLEAN

IsPolicy(config) ==
  /\ DOMAIN config = {"rules", "keep_days", "caches", "runs"}
  /\ IsFiniteSet(config.rules) /\ \A rule \in config.rules : IsRule(rule)
  /\ config.keep_days \in Nat /\ config.caches.keep_days \in Nat
  /\ \A days \in {config.caches.keep_unused_days, config.runs.keep_days,
                 config.runs.keep_business_days} : IsOption(days, Nat)

\* PolicyConfig::default: thirty days, and no more.
NoRules ==
  [rules |-> {}, keep_days |-> 30, caches |-> [keep_days |-> 30, keep_unused_days |-> {}],
   runs |-> [keep_days |-> {}, keep_business_days |-> {}]]

Value(option, otherwise) == IF option = {} THEN otherwise ELSE CHOOSE v \in option : TRUE

-----------------------------------------------------------------------------
(* PolicyConfig::validate and the matching of rules *)

\* The dimensions a rule may select by.
Selectors(kind) ==
  {"repository"} \cup
  (IF kind = "artifact" THEN {"workflow", "artifact", "branch"}
   ELSE IF kind = "cache" THEN {"key", "ref"}
   ELSE {"workflow", "branch", "event", "conclusion"})

HasAction(rule) ==
  \/ rule.keep_days # {} \/ rule.keep_business_days # {} \/ rule.keep_unused_days # {}
  \/ rule.keep_latest # {} \/ rule.protect

Valid(config) ==
  /\ config.runs.keep_days = {} \/ config.runs.keep_business_days = {}
  /\ \A rule, other \in config.rules : rule.id = other.id => rule = other
  /\ \A rule \in config.rules :
       /\ HasAction(rule)
       /\ rule.keep_latest_by # {} => rule.keep_latest # {}
       /\ rule.keep_days = {} \/ rule.keep_business_days = {}
       /\ DOMAIN rule.patterns \subseteq Selectors(rule.resource)
       /\ rule.keep_unused_days # {} => rule.resource = "cache"
       /\ rule.keep_business_days \cup rule.keep_latest_by # {} => rule.resource = "workflow_run"

Specificity(rule) == Cardinality(DOMAIN rule.patterns)

\* A value that is missing matches no pattern.
MatchesGlob(rule, dimension, item) ==
  dimension \in DOMAIN item.values /\ item.values[dimension] \in rule.patterns[dimension]

Matches(rule, item) ==
  rule.resource = item.kind /\ \A d \in DOMAIN rule.patterns : MatchesGlob(rule, d, item)

Matching(config, item) == {rule \in config.rules : Matches(rule, item)}

-----------------------------------------------------------------------------
(* Retention *)

\* Mutation of Seconds: the multiplication wraps.
SecondsWrapped(days) == (days * Day) % (MaxSeconds + 1)

\* days.saturating_mul(SECONDS_PER_DAY)
Seconds(days) == IF days * Day > MaxSeconds THEN MaxSeconds ELSE days * Day

\* age_seconds and unused_seconds: never negative.
Since(instant, now) == IF now < instant THEN 0 ELSE now - instant

Elapsed(instant, now, days) == Since(instant, now) >= Seconds(days)

\* Day 0 is a Thursday.
Weekend(instant) == (instant \div Day) % 7 \in {2, 3}

\* Mutation of BusinessDayDeadline: whole weeks are taken from days, not days - 1.
DeadlineByWholeWeeks(created, days) ==
  LET start == created + (days \div 5) * 7 * Day
      Passed(n) == Cardinality({k \in 1..n : ~Weekend(start + k * Day)})
      n == CHOOSE k \in 0..8 : Passed(k) = days % 5 /\ \A j \in 0..(k - 1) : Passed(j) < days % 5
  IN IF start + n * Day > MaxDate THEN {} ELSE {start + n * Day}

\* None when the date cannot be represented.
BusinessDayDeadline(created, days) ==
  LET start == created + ((days - 1) \div 5) * 7 * Day
      remaining == ((days - 1) % 5) + 1
      Passed(n) == Cardinality({k \in 1..n : ~Weekend(start + k * Day)})
      n == CHOOSE k \in 1..7 : Passed(k) = remaining /\ Passed(k - 1) < remaining
  IN IF days = 0 THEN {created}
     ELSE IF start + n * Day > MaxDate THEN {}
     ELSE {start + n * Day}

BusinessDaysOver(created, now, days) ==
  \E deadline \in BusinessDayDeadline(created, days) : now >= deadline

\* A retention is a pair of options, of which runs use the second for business days
\* and caches for the days since the last access.
RunRetentionExpired(item, now, retention) ==
  /\ \A days \in retention[1] : Elapsed(item.created, now, days)
  /\ \A days \in retention[2] : BusinessDaysOver(item.created, now, days)

CacheRetentionExpired(item, now, retention) ==
  /\ \A days \in retention[1] : Elapsed(item.created, now, days)
  /\ \A days \in retention[2] : Elapsed(item.touched, now, days)

MostSpecific(rules) ==
  {rule \in rules : \A other \in rules : Specificity(other) <= Specificity(rule)}

\* Mutation of Deciding: a rule that says nothing of retention counts too.
DecidingOfAll(matching, retaining) == MostSpecific(matching) \cap retaining

\* The rules that decide: the most specific of those that speak of retention.
Deciding(matching, retaining) == MostSpecific(retaining)

-----------------------------------------------------------------------------
(* keep_latest *)

\* The order of the sort, newest first; position decides between equals.
SortKey(item) == <<item.created, item.touched, item.number, item.attempt, item.id>>

Before(items, i, j) ==
  LET a == SortKey(items[i])
      b == SortKey(items[j])
  IN \/ \E n \in 1..5 : a[n] > b[n] /\ \A m \in 1..(n - 1) : a[m] = b[m]
     \/ a = b /\ i < j

\* The i-th item is among the first keep_latest of the `family' of places.
IsLatest(items, i, family, rule) ==
  \E n \in rule.keep_latest : Cardinality({j \in family : Before(items, j, i)}) < n

MatchingAt(items, rule) == {i \in DOMAIN items : Matches(rule, items[i])}

\* Artifacts and caches: one family per rule, whatever the repository.
KeptLatest(config, items) ==
  {items[i].id : i \in {k \in DOMAIN items : \E rule \in config.rules :
      Matches(rule, items[k])
      /\ IsLatest(items, k, MatchingAt(items, rule), rule)}}

\* Runs: completed ones, by repository, workflow and (unless keep_latest_by says
\* otherwise) branch.
RunFamily(rule, item) ==
  <<item.values["repository"], item.workflow,
    IF rule.keep_latest_by = {"workflow"} \/ "branch" \notin DOMAIN item.values
    THEN {} ELSE {item.values["branch"]}>>

Siblings(items, k, pool, rule) ==
  {j \in pool : RunFamily(rule, items[j]) = RunFamily(rule, items[k])}

\* Mutation of RunsKeptLatest: runs that are not completed take places too.
RunsKeptLatestOfAll(config, items) ==
  {items[i].id : i \in {k \in DOMAIN items : \E rule \in config.rules :
      LET pool == MatchingAt(items, rule)
      IN k \in pool /\ IsLatest(items, k, Siblings(items, k, pool, rule), rule)}}

RunsKeptLatest(config, items) ==
  {items[i].id : i \in {k \in DOMAIN items : \E rule \in config.rules :
      LET pool == {j \in MatchingAt(items, rule) : items[j].completed}
      IN k \in pool /\ IsLatest(items, k, Siblings(items, k, pool, rule), rule)}}

-----------------------------------------------------------------------------
(* Classification *)

\* The tail all three engines share: the most specific retention rules have to agree.
Retain(retentions, expired) ==
  IF Cardinality(retentions) > 1 THEN "ManualReview"
  ELSE IF expired THEN "Delete" ELSE "Keep"

ClassifyArtifact(config, items, i, now) ==
  LET item == items[i]
      matching == Matching(config, item)
      retentions == {r.keep_days : r \in Deciding(matching, {r \in matching : r.keep_days # {}})}
      days == Value(retentions, {config.keep_days})
  IN IF \E r \in matching : r.protect THEN "Protected"
     ELSE IF item.id \in KeptLatest(config, items) THEN "Keep"
     ELSE Retain(retentions, Elapsed(item.created, now, Value(days, 0)))

ClassifyCache(config, items, i, now) ==
  LET item == items[i]
      matching == Matching(config, item)
      retention == Deciding(matching, {r \in matching : r.keep_days \cup r.keep_unused_days # {}})
      retentions == {<<r.keep_days, r.keep_unused_days>> : r \in retention}
      default == <<{config.caches.keep_days}, config.caches.keep_unused_days>>
  IN IF \E r \in matching : r.protect THEN "Protected"
     ELSE IF item.id \in KeptLatest(config, items) THEN "Keep"
     ELSE Retain(retentions, CacheRetentionExpired(item, now, Value(retentions, default)))

\* defaults.runs: business days before elapsed days before thirty days.
RunDefault(config) ==
  IF config.runs.keep_business_days # {} THEN <<{}, config.runs.keep_business_days>>
  ELSE <<{Value(config.runs.keep_days, 30)}, {}>>

ClassifyRun(config, items, i, now, assessment) ==
  LET item == items[i]
      matching == Matching(config, item)
      retention == Deciding(matching, {r \in matching : r.keep_days \cup r.keep_business_days # {}})
      retentions == {<<r.keep_days, r.keep_business_days>> : r \in retention}
  IN IF assessment = "Protected" THEN "Protected"
     ELSE IF assessment = "Review" THEN "ManualReview"
     ELSE IF ~item.completed THEN "Keep"
     ELSE IF \E r \in matching : r.protect THEN "Protected"
     ELSE IF item.id \in RunsKeptLatest(config, items) THEN "Keep"
     ELSE Retain(retentions,
                 RunRetentionExpired(item, now, Value(retentions, RunDefault(config))))
=============================================================================
