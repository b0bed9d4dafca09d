------------------------------ MODULE Planning ------------------------------
(***************************************************************************)
(* From a remote collection to an immutable plan: the commands `plan',     *)
(* `classify', `purge plan runs' and `purge plan caches' list a collection *)
(* page by page, choose from the snapshot, look again at each choice (runs *)
(* under the lease of their protection) and make the plan.  Meanwhile      *)
(* others upload, change, remove and protect.                              *)
(*                                                                         *)
(* One repository is listed; each repository of a larger scope is listed   *)
(* in the same way, and an issue in one refuses the plan of all.           *)
(***************************************************************************)
EXTENDS Policy, Listing

CONSTANTS
  Object,      \* ids, which grow with the creation
  Initial,     \* the ids there are at first
  Values,      \* [Kind -> [Object -> the values of its dimensions at the provider]]
  Workflow,    \* [Object -> workflow_id]
  Birth,       \* [Initial -> created_at]
  Starts,      \* when the command may start
  Configs,     \* [Kind -> the policies it may be given]
  Requests,    \* the sets of ids it may be asked for
  Ages,        \* the --older-than options
  Shields,     \* [Kind -> rules that only protect or keep the latest]
  MaxMoves     \* bound: how often others, or the clock, move

ASSUME PlanningAssumption ==
  /\ Object \subseteq Nat \ {0} /\ Initial \subseteq Object /\ IsFiniteSet(Initial)
  /\ Starts \subseteq 0..MaxDate /\ Birth \in [Initial -> Nat]
  /\ \A id \in Initial, start \in Starts : Birth[id] <= start
  /\ \A k \in Kind : \A c \in Configs[k] : IsPolicy(c) /\ Valid(c)
  /\ \A k \in Kind : \A rule \in Shields[k] :
       rule.keep_days = {} /\ rule.keep_business_days = {} /\ rule.keep_unused_days = {}
  /\ MaxMoves \in Nat

VARIABLES
  kind,        \* which command: the kind of object it plans for
  now,         \* the clock
  store,       \* the ids of the collection, in the provider's order
  live,        \* what each of them is
  protection,  \* what the protection store says of each run
  moves,       \* how often others, or the clock, have moved
  shifts,      \* how often a move pushed the list down by one
  pc,          \* where the command is
  index,       \* the protections it has read
  read,        \* the items it has listed so far
  snapshot,    \* the sorted snapshot
  scanned,     \* scanned_at
  mode,        \* RunPurgeSelectionMode, CachePurgeSelectionMode, or a policy
  config,      \* the policy
  chosen,      \* the selected items that are still to be verified
  targets      \* the verified ones, then the targets of the plan

remote == <<store, live, protection, shifts>>
command == <<kind, pc, index, read, snapshot, scanned, mode, config, chosen, targets>>
vars == <<now, moves, remote, command>>

-----------------------------------------------------------------------------
(* Types *)

Instant == 0..MaxDate

State == [created : Instant, touched : Instant, attempt : Nat, completed : BOOLEAN]

Assessment == {"NoEntry", "Protected", "Review"}

Mode == {"none", "Policy", "AllCompleted", "ExplicitIds"}

Pc == {"start", "list", "select", "verify", "lookup", "artifacts",
       "classified", "planned", "refused"}

IsItem(item) ==
  /\ item.kind = kind /\ item.id \in Object
  /\ [created |-> item.created, touched |-> item.touched,
      attempt |-> item.attempt, completed |-> item.completed] \in State

TypeOK ==
  /\ kind \in Kind
  /\ now \in Instant
  /\ store \in Seq(Object) /\ \A i, j \in DOMAIN store : store[i] = store[j] => i = j
  /\ live \in [Object -> State]
  /\ protection \in [Object -> Assessment] /\ index \in [Object -> Assessment]
  /\ moves \in 0..MaxMoves /\ shifts \in 0..moves
  /\ pc \in Pc
  /\ \A items \in {read, snapshot, chosen, targets} : \A i \in DOMAIN items : IsItem(items[i])
  /\ scanned \in 0..now
  /\ mode \in Mode
  \* A plan names no object twice, in the order of the ids.
  /\ pc = "planned" => \A i, j \in DOMAIN targets : i < j => targets[i].id < targets[j].id

-----------------------------------------------------------------------------
(* The provider, which others use too *)

\* The artifacts API says nothing of the name of the workflow.
IntoDomain(values) == [d \in DOMAIN values \ {"workflow"} |-> values[d]]

\* What the adapter makes of an object in a response.
Item(id) ==
  [kind |-> kind, id |-> id, workflow |-> Workflow[id], number |-> id,
   values |-> IF kind = "artifact" THEN IntoDomain(Values[kind][id]) ELSE Values[kind][id],
   created |-> live[id].created, touched |-> live[id].touched,
   attempt |-> live[id].attempt, completed |-> live[id].completed]

InSeq(s) == {s[i] : i \in DOMAIN s}

\* Without the one place where the id is.
Without(s, id) ==
  LET place == CHOOSE i \in DOMAIN s : s[i] = id
  IN SubSeq(s, 1, place - 1) \o SubSeq(s, place + 1, Len(s))

Move == moves < MaxMoves /\ moves' = moves + 1 /\ UNCHANGED command

Busy == pc \notin {"classified", "planned", "refused"}

\* A new object is the first of the list, and no id is used twice; a new run is not
\* completed.
Upload(id) ==
  /\ Busy /\ Move
  /\ live[id].attempt = 0
  /\ \A other \in InSeq(store) \cup Initial : other < id
  /\ store' = <<id>> \o store
  /\ live' = [live EXCEPT ![id] = [created |-> now, touched |-> now, attempt |-> 1,
                                   completed |-> kind # "workflow_run"]]
  /\ shifts' = shifts + 1
  /\ UNCHANGED <<now, protection>>

Remove(id) ==
  /\ Busy /\ Move
  /\ id \in InSeq(store)
  /\ store' = Without(store, id)
  /\ UNCHANGED <<now, live, protection, shifts>>

\* A run is run again, or completes.
Rerun(id) ==
  /\ Busy /\ Move /\ kind = "workflow_run"
  /\ id \in InSeq(store)
  /\ live' = [live EXCEPT ![id].completed = ~@, ![id].touched = now,
                          ![id].attempt = IF live[id].completed THEN @ + 1 ELSE @]
  /\ UNCHANGED <<now, store, protection, shifts>>

\* A cache is used, and moves to the front.
Use(id) ==
  /\ Busy /\ Move /\ kind = "cache"
  /\ id \in InSeq(store)
  /\ store' = <<id>> \o Without(store, id)
  /\ live' = [live EXCEPT ![id].touched = now]
  /\ shifts' = shifts + 1
  /\ UNCHANGED <<now, protection>>

\* The lease of a run is held from its assessment until it is a target.
Leased(id) == pc \in {"lookup", "artifacts"} /\ kind = "workflow_run" /\ Head(chosen).id = id

\* protect, unprotect and a rename of the repository; the first two take the lease.
Protect(id) ==
  /\ Busy /\ Move /\ kind = "workflow_run"
  /\ ~Leased(id)
  /\ \E a \in Assessment \ {protection[id]} : protection' = [protection EXCEPT ![id] = a]
  /\ UNCHANGED <<now, store, live, shifts>>

Tick ==
  /\ Busy /\ Move
  /\ now < MaxDate
  /\ now' = now + 1
  /\ UNCHANGED remote

-----------------------------------------------------------------------------
(* Listing *)

\* run_plan has no protections; `purge plan' refuses without a valid store.
Start ==
  /\ pc = "start"
  /\ index' = protection
  /\ pc' = "list"
  /\ UNCHANGED <<now, moves, remote, kind, read, snapshot, scanned, mode, config, chosen, targets>>

\* Runs and artifacts are listed newest first, caches last used first.
SortTime(item) == IF kind = "cache" THEN item.touched ELSE item.created

\* Equal ones are in the order of their ids.
Sorted(items) ==
  LET Earlier(i, j) == \/ SortTime(items[i]) > SortTime(items[j])
                       \/ /\ SortTime(items[i]) = SortTime(items[j])
                          /\ items[i].id <= items[j].id
                          /\ items[i].id = items[j].id => i < j
      place(i) == 1 + Cardinality({j \in DOMAIN items : Earlier(j, i)})
  IN [n \in DOMAIN items |-> items[CHOOSE i \in DOMAIN items : place(i) = n]]

\* The snapshot of the scan: scanned_at is the time at its end.
EndScan(items) ==
  /\ pc' = "select"
  /\ snapshot' = Sorted(items)
  /\ scanned' = now

\* The next page: the ones before it were full, or the loop would have ended.
Number == (Len(read) + PerPage - 1) \div PerPage + 1

\* One request of the loop, and after the last one the end of the scan.
FetchPage ==
  /\ pc = "list"
  /\ LET page == Page(store, Number)
         all == read \o [i \in DOMAIN page |-> Item(page[i])]
     IN /\ read' = all
        /\ IF ListingEnds(page, Len(all), Len(store))
           THEN EndScan(all)
           ELSE UNCHANGED <<pc, snapshot, scanned>>
  /\ UNCHANGED <<now, moves, remote, kind, index, mode, config, chosen, targets>>

\* A request fails (the scan has an issue, which every plan refuses), the account is
\* another one, the rate limit is near or the store of the protections is damaged.
Refuse ==
  /\ pc \in {"start", "list", "verify", "lookup", "artifacts"}
  /\ pc' = "refused"
  /\ UNCHANGED <<now, moves, remote, kind, index, read, snapshot, scanned, mode, config, chosen, targets>>

-----------------------------------------------------------------------------
(* Selection *)

Classify(policy, i) ==
  IF kind = "artifact" THEN ClassifyArtifact(policy, snapshot, i, scanned)
  ELSE IF kind = "cache" THEN ClassifyCache(policy, snapshot, i, scanned)
  ELSE ClassifyRun(policy, snapshot, i, scanned, index[snapshot[i].id])

Doomed(policy) == {i \in DOMAIN snapshot : Classify(policy, i) = "Delete"}

\* The entries of the snapshot at `places', in its order.
Pick(places) ==
  LET Rank(i) == Cardinality({j \in places : j <= i})
  IN [n \in 1..Cardinality(places) |-> snapshot[CHOOSE i \in places : Rank(i) = n]]

\* The build reads the protections again.
Select(how, items) ==
  /\ mode' = how
  /\ chosen' = items
  /\ index' = protection
  /\ pc' = "verify"
  /\ UNCHANGED <<now, moves, remote, kind, read, snapshot, scanned, targets>>

\* delete_identities holds ids: every entry of the snapshot with one is selected.
SelectRunsByPolicy ==
  /\ pc = "select" /\ kind = "workflow_run"
  /\ \E policy \in Configs[kind] :
       /\ config' = policy
       /\ LET ids == {snapshot[i].id : i \in Doomed(policy)}
          IN Select("Policy", Pick({i \in DOMAIN snapshot : snapshot[i].id \in ids}))

\* The other filters choose by a pattern, as a rule of a policy does.
SelectAllRuns ==
  /\ pc = "select" /\ kind = "workflow_run"
  /\ \E older \in Ages :
       Select("AllCompleted", Pick({i \in DOMAIN snapshot :
         snapshot[i].completed /\ \A age \in older : Since(snapshot[i].created, now) >= age}))
  /\ UNCHANGED config

FirstOf(id) == CHOOSE i \in DOMAIN snapshot :
  snapshot[i].id = id /\ \A j \in 1..(i - 1) : snapshot[j].id # id

SelectRunIds ==
  /\ pc = "select" /\ kind = "workflow_run"
  /\ \E ids \in Requests :
       IF ids \subseteq {item.id : item \in InSeq(snapshot)}
          /\ \A id \in ids : snapshot[FirstOf(id)].completed
       THEN Select("ExplicitIds", Pick({FirstOf(id) : id \in ids}))
       ELSE /\ pc' = "refused"
            /\ UNCHANGED <<now, moves, remote, kind, index, read, snapshot, scanned,
                           mode, chosen, targets>>
  /\ UNCHANGED config

SelectAllCaches ==
  /\ pc = "select" /\ kind = "cache"
  /\ \E older, unused \in Ages :
       Select("AllCompleted", Pick({i \in DOMAIN snapshot :
         /\ \A age \in older : Since(snapshot[i].created, now) >= age
         /\ \A age \in unused : Since(snapshot[i].touched, now) >= age}))
  /\ UNCHANGED config

\* An id that is listed twice is ambiguous.
SelectCacheIds ==
  /\ pc = "select" /\ kind = "cache"
  /\ \E ids \in Requests :
       IF \A id \in ids : Cardinality({i \in DOMAIN snapshot : snapshot[i].id = id}) = 1
       THEN Select("ExplicitIds", Pick({FirstOf(id) : id \in ids}))
       ELSE /\ pc' = "refused"
            /\ UNCHANGED <<now, moves, remote, kind, index, read, snapshot, scanned,
                           mode, chosen, targets>>
  /\ UNCHANGED config

\* `classify caches' reports and stops there.
ClassifyCaches ==
  /\ pc = "select" /\ kind = "cache"
  /\ config' \in Configs[kind]
  /\ mode' = "Policy"
  /\ pc' = "classified"
  /\ UNCHANGED <<now, moves, remote, kind, index, read, snapshot, scanned, chosen, targets>>

ById(items) ==
  [n \in DOMAIN items |-> CHOOSE item \in InSeq(items) :
     Cardinality({other \in InSeq(items) : other.id <= item.id}) = n]

Twice(items) == \E i, j \in DOMAIN items : i # j /\ items[i].id = items[j].id

\* RunPurgePlan::new, CachePurgePlan::new: sorted by id, nothing twice.
Plan(items) ==
  IF Twice(items)
  THEN pc' = "refused" /\ UNCHANGED targets
  ELSE pc' = "planned" /\ targets' = ById(items)

\* The artifact plan is made of the decisions at once, and verified only by apply.
PlanArtifacts ==
  /\ pc = "select" /\ kind = "artifact"
  /\ \E policy \in Configs[kind] :
       /\ config' = policy
       /\ Plan(Pick(Doomed(policy)))
  /\ mode' = "Policy"
  /\ UNCHANGED <<now, moves, remote, kind, index, read, snapshot, scanned, chosen>>

-----------------------------------------------------------------------------
(* Verification of the choice *)

\* should_skip_protected
Skips(assessment) == assessment = "Protected" /\ mode # "ExplicitIds"
Blocks(assessment) ==
  assessment # "NoEntry" /\ (assessment = "Review" \/ mode = "ExplicitIds")

Take(assessment) ==
  /\ pc' = IF Blocks(assessment) THEN "refused" ELSE IF Skips(assessment) THEN "verify" ELSE "lookup"
  /\ chosen' = IF Skips(assessment) THEN Tail(chosen) ELSE chosen

\* Mutation of Assessed: what was read at the beginning is enough.
AssessedOnce(id) == index[id]

\* A run is assessed by the entries read at the beginning of the build, and when it has
\* none among them by the store under its lease.
Assessed(id) == IF index[id] = "NoEntry" THEN protection[id] ELSE index[id]

\* A run that is protected is left out, or refuses the plan.
TakeRun ==
  /\ pc = "verify" /\ kind = "workflow_run" /\ chosen # <<>>
  /\ Take(Assessed(Head(chosen).id))
  /\ UNCHANGED <<now, moves, remote, kind, index, read, snapshot, scanned, mode, config, targets>>

\* It has to be there, and exactly what was planned.
LookupRun ==
  /\ pc = "lookup" /\ kind = "workflow_run"
  /\ pc' = IF Head(chosen).id \in InSeq(store) /\ Item(Head(chosen).id) = Head(chosen)
           THEN "artifacts" ELSE "refused"
  /\ UNCHANGED <<now, moves, remote, kind, index, read, snapshot, scanned, mode, config, chosen, targets>>

\* The artifacts of the run are listed too, and the protection is assessed once more.
SnapshotArtifacts ==
  /\ pc = "artifacts"
  /\ targets' = Append(targets, Head(chosen))
  /\ chosen' = Tail(chosen)
  /\ pc' = "verify"
  /\ UNCHANGED <<now, moves, remote, kind, index, read, snapshot, scanned, mode, config>>

\* The lookup of a cache is a listing of its own, here in one step.
LookupCache ==
  /\ pc = "verify" /\ kind = "cache" /\ chosen # <<>>
  /\ IF Head(chosen).id \in InSeq(store) /\ Item(Head(chosen).id) = Head(chosen)
     THEN /\ targets' = Append(targets, Head(chosen))
          /\ chosen' = Tail(chosen)
          /\ UNCHANGED pc
     ELSE pc' = "refused" /\ UNCHANGED <<targets, chosen>>
  /\ UNCHANGED <<now, moves, remote, kind, index, read, snapshot, scanned, mode, config>>

FinishPlan ==
  /\ pc = "verify" /\ chosen = <<>>
  /\ Plan(targets)
  /\ UNCHANGED <<now, moves, remote, kind, index, read, snapshot, scanned, mode, config, chosen>>

-----------------------------------------------------------------------------
Init ==
  /\ kind \in Kind
  /\ now \in Starts
  /\ live = [id \in Object |-> IF id \in Initial
        THEN [created |-> Birth[id], touched |-> Birth[id], attempt |-> 1, completed |-> TRUE]
        ELSE [created |-> 0, touched |-> 0, attempt |-> 0, completed |-> FALSE]]
  /\ store = [n \in 1..Cardinality(Initial) |-> CHOOSE id \in Initial :
        Cardinality({other \in Initial : other >= id}) = n]
  /\ protection = [id \in Object |-> "NoEntry"]
  /\ index = protection
  /\ moves = 0 /\ shifts = 0
  /\ pc = "start" /\ mode = "none" /\ config = NoRules
  /\ read = <<>> /\ snapshot = <<>> /\ scanned = 0
  /\ chosen = <<>> /\ targets = <<>>

Environment ==
  \/ \E id \in Object : Upload(id) \/ Remove(id) \/ Rerun(id) \/ Use(id) \/ Protect(id)
  \/ Tick

Command ==
  \/ Start \/ FetchPage \/ Refuse
  \/ SelectRunsByPolicy \/ SelectAllRuns \/ SelectRunIds
  \/ SelectAllCaches \/ SelectCacheIds \/ ClassifyCaches \/ PlanArtifacts
  \/ TakeRun \/ LookupRun \/ SnapshotArtifacts \/ LookupCache \/ FinishPlan

Next == Environment \/ Command

Spec == Init /\ [][Next]_vars

-----------------------------------------------------------------------------
(* Properties *)

\* What a policy has condemned: the targets of its plan, or the report on caches.
Condemned ==
  IF mode # "Policy" THEN {}
  ELSE IF pc = "classified" THEN {snapshot[i] : i \in Doomed(config)}
  ELSE IF pc = "planned" THEN InSeq(targets)
  ELSE {}

\* How many others of the snapshot, no older than the item, are in the set that the
\* rule keeps the latest of.
AtLeastAsNew(rule, item) ==
  Cardinality({other.id : other \in {o \in InSeq(snapshot) :
    /\ o.id # item.id /\ o.created >= item.created
    /\ Matches(rule, o)
    /\ kind = "workflow_run" => o.completed /\ RunFamily(rule, o) = RunFamily(rule, item)}})

\* keep_latest (engine.rs keep_latest_selections and its two siblings): an object that
\* is among the latest N of a rule that matches it is not condemned, except for one
\* place per object that was pushed in at the front during the listing.
TheLatestAreSpared ==
  \A item \in Condemned : \A rule \in Matching(config, item) :
    \A n \in rule.keep_latest : n <= AtLeastAsNew(rule, item) + shifts

\* What POLICY.md says: keep_latest retains the newest in the set a rule matches.
TheLatestAreRetained ==
  \A item \in Condemned : \A rule \in Matching(config, item) :
    \A n \in rule.keep_latest : n <= AtLeastAsNew(rule, item)

\* POLICY.md lists `workflow' among the selectors of artifacts: what a rule protects by
\* its values at the provider is not condemned.
ProtectRulesProtect ==
  \A item \in Condemned : \A rule \in config.rules :
    ~(rule.protect /\ Matches(rule, [item EXCEPT !.values = Values[kind][item.id]]))

\* Counted day by day, in integers without a limit.
BusinessDaysSince(created, at) ==
  Cardinality({k \in 1..((at - created) \div Day) : ~Weekend(created + k * Day)})

Outlived(item, days, business, unused) ==
  /\ \A n \in days : scanned - item.created >= n * Day
  /\ \A n \in business : scanned >= item.created /\ BusinessDaysSince(item.created, scanned) >= n
  /\ \A n \in unused : scanned - item.touched >= n * Day

DefaultsOutlived(item) ==
  IF kind = "artifact" THEN Outlived(item, {config.keep_days}, {}, {})
  ELSE IF kind = "cache"
  THEN Outlived(item, {config.caches.keep_days}, {}, config.caches.keep_unused_days)
  ELSE Outlived(item, config.runs.keep_days, config.runs.keep_business_days, {})

\* Whatever a rule or a default says of the time an object is to be kept, what is
\* condemned has been kept so long, unless a rule with more selectors says otherwise:
\* no multiplication, rounding or conflict between rules (ClassifyArtifact,
\* ClassifyCache, ClassifyRun) makes an object older than it is.
RetentionIsOver ==
  \A item \in Condemned :
    LET retaining == {r \in Matching(config, item) :
                        r.keep_days \cup r.keep_business_days \cup r.keep_unused_days # {}}
    IN /\ retaining = {} => DefaultsOutlived(item)
       /\ \A r \in retaining :
            \/ Outlived(item, r.keep_days, r.keep_business_days, r.keep_unused_days)
            \/ \E s \in retaining : Specificity(s) > Specificity(r)

\* The arithmetic of business_day_deadline, whole weeks and a rest, agrees with counting
\* the Mondays to Fridays since the creation, at the scan and at any time to come.
DeadlineIsNthBusinessDay ==
  pc = "select" /\ kind = "workflow_run" =>
    \A item \in InSeq(snapshot) : \A later \in scanned..MaxDate : \A days \in 1..11 :
      BusinessDaysOver(item.created, later, days)
        <=> BusinessDaysSince(item.created, later) >= days

\* A rule that only protects, or only keeps the latest, leaves every retention as it
\* is: with it, no policy condemns an object it did not condemn without it.
MoreProtectionNeverDeletesMore ==
  mode = "Policy" /\ pc \in {"verify", "planned", "classified"} =>
    \A shield \in Shields[kind] :
      Doomed([config EXCEPT !.rules = @ \cup {shield}]) \subseteq Doomed(config)

\* RunPurgePlanningService::build holds the lease of a run from its assessment until it
\* is a target: a run that is protected at that moment does not become one, however
\* long ago the protections were read.
ProtectedIsNotPlanned ==
  [][kind = "workflow_run" /\ Len(targets') > Len(targets)
       => protection[targets'[Len(targets')].id] = "NoEntry"]_vars
=============================================================================
