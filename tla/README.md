# gh-housekeeper in TLA+

Specifications of the parts of gh-housekeeper that delete things at GitHub,
that decide what may be deleted, that keep the record of what was, and that run
unattended: TLA+ modules translated from the Rust sources, TLC configurations
that check them on small instances, and proofs that TLAPS checks for every value
of the constants.

`PROJECT.json` holds the tables that go with this text: the components, the runs
and their properties, the mutation of the code that breaks each property, the
source lines behind each definition, the hazards and the findings.

    tlc -workers 2 -config apply.cfg MCPurgeApply     # a run
    tlapm PurgeApply_proofs.tla                       # a proof module

## 1. The system

gh-housekeeper is a command-line tool and a foreground daemon for one user of one
machine.  There is no server and no shared database: what processes share are the
user's state directory and the GitHub account.

| Component | State | Operations | Interacts with |
|---|---|---|---|
| Run-protection store (`run_protections.rs`) | `v1.json`; a store lock and one lock file per hashed run key | `init`, `protect`, `unprotect`, `load_strict`, `acquire_target`, `assess` | the protect commands and the run-purge executor, through leases (flock) |
| Run-purge executor (`core/run_purge.rs`) | the items of the report, the rate-limit halt | `execute`, `execute_target` | GitHub (reads and DELETEs), the guard that holds the lease |
| `purge apply runs` (`main.rs`) and its audit trail (`run_purge_audit.rs`) | intent and record files | revalidate, prompt, intent, execute, record; `read_all`, `pending_intents` | all of the above; `purge history` reads its files |
| Create-only record files (eleven stores and files, each with its copy of the protocol) | files that are written once | look, create temporary, write, sync, look, rename; list and read back | other processes that write and read the same directory |
| Foreground daemon (`daemon_runtime.rs`, `agent.rs`, `daemon_lock.rs`) | the instance lock, the status, the cancellation | start, scan, sleep, shut down, join | three tasks of one process, and other processes by the lock |
| Local IPC server (`local_ipc.rs`) | the control socket and its path | probe and replace the path, serve, clean up | clients; an earlier or later daemon's socket |
| Account usage and quota alerts (`account_usage*.rs`, `usage_quota_alerts.rs`) | receipts of delivered alerts, observation history | poll, accept, persist, evaluate, look up, deliver, record | the billing API; the daemon's status; the receipts of earlier processes; the configuration |
| Monitoring scheduler (`monitoring.rs`, `monitoring_history.rs`) | the previous report, samples on disk | check, compare, signal, sleep | the daemon; samples of earlier processes |
| Artifact cleanup and cache purge (`cleanup.rs`, `revalidation.rs`, `execution.rs`, `cache*.rs`) | plan, report, audit record (caches: and intent) | revalidate, consent, look up, DELETE, verify, record | GitHub; earlier applications of the same plan |
| Planning and policies (`run_purge.rs`, `cleanup.rs`, `policy/`) | the snapshot, the choice, the plan | list, classify, choose, look up, assess, freeze, validate | GitHub, whose lists move meanwhile; the protection store |
| Provider adapter (`github/src/lib.rs`) | the next slot of a mutation | send, retry, wait, pace; paginate; ask for a bill | every caller of the one client |
| Configuration (`config.rs`) | one TOML file | `init`, load, validate | the daemon's usage task; a user with an editor |
| CLI, GUI stub | none | parse arguments, prompt, print | - |

What is hard in it:

* **Concurrency between processes.**  A protect may race a purge of the same run; two
  invocations may apply one plan; two writers may choose one file name; a daemon
  may start while its predecessor still cleans up its socket.
* **Remote objects that move.**  Between the look a DELETE is based on and the DELETE
  others may re-run, upload and delete; a DELETE's answer may be lost, and its
  effect may come after its answer.
* **Crashes.**  Every command is a sequence of file operations and remote mutations
  that may be cut anywhere; power losses take renames away that were not followed
  by a directory sync.
* **Lists that move.**  Collections are read page by page, by number, while others push
  objects to the front and remove them: an object is listed twice, or missed.
* **Rules that conflict.**  Several rules match one object, at several levels of specificity,
  with retention in days, business days and idle days, and quotas of the newest.
* **Shutdown.**  Ctrl-C, a client, a failed server and the end of the scheduler may all
  ask for it, at any time, in any combination, in three tasks.

What makes each part correct:

* protections: no DELETE once a protection is reported, and no reported protection
  lost; no command waits for ever on another;
* executor: nothing is deleted in another state than the reviewed one, the run goes
  last, the report hides nothing, the rate limit stops the batch;
* apply: every mutation is behind an intent or a record that `purge history` shows;
* record files: whole, never replaced, there when reported;
* daemon: one at a time, a server that can be reached, no alert twice, a shutdown
  that ends, a last status that promises no further check;
* scheduler: who follows the signals is right about the pressure, across failures, restarts
  and changed thresholds, or knows that he cannot tell;
* planning: nothing is condemned that a rule still keeps or the store protects, and more
  protection never condemns more;
* cleanup: what is deleted is what was reviewed, in every application of the plan, the report
  owns up to it, and a rate limit halts a cache purge;
* usage: an alert rests on a bill of its owner and month, and is given once;
* adapter: no DELETE is sent a second time, mutations are spaced, a read ends.

## 2. Modules

    RunProtections      the store, the leases, protect / unprotect / init / the guard
    RunPurgeExecutor    one execution against a provider that drifts
    RecordStore         the create-only write protocol of each store, and its readers
    PurgeApply          invocations of `purge apply runs`; implements PurgeLedger
    PurgeLedger         what an audit trail promises
    Listing             pages of a list that moves
    Policy              the policy engine, as operators over items and rules
    Planning            `plan`, `classify`, `purge plan`; extends Policy and Listing
    Cleanup             `apply` of artifacts, `purge apply` of caches; the latter
                        implements PurgeLedger; extends Listing
    Daemon              processes: runtime, IPC server, usage task, receipts
    Monitoring          the scheduler over restarts, its history and signals
    Usage               bills, allowances and alerts over months and configurations
    Transport           how the GitHub client sends, retries and paces requests
    MC*                 constants and symmetry for TLC
    *_proofs            inductive invariants and theorems

### RunProtections

`file` is what processes read, `disk` what a power loss would leave; a rename changes the
first, `SyncDirectory` (or the kernel, `WriteBack`) brings the second up.  Each process
runs one command at a time (`cmd`, `key`, `pc`).  `Acquire`, `Recheck` are
`acquire_target` before and after the lock; `Assess`, `Purge`, `Answer` the executor's part;
`TakeStoreLock`, `Read`, `Replace`, `SyncDirectory` the writer's critical section, one step
per system call that matters.  `load_strict` holds the store lock only to read: one step
that is enabled while the lock is free.  `Timeout` is the 30-second bound of both lock waits,
`Abandon` a kill, `Land` a DELETE that takes effect (possibly after its sender is gone),
`Damage` the removal or corruption of `v1.json`.  Target lock files are named by a 64-bit hash of the
key, so `LockOf` need not be injective, and nothing in the proofs assumes it is.

### RunPurgeExecutor

One step is one call of the provider or the guard.  An object is kept as far as it
compares with the plan's snapshot: `planned`, `touched` (a run whose `updated_at` moved), `changed`,
`absent`.  `recent` and `earlier` remember what others changed since the executor's
last and last but one call: they say how old the look is that a DELETE is based on.
The provider is assumed to answer lookups truthfully at the moment of the call
(in particular a 404 means gone), and the DELETE of a run to take its artifacts and logs with it.
`PlanAssumption` is what `validate_integrity` establishes before execution.

### RecordStore

Every store has its own copy of the write protocol, and the copies differ.  `store` is one of
`Stores`, chosen in `Init`; each of the eleven says which names a writer tries and which temporary
file goes with each (`tries`, `last`), whether it looks again before the rename (`relook`; the two
cache-purge audit files do not), whether it removes a stale temporary file first (`clears`; only the
configuration, whose temporary name is fixed) and whether a taken name is an error (`oneFile`).
The audit stores give the temporary file a name derived from the final name, so holding the temporary
file is holding the name; a plan file's temporary name has the process id in it.  Where
temporary names are as exclusive as final ones, there is a second look and nothing is cleared, the
module says `Exclusive`: of the run-purge records and intents, artifact records, both kinds of samples and the receipts.
`NeverReplaced`, `ReportedIsKept` and `HistoryIsComplete` are about these six; `VisibleIsWhole` is about all but the
configuration.  A cache-purge writer that has looked before another one's rename frees the temporary name
can create it again and replace a reported record (finding `CacheIntentsStay`).
`record` is what processes see, `disk` what a power loss would leave.
A reader lists the directory and reads file after file (`List`, `Read`); `due` are the writers that
had reported when it listed.  There is no pruning anywhere in the code.

### PurgeApply and PurgeLedger

Invocations of the command on one plan.  Each of the components above is one step: a
command of the protection store, the DELETEs of one target, a record that is
written or not.  `PurgeLedger` is the abstract specification: an invocation mutates
only between its intent and its record.  `LedgerSpec` is the
refinement (`resolved <- records`).

### Listing, Policy and Planning

`Page` and `ListingEnds` are the loops of the adapter, which trust the provider's `total_count`.
Policy translates the engine decision by decision: validation, matching, specificity, retention
(`Seconds` with the overflow of the code's multiplication, `BusinessDayDeadline` by whole weeks and a
rest), and the quotas of the newest of the three kinds of object.  A glob is the set of values it matches;
an `Option` is a set of at most one element, so that `\A n \in rule.keep_days` reads as the code's `if let`.
Planning is one command: `FetchPage` until `EndScan` sorts the snapshot, one of the
selections (`SelectRunsByPolicy`, `SelectAllRuns`, `SelectRunIds`, and those of artifacts and caches),
then for each choice the lookup and, for runs, the assessment under the lease (`LookupRun`, `Assessed`), at
last `FinishPlan` with the plan's integrity.  `Environment` uploads, removes, re-runs, uses and protects
between any two requests; `shifts` counts what was pushed in at the front during the listing.

### Cleanup

One module for both commands, which are the same up to their requests: `kind` chooses.  `apply` counts the
applications of one plan, each from the review (`ReviewArtifact`, `ReviewCache`) over the consent, the
intent (caches only) and the loop to the record.  An artifact is looked up by id and its DELETE is
believed; a cache is looked for page by page (`CacheFound`), before its DELETE and after it (`Verify`), and
a rate limit halts the rest.  `changed` are the objects that are not what was reviewed, `recent` those
that moved since the last request, `shifted` says that the list moved during the lookup.  `Land` is a
DELETE that takes effect late.  `LedgerSpec` maps a cache purge to PurgeLedger; an artifact cleanup has
no intent and maps to nothing.

### Daemon

A process has a runtime (`runtime`), a server (`server`) and a usage task (`usage`).  The main task
polls runtime and server in one `select!`, so while the server is between two awaits
(`ServerRuns`) the runtime cannot move; the usage task and the signal
task are spawned and can.  Shared by processes: `lock` (the flock on `instance.lock`), `socket` (what the path names:
a live listener of a process, a dead one, nothing) and `receipt`.  `Look`, `Connect`,
`Remove`, `Bind` are the system calls of `prepare_socket_path` and `bind`; `Inspect`, `Unlink`, `CloseServer` are
`SocketCleanup` and the drop of the listener, in the order Rust drops them.
`Shutdown` is `DaemonControlHandle::shutdown`, used by every action that asks for one;
its three effects (status, cancellation, event) are one step, since whoever sees the first without the others
behaves as if it had come a little earlier.
`told` and `repeated` are history: which alerts were delivered, and which twice.  A
delivery whose receipt is lost to a kill or an error leaves `told`, because delivering it
again is what the code promises then.

### Monitoring

Where Daemon has the scheduler's loop, this module has what it says: `Level` and `SignalOf` are
`StorageThresholds::evaluate`, `evaluate_pressure_transition` and `notification_signal_for_transition`.
`history` holds the readable samples in the order of their names, `previous` the report the
next one is compared with: the newest sample of the account and scope at a start (`IsLatest`), then each
report that was persisted.  A scheduler stops anywhere and starts again with other thresholds, another
scope or another account.  `Once` is `monitor once`, which appends without the instance lock; `Fail` covers the
provider and the append; `KillUntold` is a kill between the append and the event, the only place where the two
come apart; `Damage` a sample that is removed or no longer readable.
`told` is history: the level that a follower of the signals takes a series to be at.  It becomes `"unknown"`
where the signals themselves leave it open (an incomplete scan, no thresholds, the first report, a report that
follows one of another account, to which the code compares it in vain) and where a sample that nobody signalled enters or leaves the history: `FollowerIsRight` excuses those and nothing else.
Samples are kept by the time in their names; that a clock may go back is left out.

### Usage

What Daemon has as one poll is taken apart here: `Load` with the validation of allowances and thresholds,
`UniqueBillingOwners`, the request and what is accepted of its answer (`Accepted`: the month and the owner have
to be those asked for, if the answer names them; an answer without a month or an owner is believed by the code, and
assumed by the model to be about what was asked), the quantity, the level, the candidates of the alerts, the
receipts.  `Bill`, `NextMonth` and `Edit` are the environment; an edited configuration counts from the
next start on, and an invalid one lets no daemon start.  An observation cannot be stale in the daemon, which reads the
clock for the evaluation before the provider does, so staleness is no branch of the model.
Percentages are compared as exact integers where the code has floats.  `monitor account` on its own delivers
nothing and is left out.

### Transport

`send_with_policy`, for the calls of concurrent tasks over one client.  Time is a counter of seconds (`clock`);
tasks wake up to `MaxLate` late, and answers take as long at most: the code has no such bound, so
`ReturnsInTime` is about what the adapter adds to the time of its requests.  `Begin` reserves a mutation's slot under the mutex of the client, `Send` comes
after the sleep, `Answer` takes any status with any wait, and `Pauses` decides whether and after how
long the call tries again.  Each member of `Read` and `Mutation` is one call.  Telemetry and the wording of the
returned error are left out.

## 3. Runs

| Run | Question | Instance |
|---|---|---|
| `protections` | `NoDeleteUnderProtection`, `InsertedSurvives`, `NoDeleteOfProtected`: can a protected run be deleted, a protection lost? | two processes, two runs, own lock files; kills, damage, power losses |
| `protections_liveness` | `CommandEnds`: does a command ever wait for another for ever? | two processes that contend for the one lock file of one run; only the first is known to run |
| `executor` | `OnlyReviewedStateIsDeleted`, `RunIsDeletedLast`, `ReportedRunIsGone`, `ReportOwnsUp`, `HaltIsFinal`, and the types | two targets, one with logs and an artifact, a second artifact uploaded late, `MaxDrift = 2` |
| `records` | `VisibleIsWhole`; of the exclusive stores `ReportedIsKept`, `HistoryIsComplete`, `NeverReplaced` | each of the eleven stores; three writers that try the same two names, a reader, one power loss |
| `apply` | `MutationsAreSurfaced`, `NewProtectionWins`, `LedgerSpec` | two invocations of a plan of two runs |
| `daemon` | `WorkUnderLock`, `NeverDeliveredTwice`, `ServerIsReachable`, `LastStatusIsFinal` | two processes, two alerts |
| `daemon_shutdown` | `ShutdownEnds` | two processes, one alert |
| `monitoring` | `FollowerIsRight`, `SignalsMeanMovement` | two accounts of one or two bytes, one scope, three configurations of the thresholds, the two newest samples |
| `planning` | `TheLatestAreSpared`, `RetentionIsOver`, `DeadlineIsNthBusinessDay`, `MoreProtectionNeverDeletesMore`, `ProtectedIsNotPlanned` | artifacts, caches and runs; every pair of a few rules; three objects and a fourth to come, pages of two, two moves of others |
| `cleanup` | `OnlyTheReviewedIsDeleted`, `ReportOwnsUp`, `AbsentUnlessMoved`, `HaltIsFinal`, `LedgerSpec` | a list of three and a fourth to come, pages of two, two targets, two applications, two moves |
| `usage` | `AlertsAreGrounded`, `OneRequestPerOwner`, `ToldOnceAsConfigured` | two owners, one with two spellings, two months, three changes of bills or configuration |
| `transport` | `MutationsArePaced`, `SentAgainAsAllowed`, `ReturnsInTime` | a read and two mutations over one client, four attempts |

Each run checks one question and keeps to the properties that several steps, mostly of several actors, would be needed to
break.  The type invariants `TypeOK` are in every module; TLC checks the executor's, whose report is built
element by element, and the others are proved where there is a proof module (section 5).

**Bounds.**  Two processes are what every race in the code is between: a lock has one holder and one
waiter, a path one owner and one intruder; `records` takes three because a third writer may
find the temporary file of the second gone and the first's record there.  Two runs let a
command about one entry overwrite the other's, and let a batch go on after a failure.  Two
alerts are needed for a damaged receipt that need not be the looked-up key's.
`MaxDrift = 2` gives two changes in one gap, or one in each of two adjacent gaps; the order
of three calls is the most any guard of the executor relates.  `MaxSamples = 2` keeps the newest sample and one more that a
restart falls back to when the newest is lost or of the other account; the three configurations make either
byte count every level it can have, `unconfigured` included.  Pages of two of a list of three or
four objects are the smallest list with a boundary that an object can cross in either direction, and two moves
are one across it and one more; the two targets of `cleanup` lie on different pages, and two applications
are what the difference between a first and a repeated one needs.  The rules of `planning` differ in every
kind of retention and in specificity, and conflicts are between two.  A day has two ticks there and `MaxSeconds`
and `MaxDate` are small, so that overflow, weekends and the last date are reached.  Two months and three
changes let an alert be given, the bill or the configuration change, and the month end.  `transport` has the
code's four attempts; the waits 0, 3 and 6 are none, the longest accepted and one beyond, with the code's 60 and 300
seconds scaled down to 3 and 5 and its pacing to 2.  Receipts, protections and
restarts are not bounded: processes start again as often as TLC likes.  Symmetry is used in
safety runs only, over sets whose members no definition distinguishes.

**Deadlock** is checked except where commands and calls end and nothing starts them again: `executor`, `records`,
`planning`, `cleanup`, `transport`, and `usage`, where a daemon with an invalid configuration stays off.

**Fairness.**  Only what a process does on its own is fair.  A remote call is not: the HTTP client is built without a
timeout (`github/src/lib.rs:96-99`), so any request may stay unanswered for ever.
`RunProtections!FairSpec`: the processes in `Running` go on with their local steps (`LocalStep`); both lock waits
are polling loops with a 30-second bound (`Timeout`), and file operations return.  `Lookup`, `Purge` and `Answer`
(`RemoteStep`) are not fair, nor is any step of a process that is not `Running`: it may hang in a request, be suspended
inside a critical section, or come back again and again.  The run has one process of each sort, and the claim
is about the first: it ends, or hangs in a request of its own, but never in a wait for a lock.
That a command whose request is never answered keeps its lease as long as it lives is so; others time out.
`Daemon!FairSpec`: the three tasks go on with what they do themselves (`OwnRuntime`, `OwnServer`, `OwnUsage`).  `Resolve`,
`Scan` and `Poll` wait for the provider, `HandleConnection` for a client to send a frame or hang up; they are not fair, and neither are
waking from a sleep, connecting, Ctrl-C, kills and starts.  `ShutdownEnds` says that a shutdown
ends the process unless it stays for ever in the billing call or with that client, the two waits that a shutdown does not
interrupt; a scan it does.

## 4. Findings

What the code does and a document or comment of the repository denies.  Each is a property of a module that no run lists; adding
it as INVARIANT (or PROPERTY) to the configuration named makes TLC show the behaviour.
`PROJECT.json` quotes the lines.

| Property | Configuration | What happens |
|---|---|---|
| `AlreadyProtectedIsDurable` (RunProtections) | `protections.cfg` | "already protected" is reported of an entry whose writer died before the directory sync |
| `ProtectedRunSurvives` (RunProtections) | `protections.cfg` | a DELETE whose sender died, or lost the answer, lands after a protection is reported: the lease ends with the sender, not with the effect |
| `DeletedArtifactIsGone` (RunPurgeExecutor) | `executor.cfg` with `Run = {r1}`, `Artifact = {a1, a2}`, `Targets <- OneTarget`, `Dependencies <- TwoArtifacts` | after the failed DELETE of another dependency, the artifacts are not enumerated again, and one that survived its DELETE stays "Deleted" |
| `ReportedIsDurable` (RecordStore) | `records.cfg` | the write-ahead intent is not followed by a directory sync; a power loss takes it |
| `CacheIntentsStay` (RecordStore) | `records.cfg` | two cache purges whose intents have one name (one process id, one microsecond): without a second look, the later rename replaces the intent of the purge that is already deleting |
| `PlansStay` (RecordStore) | `records.cfg` | two processes with one `--output` pass both looks, and the second rename replaces the first plan |
| `ConfigurationIsWhole` (RecordStore) | `records.cfg` | two `config init` share a temporary file, and a half-written configuration is renamed into place |
| `TheLatestAreRetained` (Planning) | `planning.cfg` | an upload during the listing makes an object count twice against `keep_latest` |
| `ProtectRulesProtect` (Planning) | `planning.cfg` | an artifact rule with `workflow` validates and never matches: artifacts come without a workflow's name |
| `DeletedCacheIsAbsent` (Cleanup) | `cleanup.cfg` | a cache that is used between two pages of the verification is reported deleted while it is there |
| `AttemptsAreRecorded` (Cleanup) | `cleanup.cfg` | an artifact `apply` that is killed before its end leaves its DELETEs in no record, behind no intent |
| `ToldOnce` (Usage) | `usage.cfg` | another spelling of a login, and an alert is given again |

## 5. Proofs

Eight modules hold theorems; each component has an inductive invariant, checked by TLC
before it was proved (Transport's without `Paced`, which is about all times to come), a lemma per action (or per conjunct and group of actions), and theorems that
follow from it.  An action property is proved from the same invariant, where needed with a second one.

* **`RunProtections_proofs`**, for any processes, keys, lock files and any hash.  `NoDeleteUnderProtection` is not
  inductive: it needs that a lease is the target lock and a critical section the
  store lock (`LocksHeld`), that what a writer has read still covers the file (`WriterCurrent`), that the entry a protect is
  about to report is there (`ReplacedVisible`), and that unreadable files have no entries.  From it: `TypeCorrect`,
  `LeasesAreExclusive`, `NoDeleteIsUnderProtection`, `InsertedProtectionsSurvive`, `NoDeleteIsOfProtected`.
* **`RunPurgeExecutor_proofs`**, for any plan that passed `validate_integrity` and any drift.  All six properties of the run.
  `IInv` ties the finished prefix of the report to what was `sent`: every DELETE is of a target
  that was begun (`SentBegun`), the open target's outcomes are honest about its own (`OpenHonest`), and a limit that was
  met leaves no later target begun (`LimitHalts`).  `LookInv` says what the last look saw, at each place of
  `execute_target`, up to the changes in `recent` and `earlier`; `GoneInv` that a run that was found absent stays so.
  From them: `TypeCorrect`, `ReportsOwnUp`, `HaltsAreFinal`, `OnlyTheReviewedIsDeleted`, `RunsAreDeletedLast`, `ReportedRunsAreGone`.
* **`RecordStore_proofs`**, for any number of writers, names, deaths and power losses, for every store but the
  configuration, of which finding `ConfigurationIsWhole` says that it is false.  The argument: a temporary file
  that nobody clears is its writer's alone, hence whole when it is renamed (`TempHeld`); under `Exclusive`, nothing can take the
  name after the second look (`NameFree`).  `ReaderOwes` says that a reader has found, or has left to read, everything that was due.
  From it: `RecordsAreWhole`, `ReportedRecordsAreKept`, `HistoriesAreComplete`, `RecordsAreNeverReplaced`.
* **`Cleanup_proofs`**, for any plan, list, page size and number of applications: `ReportsOwnUp`, `HaltsAreFinal`,
  `OnlyTheReviewedAreDeleted`, `ImplementsLedger` and `AbsentMeansMoved`, all five properties of the run.  The last is about paging: the
  pages read so far are the beginning of the list as long as nothing shifted (`Unseen`), so a list that has no further page and of which no page had the target does not have it.
* **`Provider_proofs`** is about what is read from the provider and what is sent to it.
  *Planning*, for any objects and values, any policies that `PolicyConfig::validate` accepts, any page size and any moves of
  others.  `PlanningInv` has six parts: nothing is younger than the clock
  (`RemoteTyped`); what is chosen or planned is of the snapshot (`CommandTyped`); what an entry says of its creation and its
  values stays true of its object (`Listed`, so that two entries of one object, from two pages, agree in what a policy looks at);
  whoever is leased is not protected (`Lease`); what a policy has chosen it condemns, although the protections have been
  read again since (`Justified`); and every entry that is listed twice, or still may be, is one that was pushed down (`Paged`).
  From it: `PlanningIsTyped`, `LeaseKeepsProtectedOut`, `CondemnedAreOver`, `LatestAreNotCondemned`, `DeadlinesAreBusinessDays`,
  `ShieldsOnlySpare`: all five properties of the run.
  `LatestAreNotCondemned` turns on `Paged`: a page that follows the last one reads each object that has stayed
  behind it once, and an upload or a use puts at most one object twice into the snapshot, so that of the places which
  are counted before a condemned object at most `shifts` are repetitions (`PageCounts`, `NamesOfPlaces`).
  `DeadlinesAreBusinessDays` is arithmetic: five of any seven days in a row count, hence five of each whole week
  (`WorkedAWeek`, `WorkedWeeks`), and the seven days after the whole weeks hold the rest.
  `CondemnedAreOver` needs that no date is `MaxSeconds` away (`PolicyAssumption`), so that the saturating product is either
  exact or too large to be reached, and that the rules that decide are the most specific ones and agree (`RulesDecide`, `OneRetention`).
  *Transport*, for any requests, waits and times: `TransportIsTyped`, `OnlyReadsAreSentAgain`, `AllMutationsArePaced`,
  `ReadsReturnInTime`: all three properties of the run.  Slots are handed out at least `Pacing` apart (`Slots`) and nobody sends
  before his slot, so that at any time to come no more mutations are due than the time allows (`Paced`), which the cardinality
  theorems of the library count; the attempts a read has made bound the time it has taken.
* **`Monitoring_proofs`** is about what the two loops of monitoring tell.
  *Monitoring*, for any accounts, scopes, thresholds and length of the history: `TypeCorrect`, `FollowersAreRight`,
  `AllSignalsMeanMovement`.  `FollowerIsRight` is about the scheduler's baseline only; inductive is that what a follower believes of a
  series is also the level of its newest sample (`Right`), since that is the baseline of the next start, and that
  he never believes "unconfigured".
  *Usage*, for any owners and spellings, bills, configurations and months: `UsageIsTyped`, `AllAlertsAreGrounded`,
  `OwnersAreAskedOnce`, `LimitsAreToldOnce`: all three properties of the run.  `UsageInv` says that the owners still to be polled are
  those who have not been asked (`OwnersAreAsked`; each is at its first spelling, a least place), that the observation is
  of the cycle's month and says what was listed (`ObservedIsListed`, `DueIsObserved`), and that the receipt of an alert spells its owner
  as the configuration that gave the alert does (`ToldHasReceipt`), without which it would not be found again.
* **`PurgeApply_proofs`**, for any invocations and any plan: `AllMutationsAreSurfaced`, `NewProtectionsWin` and
  `ImplementsLedger` (every step is a ledger step or a stutter).  The invariant says which places lie before
  the intent, between intent and record, and under a lease, and that an assessment
  stays true until its DELETE.
* **`Daemon_proofs`**, for any processes and alerts: `WorkIsUnderLock`, `AlertsAreDeliveredOnce`,
  `ServersAreReachable`, `LastStatusesAreFinal`.  The heart is `TasksInside`: the usage task and the preparation of the
  socket end before the runtime does, hence happen under the instance lock (`LockHeld`), hence in one process at a time.
  So a receipt that was found missing stays missing until it is written (`AlertsNew`), and a
  socket that was found dead stays dead until it is removed (`SocketHeld`); the old daemon's cleanup, which
  happens after its lock is gone, removes its own socket because the listener outlives the unlink.

Assumed, in the modules, and evaluated by TLC in each run: `LockAssumption`, `PlanAssumption` (plans that passed
`validate_integrity`), `LogsAssumption`, `NamesAssumption`, `NothingAssumption`, `CallsAssumption` (distinct markers and
requests), `ThresholdAssumption` (`StorageThresholds::new`), `PerPageAssumption`, `TimesAssumption`, and
`BackoffAssumption`, that powers of two are natural numbers that grow, which the provers do not know; `PlanningAssumption` (policies
are valid, nothing is created after the command starts, a shield says nothing of retention), `PolicyAssumption` (a day
has a length, and no date is more seconds away than a `u64` counts) and `UsageAssumption` (the sets the environment chooses from).  Assumed, by the
models: flock excludes, rename is atomic, a lookup answers
truthfully, a bill that names no month or owner is of those asked for, an answer in Transport takes at most `MaxLate`, damage to a file takes its entries or makes it unreadable but invents none;
PurgeApply leaves power losses to RecordStore.

**Only model-checked.**  `CommandEnds` and `ShutdownEnds`, which are liveness, and RecordStore's configuration file, for which the
theorems do not hold.  The findings are TLC counterexamples.

**Induction.**  The provers cannot instantiate the library's induction theorems, which take an operator.  Where a proof
needs induction over the numbers, it is about a set of them: a set that has 0, and with each number the next, has all
(`AllNumbers`), since one that lacked some would lack a least one (`LeastOf`, from the library's theorem that the order of
the numbers is well-founded).  No definition is recursive.

## 6. Not modelled

* **Graphical interface.**  A stub of three lines.
* **Command line.**  The control flow of commands that plan, protect and delete is in the modules of what they do, prompts
  included; arguments, tables, JSON output and read-only reports are presentation.
* **Provider adapter.**  Sending, pacing, paging and the acceptance of a bill are modelled; JSON decoding, the listing of repositories
  and the telemetry counter are not.
* **Inventory.**  The scan of one repository is in Planning.  The scans of several run side by side and share nothing but the
  client, which Transport has; their aggregation is sums.
* **Configuration.**  `config init`, loading and validation are modelled.  `save` has no caller; the settings
  that no modelled command reads are left out.
* **Frames** of the IPC protocol and their limits.
* **The artifacts of a run** are enumerated in one step by the executor and by the planning of runs; only a run with more than a hundred
  has a second page.  Cleanup shows for caches what a list that moves does to such an enumeration.
* **That a rate limit was met** is recognised by the wording of an error (`run_purge.rs:1233`, `cache_purge.rs:602`); the
  models take the classification as given.
* **Time**, outside Planning and Transport: intervals, maximum ages and expiry of plans are choices left open.

## 7. Plan

Done, in the order of what an error would cost: RunProtections, RunPurgeExecutor, RecordStore, PurgeApply over PurgeLedger, Daemon,
Monitoring; then Planning over Policy and Listing, Cleanup over Listing and PurgeLedger, Usage, Transport; and
the theorems of all of them.  What is left:

1. Paging in the executor's enumeration of a run's artifacts, with Listing, as in Cleanup.
2. RunPurgeExecutor against an abstract batch, one target at a time with its outcome decided once, as the step
   that PurgeApply takes for it.
3. A theorem for each finding's converse: what has to be excluded for the property to hold (no two processes with one
   `--output`, no power loss, no move during a listing).

The project keeps to a dozen runs, one per question.
