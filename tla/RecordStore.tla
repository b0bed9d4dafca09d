----------------------------- MODULE RecordStore -----------------------------
(***************************************************************************)
(* How gh-housekeeper writes a file that must be new: audit records and    *)
(* intents, monitoring and account-usage samples, quota-alert receipts,    *)
(* purge-plan files and the first configuration.  A writer looks whether   *)
(* the name is free, creates a temporary file with create_new, writes and  *)
(* synchronises it, looks again and renames.  Every store has a copy of    *)
(* this protocol of its own, and the copies differ: Stores says how.       *)
(* Histories are read back while others write (List, Read).                *)
(*                                                                         *)
(* A stem is made of the time, the process id and the attempt: writers     *)
(* with one process id (containers that share the state directory) and     *)
(* one microsecond have the same names, and here all writers have.  What   *)
(* is written is kept as far as whose it is and whether it is whole.       *)
(***************************************************************************)
EXTENDS Naturals, Sequences

CONSTANTS
  Writer,         \* the processes, each writing one record
  MaxAttempts,    \* MAX_NAME_ATTEMPTS
  Everyone,       \* owner of a temporary name that any writer may use
  Nothing,        \* no such file
  MaxPowerLosses  \* bound: power losses

Name == 1..MaxAttempts
Temp == (Writer \cup {Everyone}) \X Name
Files == [by : Writer, whole : BOOLEAN]

ASSUME NamesAssumption ==
  /\ MaxAttempts \in Nat \ {0}
  /\ Everyone \notin Writer
  /\ Nothing \notin Files
  /\ Nothing \notin [left : SUBSET Name, due : SUBSET Writer,
                     found : SUBSET Writer, issue : BOOLEAN]
  /\ MaxPowerLosses \in Nat

-----------------------------------------------------------------------------
(* The stores: the file and the temporary file of each attempt, whether     *)
(* there is a second look, whether there is one file only, so that a taken  *)
(* name is an error, and whether a temporary file found is removed first.   *)

Protocols ==
  [tries : [Writer -> [1..MaxAttempts -> [name : Name, temp : Temp]]],
   last : Name, relook : BOOLEAN, oneFile : BOOLEAN, clears : BOOLEAN]

\* A stem per attempt; the temporary file is named after the final one.
StemTries ==
  [w \in Writer |-> [i \in 1..MaxAttempts |-> [name |-> i, temp |-> <<Everyone, i>>]]]

\* One file, and temporary files named after the process and the attempt.
OutputTries ==
  [w \in Writer |-> [i \in 1..MaxAttempts |-> [name |-> 1, temp |-> <<w, i>>]]]

\* One file, and one temporary file.
FixedTries ==
  [w \in Writer |-> [i \in 1..MaxAttempts |-> [name |-> 1, temp |-> <<Everyone, 1>>]]]

RunPurgeRecords ==
  [tries |-> StemTries, last |-> MaxAttempts,
   relook |-> TRUE, oneFile |-> FALSE, clears |-> FALSE]

\* An intent has a stem of its own kind, "intent-...", in the same directory.
RunPurgeIntents == RunPurgeRecords

ArtifactRecords == RunPurgeRecords

MonitoringSamples == RunPurgeRecords

AccountUsageSamples == RunPurgeRecords

AlertReceipts == RunPurgeRecords

\* write_exact of this store has no second look.
CachePurgeRecords == [RunPurgeRecords EXCEPT !.relook = FALSE]

CachePurgeIntents == CachePurgeRecords

RunPurgePlanFile ==
  [tries |-> OutputTries, last |-> MaxAttempts,
   relook |-> TRUE, oneFile |-> TRUE, clears |-> FALSE]

CachePurgePlanFile == RunPurgePlanFile

\* `config init`.
ConfigurationFile ==
  [tries |-> FixedTries, last |-> 1,
   relook |-> TRUE, oneFile |-> TRUE, clears |-> TRUE]

Stores ==
  {RunPurgeRecords, RunPurgeIntents, ArtifactRecords, MonitoringSamples,
   AccountUsageSamples, AlertReceipts, CachePurgeRecords, CachePurgeIntents,
   RunPurgePlanFile, CachePurgePlanFile, ConfigurationFile}

-----------------------------------------------------------------------------
VARIABLES
  store,    \* the store they write to
  record,   \* the final files as read_dir and open find them
  disk,     \* the final files a power loss leaves
  temp,     \* the temporary files
  pc,       \* where each writer is
  attempt,  \* which of its names it is trying
  reader,   \* a command that reads the history: the files left to read, the
            \* writers that had reported when it began, those it has found, and
            \* whether it has met a file it must report as damaged
  losses    \* power losses so far

vars == <<store, record, disk, temp, pc, attempt, reader, losses>>

Pc == {"look", "clear", "create", "write", "relook", "rename", "done", "failed"}

Readers == [left : SUBSET Name, due : SUBSET Writer, found : SUBSET Writer, issue : BOOLEAN]

TypeOK ==
  /\ store \in Stores
  /\ record \in [Name -> Files \cup {Nothing}]
  /\ disk \in [Name -> Files \cup {Nothing}]
  /\ temp \in [Temp -> Files \cup {Nothing}]
  /\ pc \in [Writer -> Pc]
  /\ attempt \in [Writer -> 1..MaxAttempts]
  /\ reader \in Readers \cup {Nothing}
  /\ losses \in 0..MaxPowerLosses

Init ==
  /\ store \in Stores
  /\ record = [n \in Name |-> Nothing]
  /\ disk = record
  /\ temp = [t \in Temp |-> Nothing]
  /\ pc = [w \in Writer |-> "look"]
  /\ attempt = [w \in Writer |-> 1]
  /\ reader = Nothing
  /\ losses = 0

-----------------------------------------------------------------------------
NameOf(w) == store.tries[w][attempt[w]].name
TempFor(w) == store.tries[w][attempt[w]].temp

Goto(w, place) == pc' = [pc EXCEPT ![w] = place] /\ UNCHANGED attempt

\* DestinationExists: the writer tries its next name, or has none left.  With one
\* file only the temporary name changes, and the first look is not repeated.
TryNext(w) ==
  IF attempt[w] < store.last
  THEN /\ pc' = [pc EXCEPT ![w] = IF store.oneFile THEN "create" ELSE "look"]
       /\ attempt' = [attempt EXCEPT ![w] = @ + 1]
  ELSE Goto(w, "failed")

\* The final name is taken.
NameTaken(w) == IF store.oneFile THEN Goto(w, "failed") ELSE TryNext(w)

RemoveTemp(w) == temp' = [temp EXCEPT ![TempFor(w)] = Nothing]

KeepRest == UNCHANGED <<store, disk, reader, losses>>

Look(w) ==
  /\ pc[w] = "look"
  /\ IF record[NameOf(w)] # Nothing
     THEN NameTaken(w)
     ELSE Goto(w, IF store.clears THEN "clear" ELSE "create")
  /\ UNCHANGED <<record, temp>>
  /\ KeepRest

\* "remove stale temporary configuration", whoever uses it.
Clear(w) ==
  /\ pc[w] = "clear"
  /\ RemoveTemp(w)
  /\ Goto(w, "create")
  /\ UNCHANGED record
  /\ KeepRest

\* Mutation of Create: create where create_new is meant.
CreateOrTruncate(w) ==
  /\ pc[w] = "create"
  /\ temp' = [temp EXCEPT ![TempFor(w)] = [by |-> w, whole |-> FALSE]]
  /\ Goto(w, "write")
  /\ UNCHANGED record
  /\ KeepRest

\* create_new fails on a temporary file somebody uses or left behind.
Create(w) ==
  /\ pc[w] = "create"
  /\ IF temp[TempFor(w)] # Nothing
     THEN TryNext(w) /\ UNCHANGED temp
     ELSE /\ temp' = [temp EXCEPT ![TempFor(w)] = [by |-> w, whole |-> FALSE]]
          /\ Goto(w, "write")
  /\ UNCHANGED record
  /\ KeepRest

Half(w) == [by |-> w, whole |-> FALSE]
Completed(w, file) == IF file = Half(w) THEN [file EXCEPT !.whole = TRUE] ELSE file

\* write_all and sync_all go to the file the writer created, whatever its name is by
\* now, if it has one; an error removes what the temporary name stands for.
Write(w) ==
  /\ pc[w] = "write"
  /\ \/ /\ temp' = [t \in Temp |-> Completed(w, temp[t])]
        /\ record' = [n \in Name |-> Completed(w, record[n])]
        /\ Goto(w, "relook")
     \/ RemoveTemp(w) /\ Goto(w, "failed") /\ UNCHANGED record
  /\ KeepRest

\* Mutation of Relook: the first look is enough.
TrustFirstLook(w) ==
  /\ pc[w] = "relook"
  /\ Goto(w, "rename")
  /\ UNCHANGED <<temp, record>>
  /\ KeepRest

Relook(w) ==
  /\ pc[w] = "relook"
  /\ IF store.relook /\ record[NameOf(w)] # Nothing
     THEN RemoveTemp(w) /\ NameTaken(w)
     ELSE Goto(w, "rename") /\ UNCHANGED temp
  /\ UNCHANGED record
  /\ KeepRest

\* rename replaces what is there.  The directory is not synchronised.  When it fails,
\* the configuration's temporary file stays.
Rename(w) ==
  /\ pc[w] = "rename"
  /\ \/ /\ temp[TempFor(w)] # Nothing
        /\ record' = [record EXCEPT ![NameOf(w)] = temp[TempFor(w)]]
        /\ RemoveTemp(w)
        /\ Goto(w, "done")
     \/ /\ IF store.clears THEN UNCHANGED temp ELSE RemoveTemp(w)
        /\ Goto(w, "failed")
        /\ UNCHANGED record
  /\ KeepRest

\* The process is killed, or cannot even create the file.
Die(w) ==
  /\ pc[w] \notin {"done", "failed"}
  /\ Goto(w, "failed")
  /\ UNCHANGED <<record, temp>>
  /\ KeepRest

-----------------------------------------------------------------------------
(* A command that reads the history *)

\* Mutation of List: the temporary files are taken for records.
ListAll ==
  /\ reader = Nothing
  /\ reader' = [left |-> {n \in Name : record[n] # Nothing \/ temp[<<Everyone, n>>] # Nothing},
                due |-> {w \in Writer : pc[w] = "done"}, found |-> {}, issue |-> FALSE]
  /\ UNCHANGED <<store, record, disk, temp, pc, attempt, losses>>

\* read_dir, the *.json files only.
List ==
  /\ reader = Nothing
  /\ reader' = [left |-> {n \in Name : record[n] # Nothing},
                due |-> {w \in Writer : pc[w] = "done"}, found |-> {}, issue |-> FALSE]
  /\ UNCHANGED <<store, record, disk, temp, pc, attempt, losses>>

\* The files are read in the order of their names; what cannot be read or parsed is an
\* issue and the reading goes on.
Read(n) ==
  /\ reader # Nothing
  /\ n \in reader.left
  /\ \A m \in reader.left : n <= m
  /\ LET readable == record[n] # Nothing /\ record[n].whole
     IN reader' = [reader EXCEPT !.left = @ \ {n},
                                 !.found = IF readable THEN @ \cup {record[n].by} ELSE @,
                                 !.issue = @ \/ ~readable]
  /\ UNCHANGED <<store, record, disk, temp, pc, attempt, losses>>

-----------------------------------------------------------------------------
(* The environment *)

\* The kernel writes a directory entry back.
WriteBack ==
  \E n \in Name :
    /\ disk[n] # record[n]
    /\ disk' = [disk EXCEPT ![n] = record[n]]
    /\ UNCHANGED <<store, record, temp, pc, attempt, reader, losses>>

\* What a temporary name may stand for after a power loss.
Survivors(t) ==
  {temp[t], Nothing} \cup {record[NameOf(w)] : w \in {v \in Writer : TempFor(v) = t}}

\* The machine loses power.  A name not written back is gone, and a temporary
\* file is there or not, perhaps again under the name it was renamed from.
PowerLoss ==
  /\ losses < MaxPowerLosses
  /\ losses' = losses + 1
  /\ record' = disk
  /\ pc' = [w \in Writer |-> IF pc[w] = "done" THEN "done" ELSE "failed"]
  /\ LET used == {t \in Temp : Survivors(t) # {Nothing}}
     IN \E f \in [used -> UNION {Survivors(t) : t \in used}] :
          /\ \A t \in used : f[t] \in Survivors(t)
          /\ temp' = [t \in Temp |-> IF t \in used THEN f[t] ELSE Nothing]
  /\ reader' = Nothing
  /\ UNCHANGED <<store, disk, attempt>>

-----------------------------------------------------------------------------
Step(w) ==
  Look(w) \/ Clear(w) \/ Create(w) \/ Write(w) \/ Relook(w) \/ Rename(w) \/ Die(w)

Next ==
  \/ \E w \in Writer : Step(w)
  \/ List
  \/ \E n \in Name : Read(n)
  \/ WriteBack
  \/ PowerLoss

Spec == Init /\ [][Next]_vars

-----------------------------------------------------------------------------
(* Properties *)

\* Two looks that are not atomic with the rename are made so by a temporary file that
\* is as exclusive as the final one, and that nobody removes.  So it is in six of the
\* eleven; not in the cache-purge audit files (no second look), the plan files (a
\* temporary file per process) and the configuration (which clears it).
Exclusive ==
  /\ store.relook
  /\ ~store.clears
  /\ \A v, w \in Writer, i, j \in 1..MaxAttempts :
       store.tries[v][i].name = store.tries[w][j].name
         => store.tries[v][i].temp = store.tries[w][j].temp

RecordsStay ==
  \A n \in Name : record[n] # Nothing => record'[n] \in {record[n], Nothing}

\* In an exclusive store, a record that is there is never replaced by another writer's.
NeverReplaced == [][Exclusive => RecordsStay]_vars

\* The purge-plan writers: "refusing to overwrite existing purge-plan file".
PlansStay == [][store = RunPurgePlanFile => RecordsStay]_vars

\* SAFETY.md on cache purges: "a durable intent is persisted before the first mutation".
CacheIntentsStay == [][store = CachePurgeIntents => RecordsStay]_vars

\* A reader never sees, not even after a power loss, a record that is cut short.
VisibleIsWhole ==
  ~store.clears =>
    \A n \in Name :
      /\ record[n] # Nothing => record[n].whole
      /\ disk[n] # Nothing => disk[n].whole

\* The same of the configuration, which two `config init` at a time can cut short.
ConfigurationIsWhole == \A n \in Name : record[n] # Nothing => record[n].whole

Reported(w) == pc[w] = "done"
Kept(w) == record[NameOf(w)] = [by |-> w, whole |-> TRUE]

\* In an exclusive store, a writer that reports success finds its own record under the
\* name it reports, for as long as the machine keeps running.
ReportedIsKept ==
  Exclusive => \A w \in Writer : Reported(w) /\ losses = 0 => Kept(w)

\* The history of an exclusive store that is read while others append to it has everything
\* reported before the reading began, and calls no file damaged.
HistoryIsComplete ==
  Exclusive /\ reader # Nothing =>
    /\ ~reader.issue
    /\ losses = 0 /\ reader.left = {} => reader.due \subseteq reader.found

\* SAFETY.md and README.md on purge intents: once reported, durable.
ReportedIsDurable == store = RunPurgeIntents => \A w \in Writer : Reported(w) => Kept(w)
=============================================================================
