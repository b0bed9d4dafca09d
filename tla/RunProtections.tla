--------------------------- MODULE RunProtections ---------------------------
(***************************************************************************)
(* The local store of exact workflow-run protections, the locks around it  *)
(* and the three commands that meet there: `runs protect`, `runs           *)
(* unprotect` and the just-in-time guard of the run-purge executor, plus   *)
(* `runs protections init`.                                                *)
(*                                                                         *)
(* Two kinds of flock serialise the commands.  A target lock, one file per *)
(* hash of a run's key, is held for the whole life of a lease: by a        *)
(* protect from before its remote lookup to after its write, by the        *)
(* executor from before its assessment to after its last DELETE.  The      *)
(* store lock is held for one read or one read-modify-replace of v1.json.  *)
(* A load_strict only reads under the store lock, so it is one step taken  *)
(* while the lock is free; a writer's critical section is split in steps.  *)
(*                                                                         *)
(* The file has two values: what processes read (file), and what a power   *)
(* loss leaves (disk), which lags behind a rename until the directory is   *)
(* synchronised or the kernel happens to write it back.                    *)
(***************************************************************************)
EXTENDS Naturals, FiniteSets

CONSTANTS
  Proc,     \* processes of one user: CLI commands, each doing one thing at a time
  Key,      \* exact run identities, RunProtectionKey
  Lock,     \* the target lock files
  LockOf,   \* the lock file of a key: a 64-bit hash, not injective in general
  NoProc,   \* the holder of a free lock
  Running   \* the processes that nobody suspends: those that a liveness claim is about

ASSUME LockAssumption ==
  /\ LockOf \in [Key -> Lock]
  /\ NoProc \notin Proc
  /\ Running \subseteq Proc

VARIABLES
  file,        \* v1.json as open() finds it
  disk,        \* v1.json as a restart after a power loss finds it
  targetLock,  \* the holder of each target lock
  storeLock,   \* the holder of .store.lock
  pc,          \* where each process is in its command
  cmd,         \* the command it runs
  key,         \* the run it is about
  seen,        \* the entries a writer has read under the store lock
  remote,      \* the runs that exist at the provider
  inflight,    \* runs with a DELETE sent whose effect is still to come
  inserted,    \* keys reported "Protected", and neither unprotected nor destroyed since
  already      \* keys reported "Already protected", likewise

vars == <<file, disk, targetLock, storeLock, pc, cmd, key, seen, remote,
          inflight, inserted, already>>

-----------------------------------------------------------------------------
(* Types *)

\* "missing": there is no v1.json; "corrupt": it is there and load_strict refuses
\* it (it does not parse, has an unknown version, an invalid or duplicate entry).
File == [health : {"missing", "corrupt", "ok"}, entries : SUBSET Key]

Stored(K)   == [health |-> "ok", entries |-> K]
Unreadable(h) == [health |-> h, entries |-> {}]

Command == {"protect", "unprotect", "purge", "init"}

\* The places at which a process holds the store lock, and those at which it
\* holds the lease of its key (init goes through the last four without one).
StorePc == {"read", "write", "sync"}
LeasePc == {"recheck", "lookup", "assess", "purging", "answer", "lock"} \cup StorePc

Pc == {"idle", "check", "acquire"} \cup LeasePc

TypeOK ==
  /\ file \in File
  /\ disk \in File
  /\ targetLock \in [Lock -> Proc \cup {NoProc}]
  /\ storeLock \in Proc \cup {NoProc}
  /\ pc \in [Proc -> Pc]
  /\ cmd \in [Proc -> Command]
  /\ key \in [Proc -> Key]
  /\ seen \in [Proc -> SUBSET Key]
  /\ remote \in SUBSET Key
  /\ inflight \in SUBSET Key
  /\ inserted \in SUBSET Key
  /\ already \in SUBSET Key

Init ==
  /\ file = Unreadable("missing")
  /\ disk = Unreadable("missing")
  /\ targetLock = [l \in Lock |-> NoProc]
  /\ storeLock = NoProc
  /\ pc = [p \in Proc |-> "idle"]
  /\ cmd \in [Proc -> Command]
  /\ key \in [Proc -> Key]
  /\ seen = [p \in Proc |-> {}]
  /\ remote = Key
  /\ inflight = {}
  /\ inserted = {}
  /\ already = {}

-----------------------------------------------------------------------------
(* Helpers *)

Goto(p, place) == pc' = [pc EXCEPT ![p] = place]

MyLock(p) == LockOf[key[p]]

\* The command returns: every lock it holds is dropped with its File.
Return(p) ==
  /\ Goto(p, "idle")
  /\ seen' = [seen EXCEPT ![p] = {}]
  /\ targetLock' = [l \in Lock |-> IF targetLock[l] = p THEN NoProc ELSE targetLock[l]]
  /\ storeLock' = IF storeLock = p THEN NoProc ELSE storeLock

\* It goes on to its next step, its locks as they are.
Continue(p, place) == Goto(p, place) /\ UNCHANGED <<targetLock, storeLock, seen>>

KeepCommands == UNCHANGED <<cmd, key>>
KeepStore    == UNCHANGED <<file, disk, inserted, already>>
KeepProvider == UNCHANGED <<remote, inflight>>

\* What a writer's rename puts in place of the entries it has read (an init has
\* read none and writes none).
NewEntries(p) ==
  IF cmd[p] = "protect" THEN seen[p] \cup {key[p]} ELSE seen[p] \ {key[p]}

-----------------------------------------------------------------------------
(* The commands *)

\* Where a command starts, and where it goes on once it has its lease.
FirstPlace(c) ==
  IF c = "purge" THEN "acquire" ELSE IF c = "init" THEN "lock" ELSE "check"

LeasedPlace(c) ==
  IF c = "protect" THEN "lookup" ELSE IF c = "purge" THEN "assess" ELSE "lock"

Begin(p) ==
  /\ pc[p] = "idle"
  /\ \E c \in Command, k \in Key :
       /\ cmd' = [cmd EXCEPT ![p] = c]
       /\ key' = [key EXCEPT ![p] = k]
       /\ Continue(p, FirstPlace(c))
  /\ KeepStore
  /\ KeepProvider

\* load_strict before a target is locked.  unprotect is done when it finds no entry.
Check(p) ==
  /\ pc[p] = "check"
  /\ storeLock = NoProc
  /\ IF file.health = "ok" /\ (cmd[p] = "unprotect" => key[p] \in file.entries)
     THEN Continue(p, "acquire")
     ELSE Return(p)
  /\ KeepCommands
  /\ KeepStore
  /\ KeepProvider

\* Mutation of Acquire: the lock is taken over instead of waited for.
AcquireAnyway(p) ==
  /\ pc[p] = "acquire"
  /\ targetLock' = [targetLock EXCEPT ![MyLock(p)] = p]
  /\ Goto(p, "recheck")
  /\ UNCHANGED <<storeLock, seen>>
  /\ KeepCommands
  /\ KeepStore
  /\ KeepProvider

\* acquire_target: the flock of the key's lock file.
Acquire(p) ==
  /\ pc[p] = "acquire"
  /\ targetLock[MyLock(p)] = NoProc
  /\ targetLock' = [targetLock EXCEPT ![MyLock(p)] = p]
  /\ Goto(p, "recheck")
  /\ UNCHANGED storeLock
  /\ KeepCommands
  /\ KeepStore
  /\ UNCHANGED seen
  /\ KeepProvider

\* acquire_target: a store that is gone or damaged by now refuses the lease.
Recheck(p) ==
  /\ pc[p] = "recheck"
  /\ storeLock = NoProc
  /\ IF file.health = "ok"
     THEN Continue(p, LeasedPlace(cmd[p]))
     ELSE Return(p)
  /\ KeepCommands
  /\ KeepStore
  /\ KeepProvider

\* protect verifies at the provider that the run exists.
Lookup(p) ==
  /\ pc[p] = "lookup"
  /\ IF key[p] \in remote THEN Continue(p, "lock") ELSE Return(p)
  /\ KeepCommands
  /\ KeepStore
  /\ KeepProvider

\* Mutation of Assess: the guard goes out of scope, and the lease with it, before
\* the DELETE.
AssessAndRelease(p) ==
  /\ pc[p] = "assess"
  /\ storeLock = NoProc
  /\ IF file.health = "ok" /\ key[p] \notin file.entries
     THEN /\ Goto(p, "purging")
          /\ targetLock' = [targetLock EXCEPT ![MyLock(p)] = NoProc]
          /\ UNCHANGED <<storeLock, seen>>
     ELSE Return(p)
  /\ KeepCommands
  /\ KeepStore
  /\ KeepProvider

\* The executor's guard reads the store again and lets only an absent entry pass.
Assess(p) ==
  /\ pc[p] = "assess"
  /\ storeLock = NoProc
  /\ IF file.health = "ok" /\ key[p] \notin file.entries
     THEN Continue(p, "purging")
     ELSE Return(p)
  /\ KeepCommands
  /\ KeepStore
  /\ KeepProvider

\* The executor sends the DELETE of the run, its lease still held.
\* (RunPurgeExecutor models the calls of this step one by one.)
Purge(p) ==
  /\ pc[p] = "purging"
  /\ inflight' = inflight \cup {key[p]}
  /\ Continue(p, "answer")
  /\ KeepCommands
  /\ KeepStore
  /\ UNCHANGED remote

\* The provider answers, having deleted the run or refused to, and the lease is
\* dropped.  A lost answer, or the end of the executor, is an Abandon: the
\* lease is dropped with the DELETE still on its way.
Answer(p) ==
  /\ pc[p] = "answer"
  /\ inflight' = inflight \ {key[p]}
  /\ remote' \in {remote, remote \ {key[p]}}
  /\ Return(p)
  /\ KeepCommands
  /\ KeepStore

\* Mutation of TakeStoreLock: the writer does not wait for the one before it.
TakeStoreLockAnyway(p) ==
  /\ pc[p] = "lock"
  /\ storeLock' = p
  /\ Goto(p, "read")
  /\ UNCHANGED <<targetLock, seen>>
  /\ KeepCommands
  /\ KeepStore
  /\ KeepProvider

\* The store lock of a writer: protect_verified, unprotect, initialize_empty.
TakeStoreLock(p) ==
  /\ pc[p] = "lock"
  /\ storeLock = NoProc
  /\ storeLock' = p
  /\ Goto(p, "read")
  /\ UNCHANGED targetLock
  /\ KeepCommands
  /\ KeepStore
  /\ UNCHANGED seen
  /\ KeepProvider

\* The writer reads the file it is about to replace.  An entry that is there
\* ends a protect with success, or with IdentityMismatch when the entry's own
\* record differs; an entry that is not there ends an unprotect; an existing
\* file ends an init.
Read(p) ==
  /\ pc[p] = "read"
  /\ \/ /\ IF cmd[p] = "init" THEN file.health = "missing"
           ELSE file.health = "ok" /\ (key[p] \in file.entries <=> cmd[p] = "unprotect")
        /\ seen' = [seen EXCEPT ![p] = file.entries]
        /\ Goto(p, "write")
        /\ UNCHANGED <<targetLock, storeLock, already>>
     \/ /\ cmd[p] = "protect" /\ file.health = "ok" /\ key[p] \in file.entries
        /\ already' \in {already, already \cup {key[p]}}
        /\ Return(p)
     \/ /\ \/ cmd[p] = "unprotect" /\ key[p] \notin file.entries
           \/ cmd[p] = "init" /\ file.health # "missing"
           \/ cmd[p] # "init" /\ file.health # "ok"
        /\ Return(p)
        /\ UNCHANGED already
  /\ KeepCommands
  /\ UNCHANGED <<file, disk, inserted>>
  /\ KeepProvider

\* write_file up to the rename: the temporary file has a name of its own and is
\* synchronised, so the replacement is the only step others can see.
Replace(p) ==
  /\ pc[p] = "write"
  /\ file' = Stored(NewEntries(p))
  /\ inserted' = IF cmd[p] = "unprotect" THEN inserted \ {key[p]} ELSE inserted
  /\ already' = IF cmd[p] = "unprotect" THEN already \ {key[p]} ELSE already
  /\ Continue(p, "sync")
  /\ KeepCommands
  /\ UNCHANGED disk
  /\ KeepProvider

\* write_file from the rename on: the directory is synchronised, the command
\* reports success and drops its locks.  A success that comes after somebody
\* damaged the new file does not count: that entry is destroyed already.
SyncDirectory(p) ==
  /\ pc[p] = "sync"
  /\ disk' = file
  /\ inserted' = IF cmd[p] = "protect" /\ file.health = "ok"
                 THEN inserted \cup {key[p]} ELSE inserted
  /\ Return(p)
  /\ KeepCommands
  /\ UNCHANGED <<file, already>>
  /\ KeepProvider

\* Mutation of Timeout: only the store lock is waited for with a deadline.
TimeoutOfStoreLock(p) ==
  /\ pc[p] \in {"check", "recheck", "assess", "lock"} /\ storeLock # NoProc
  /\ Return(p)
  /\ KeepCommands
  /\ KeepStore
  /\ KeepProvider

\* lock_with_timeout gives up on a lock that another process holds.
Timeout(p) ==
  /\ \/ pc[p] \in {"check", "recheck", "assess", "lock"} /\ storeLock # NoProc
     \/ pc[p] = "acquire" /\ targetLock[MyLock(p)] # NoProc
  /\ Return(p)
  /\ KeepCommands
  /\ KeepStore
  /\ KeepProvider

\* The command fails at any point: an I/O or provider error, a kill.  The
\* kernel drops its locks; a rename that took place stays.
Abandon(p) ==
  /\ pc[p] # "idle"
  /\ Return(p)
  /\ KeepCommands
  /\ KeepStore
  /\ KeepProvider

-----------------------------------------------------------------------------
(* The environment *)

\* A DELETE nobody waits for any more takes effect, or is lost.
Land ==
  /\ \E k \in inflight :
       /\ inflight' = inflight \ {k}
       /\ remote' \in {remote, remote \ {k}}
  /\ KeepStore
  /\ KeepCommands
  /\ UNCHANGED <<targetLock, storeLock, pc, seen>>

\* Somebody removes or damages v1.json; what it said is lost for good.
Damage ==
  /\ \E h \in {"missing", "corrupt"} :
       /\ file' = Unreadable(h)
       /\ disk' = Unreadable(h)
  /\ inserted' = {}
  /\ already' = {}
  /\ KeepCommands
  /\ KeepProvider
  /\ UNCHANGED <<targetLock, storeLock, pc, seen>>

\* The kernel writes the directory back on its own.
WriteBack ==
  /\ disk # file
  /\ disk' = file
  /\ KeepCommands
  /\ KeepProvider
  /\ UNCHANGED <<file, targetLock, storeLock, pc, seen, inserted, already>>

\* The machine loses power: all processes end and the disk is what is left.
PowerLoss ==
  /\ file' = disk
  /\ pc' = [p \in Proc |-> "idle"]
  /\ targetLock' = [l \in Lock |-> NoProc]
  /\ storeLock' = NoProc
  /\ seen' = [p \in Proc |-> {}]
  /\ KeepCommands
  /\ KeepProvider
  /\ UNCHANGED <<disk, inserted, already>>

-----------------------------------------------------------------------------
(* Specifications *)

\* What a command does on its own machine.
LocalStep(p) ==
  \/ Check(p) \/ Acquire(p) \/ Recheck(p) \/ Assess(p)
  \/ TakeStoreLock(p) \/ Read(p) \/ Replace(p) \/ SyncDirectory(p) \/ Timeout(p)

\* What needs an answer of the provider; Purge stands for the executor's requests up
\* to the DELETE of the run.
RemoteStep(p) == Lookup(p) \/ Purge(p) \/ Answer(p)

Step(p) == LocalStep(p) \/ RemoteStep(p)

Next ==
  \/ \E p \in Proc : Begin(p) \/ Step(p) \/ Abandon(p)
  \/ Land \/ Damage \/ WriteBack \/ PowerLoss

Spec == Init /\ [][Next]_vars

\* A process that runs goes on with its own work: both lock waits are polling loops
\* with a deadline.  Nothing else is fair.  A request may never be answered, since the
\* HTTP client has no timeout, and the other processes may hang in one, or be
\* suspended, anywhere, a lock in their hands.
FairSpec == Spec /\ \A p \in Running : WF_vars(LocalStep(p))

-----------------------------------------------------------------------------
(* Properties *)

HoldsLease(p) == cmd[p] # "init" /\ pc[p] \in LeasePc

\* Two processes never hold the lease of one run: acquire_target, with the
\* lock of a hash standing for the lock of a key.
LeaseExclusive ==
  \A p, q \in Proc : HoldsLease(p) /\ HoldsLease(q) /\ p # q => key[p] # key[q]

\* While the executor may issue a DELETE for a run, the store holds no entry
\* for it, and no writer is about to put one there: the assessment made under
\* the lease stays true until the lease is dropped, whatever is protected,
\* unprotected, damaged or initialised meanwhile.
NoDeleteUnderProtection ==
  \A p \in Proc : pc[p] \in {"purging", "answer"} =>
    /\ key[p] \notin file.entries
    /\ \A q \in Proc : pc[q] = "write" => key[p] \notin NewEntries(q)

\* A protection reported "Protected" is not lost: not to a concurrent writer of
\* another entry, not to a crash half-way through a replacement, not to a power
\* loss.  Only unprotect, or damage to the file, removes it.
InsertedSurvives == inserted \subseteq file.entries \cap disk.entries

\* No DELETE is sent for a run once its protection has been reported, even by
\* a purge that was planned, reviewed or waiting before.
NoDeleteOfProtected == [][\A k \in inserted : k \in inflight' => k \in inflight]_vars

InRemoteCall(p) == pc[p] \in {"lookup", "purging", "answer"}

\* No command waits for ever on another: it ends, unless a request of its own is never
\* answered, even when the holder of the lock that it wants hangs in a request of its,
\* is suspended, dies or starts again and again (lock_with_timeout).
CommandEnds ==
  \A p \in Running : pc[p] # "idle" ~> (pc[p] = "idle" \/ []InRemoteCall(p))

\* SAFETY.md's stronger claim about every reported success: an entry reported
\* as "Already protected" is durable too.
AlreadyProtectedIsDurable == already \subseteq disk.entries

\* README.md's stronger claim: a run is not purged once its protection has been
\* reported, not even by a DELETE sent before that.
ProtectedRunSurvives == [][\A k \in inserted : k \in remote => k \in remote']_vars
=============================================================================
