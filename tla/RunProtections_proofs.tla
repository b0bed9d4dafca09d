------------------------ MODULE RunProtections_proofs ------------------------
(***************************************************************************)
(* TLAPS proofs about RunProtections, for every set of processes, keys and *)
(* lock files, and every hash from keys to lock files.                     *)
(***************************************************************************)
EXTENDS RunProtections, TLAPS

-----------------------------------------------------------------------------
(* The inductive invariant *)

\* Which command is at which place.
Routes ==
  \A p \in Proc :
    /\ pc[p] \in {"assess", "purging", "answer"} => cmd[p] = "purge"
    /\ pc[p] = "lookup" => cmd[p] = "protect"
    /\ pc[p] \in {"check", "acquire", "recheck"} => cmd[p] # "init"
    /\ pc[p] \in {"lock"} \cup StorePc => cmd[p] # "purge"

\* A lease is the target lock; a critical section of the store is the store lock.
LocksHeld ==
  \A p \in Proc :
    /\ HoldsLease(p) => targetLock[MyLock(p)] = p
    /\ pc[p] \in StorePc => storeLock = p

\* What a writer has read still covers the file it is about to replace.
WriterCurrent ==
  \A p \in Proc : pc[p] = "write" =>
    /\ file.entries \subseteq seen[p]
    /\ cmd[p] = "init" => seen[p] = {}

\* What a protect is about to report is in the file, unless that was damaged.
ReplacedVisible ==
  \A p \in Proc :
    pc[p] = "sync" /\ cmd[p] = "protect" /\ file.health = "ok" => key[p] \in file.entries

\* Only a readable file has entries.
UnreadableIsEmpty ==
  /\ file.health # "ok" => file.entries = {}
  /\ disk.health # "ok" => disk.entries = {}

IInv ==
  /\ TypeOK
  /\ Routes
  /\ LocksHeld
  /\ WriterCurrent
  /\ ReplacedVisible
  /\ UnreadableIsEmpty
  /\ NoDeleteUnderProtection
  /\ InsertedSurvives

-----------------------------------------------------------------------------
(* Lemmas *)

\* Returning gives up nobody else's lock, and ends whatever the process was at.
LEMMA ReturnFacts ==
  ASSUME TypeOK, NEW p \in Proc, Return(p)
  PROVE  /\ pc' \in [Proc -> Pc]
         /\ seen' \in [Proc -> SUBSET Key]
         /\ targetLock' \in [Lock -> Proc \cup {NoProc}]
         /\ storeLock' \in Proc \cup {NoProc}
         /\ pc'[p] = "idle"
         /\ \A q \in Proc \ {p} :
              /\ pc'[q] = pc[q]
              /\ seen'[q] = seen[q]
              /\ \A l \in Lock : targetLock[l] = q => targetLock'[l] = q
              /\ storeLock = q => storeLock' = q
BY DEF TypeOK, Return, Goto, Pc, LeasePc, StorePc

\* Continuing moves one process and no lock.
LEMMA ContinueFacts ==
  ASSUME TypeOK, NEW p \in Proc, NEW place \in Pc, Continue(p, place)
  PROVE  /\ pc' \in [Proc -> Pc]
         /\ pc'[p] = place
         /\ \A q \in Proc \ {p} : pc'[q] = pc[q]
         /\ UNCHANGED <<targetLock, storeLock, seen>>
BY DEF TypeOK, Continue, Goto

\* The lock of a key is a lock, so the lease of a key has one holder.
LEMMA LeaseHolder ==
  ASSUME TypeOK, LocksHeld, NEW p \in Proc, NEW q \in Proc,
         HoldsLease(p), HoldsLease(q), p # q
  PROVE  key[p] # key[q]
BY DEF LocksHeld, MyLock

LEMMA StoreHolder ==
  ASSUME LocksHeld, NEW p \in Proc, NEW q \in Proc,
         pc[p] \in StorePc, pc[q] \in StorePc
  PROVE  p = q
BY DEF LocksHeld

\* With the store lock free nobody is about to replace the file.
LEMMA StoreFree ==
  ASSUME LocksHeld, storeLock = NoProc, NEW p \in Proc
  PROVE  pc[p] \notin StorePc
BY LockAssumption DEF LocksHeld

\* A process that returns, having changed nothing but the locks it drops and
\* its place, disturbs no part of the invariant.
LEMMA ReturnKeepsIInv ==
  ASSUME IInv, NEW p \in Proc, Return(p), KeepCommands, KeepStore,
         remote' \in SUBSET Key, inflight' \in SUBSET Key
  PROVE  IInv'
<1> USE DEF IInv, KeepCommands, KeepStore
<1>1. TypeOK'
  BY ReturnFacts DEF TypeOK
<1>2. Routes'
  BY ReturnFacts DEF Routes, StorePc
<1>3. LocksHeld'
  <2> SUFFICES ASSUME NEW q \in Proc, pc'[q] # "idle"
               PROVE  /\ HoldsLease(q)' => targetLock'[MyLock(q)'] = q
                      /\ pc'[q] \in StorePc => storeLock' = q
    BY DEF LocksHeld, HoldsLease, LeasePc, StorePc
  <2>1. q # p /\ pc'[q] = pc[q]
    BY ReturnFacts
  <2>2. MyLock(q) \in Lock /\ MyLock(q)' = MyLock(q)
    BY LockAssumption DEF MyLock, TypeOK
  <2> QED
    BY <2>1, <2>2, ReturnFacts DEF LocksHeld, HoldsLease
<1>4. WriterCurrent'
  BY ReturnFacts DEF WriterCurrent
<1>5. ReplacedVisible'
  BY ReturnFacts DEF ReplacedVisible
<1>6. NoDeleteUnderProtection'
  BY ReturnFacts DEF NoDeleteUnderProtection, NewEntries
<1> QED
  BY <1>1, <1>2, <1>3, <1>4, <1>5, <1>6 DEF UnreadableIsEmpty, InsertedSurvives

-----------------------------------------------------------------------------
(* The invariant holds initially and is kept by every step. *)

LEMMA InitIInv == Init => IInv
BY LockAssumption
DEF Init, IInv, TypeOK, Routes, LocksHeld, WriterCurrent, ReplacedVisible,
    UnreadableIsEmpty, NoDeleteUnderProtection, InsertedSurvives, Unreadable,
    File, Pc, LeasePc, StorePc, HoldsLease

\* A process that goes on to a place where it holds nothing new and reports
\* nothing, all else unchanged, keeps the invariant.
LEMMA ContinueKeepsIInv ==
  ASSUME IInv, NEW p \in Proc,
         NEW place \in {"lookup", "assess", "lock", "acquire", "check"},
         Continue(p, place), KeepStore, KeepProvider,
         cmd' \in [Proc -> Command], key' \in [Proc -> Key],
         \A q \in Proc \ {p} : cmd'[q] = cmd[q] /\ key'[q] = key[q],
         HoldsLease(p)' => targetLock'[MyLock(p)'] = p,
         place = "assess" => cmd'[p] = "purge",
         place = "lookup" => cmd'[p] = "protect",
         place \in {"check", "acquire"} => cmd'[p] # "init",
         place = "lock" => cmd'[p] # "purge"
  PROVE  IInv'
<1> USE DEF IInv, KeepStore, KeepProvider
<1>0. place \in Pc
  BY DEF Pc, LeasePc
<1>f. /\ pc' \in [Proc -> Pc]
      /\ pc'[p] = place
      /\ \A q \in Proc \ {p} : pc'[q] = pc[q]
      /\ UNCHANGED <<targetLock, storeLock, seen>>
  BY <1>0, ContinueFacts
<1>1. TypeOK'
  BY <1>f DEF TypeOK
<1>2. Routes'
  BY <1>f DEF Routes, StorePc
<1>3. LocksHeld'
  <2> SUFFICES ASSUME NEW q \in Proc
               PROVE  /\ HoldsLease(q)' => targetLock'[MyLock(q)'] = q
                      /\ pc'[q] \in StorePc => storeLock' = q
    BY DEF LocksHeld
  <2>1. CASE q = p
    BY <2>1, <1>f DEF StorePc
  <2>2. CASE q # p
    BY <2>2, <1>f DEF LocksHeld, HoldsLease, MyLock
  <2> QED
    BY <2>1, <2>2
<1>4. WriterCurrent'
  BY <1>f DEF WriterCurrent
<1>5. ReplacedVisible'
  BY <1>f DEF ReplacedVisible
<1>6. NoDeleteUnderProtection'
  BY <1>f DEF NoDeleteUnderProtection, NewEntries
<1> QED
  BY <1>1, <1>2, <1>3, <1>4, <1>5, <1>6 DEF UnreadableIsEmpty, InsertedSurvives

LEMMA BeginKeepsIInv ==
  ASSUME IInv, NEW p \in Proc, Begin(p)
  PROVE  IInv'
<1> PICK c \in Command, k \in Key :
      /\ cmd' = [cmd EXCEPT ![p] = c]
      /\ key' = [key EXCEPT ![p] = k]
      /\ Continue(p, FirstPlace(c))
  BY DEF Begin
<1>t. /\ cmd' \in [Proc -> Command] /\ cmd'[p] = c
      /\ key' \in [Proc -> Key]
      /\ \A q \in Proc \ {p} : cmd'[q] = cmd[q] /\ key'[q] = key[q]
      /\ KeepStore /\ KeepProvider
  BY DEF IInv, TypeOK, Begin
<1>1. CASE c = "purge"
  <2>1. Continue(p, "acquire")
    BY <1>1 DEF FirstPlace
  <2>2. ~HoldsLease(p)'
    BY <2>1, ContinueFacts DEF HoldsLease, IInv, Pc, LeasePc, StorePc
  <2> QED
    BY <1>1, <1>t, <2>1, <2>2, ContinueKeepsIInv
<1>2. CASE c = "init"
  <2>1. Continue(p, "lock")
    BY <1>2 DEF FirstPlace
  <2>2. ~HoldsLease(p)'
    BY <1>2, <1>t DEF HoldsLease
  <2> QED
    BY <1>2, <1>t, <2>1, <2>2, ContinueKeepsIInv
<1>3. CASE c \notin {"purge", "init"}
  <2>1. Continue(p, "check")
    BY <1>3 DEF FirstPlace
  <2>2. ~HoldsLease(p)'
    BY <2>1, ContinueFacts DEF HoldsLease, IInv, Pc, LeasePc, StorePc
  <2> QED
    BY <1>3, <1>t, <2>1, <2>2, ContinueKeepsIInv
<1> QED
  BY <1>1, <1>2, <1>3

\* The steps that only read the store or the provider.
LEMMA ReadOnlyKeepsIInv ==
  ASSUME IInv, NEW p \in Proc,
         Check(p) \/ Recheck(p) \/ Lookup(p) \/ Timeout(p) \/ Abandon(p)
  PROVE  IInv'
<1>1. CASE Return(p)
  BY <1>1, ReturnKeepsIInv
  DEF Check, Recheck, Lookup, Timeout, Abandon, KeepProvider, IInv, TypeOK
<1>2. CASE ~Return(p)
  <2>t. /\ KeepStore /\ KeepCommands /\ KeepProvider
        /\ cmd' \in [Proc -> Command] /\ key' \in [Proc -> Key]
    BY DEF Check, Recheck, Lookup, Timeout, Abandon, IInv, TypeOK, KeepCommands
  <2>1. CASE Check(p)
    <3>1. Continue(p, "acquire")
      BY <1>2, <2>1 DEF Check
    <3>2. ~HoldsLease(p)'
      BY <3>1, ContinueFacts DEF HoldsLease, IInv, Pc, LeasePc, StorePc
    <3>3. cmd'[p] # "init"
      BY <2>1, <2>t DEF Check, IInv, Routes, KeepCommands
    <3> QED
      BY <2>t, <3>1, <3>2, <3>3, ContinueKeepsIInv DEF KeepCommands
  <2>2. CASE Recheck(p) \/ Lookup(p)
    <3>1. HoldsLease(p) /\ targetLock[MyLock(p)] = p
      BY <2>2 DEF Recheck, Lookup, HoldsLease, LeasePc, IInv, Routes, LocksHeld
    <3>2. PICK place \in {"lookup", "assess", "lock"} :
            /\ Continue(p, place)
            /\ place = "assess" => cmd[p] = "purge"
            /\ place = "lookup" => cmd[p] = "protect"
            /\ place = "lock" => cmd[p] # "purge"
      BY <1>2, <2>2 DEF Recheck, Lookup, LeasedPlace, IInv, Routes
    <3>3. targetLock'[MyLock(p)'] = p
      BY <2>t, <3>1, <3>2 DEF Continue, MyLock, KeepCommands
    <3>4. UNCHANGED <<cmd, key>>
      BY <2>t DEF KeepCommands
    <3>5. place \in {"lookup", "assess", "lock", "acquire", "check"}
      OBVIOUS
    <3>6. /\ place = "assess" => cmd'[p] = "purge"
          /\ place = "lookup" => cmd'[p] = "protect"
          /\ place \in {"check", "acquire"} => cmd'[p] # "init"
          /\ place = "lock" => cmd'[p] # "purge"
      BY <3>2, <3>4
    <3> QED
      BY <2>t, <3>2, <3>3, <3>4, <3>5, <3>6, ContinueKeepsIInv
  <2> QED
    BY <1>2, <2>1, <2>2 DEF Timeout, Abandon
<1> QED
  BY <1>1, <1>2

LEMMA AcquireKeepsIInv ==
  ASSUME IInv, NEW p \in Proc, Acquire(p)
  PROVE  IInv'
<1> USE DEF IInv, Acquire, KeepStore, KeepCommands, KeepProvider
<1>l. MyLock(p) \in Lock
  BY LockAssumption DEF MyLock, TypeOK
<1>f. /\ pc' \in [Proc -> Pc]
      /\ pc[p] = "acquire" /\ pc'[p] = "recheck"
      /\ \A q \in Proc \ {p} : pc'[q] = pc[q]
      /\ targetLock' \in [Lock -> Proc \cup {NoProc}]
      /\ targetLock'[MyLock(p)] = p
      /\ \A l \in Lock \ {MyLock(p)} : targetLock'[l] = targetLock[l]
      /\ targetLock[MyLock(p)] = NoProc
      /\ UNCHANGED <<storeLock, seen, cmd, key, remote, inflight>>
  BY <1>l DEF TypeOK, Goto, Pc, LeasePc
<1>1. TypeOK'
  BY <1>f DEF TypeOK
<1>2. Routes'
  BY <1>f DEF Routes, StorePc
<1>3. LocksHeld'
  <2> SUFFICES ASSUME NEW q \in Proc
               PROVE  /\ HoldsLease(q)' => targetLock'[MyLock(q)'] = q
                      /\ pc'[q] \in StorePc => storeLock' = q
    BY DEF LocksHeld
  <2>1. CASE q = p
    BY <2>1, <1>f DEF StorePc, MyLock
  <2>2. CASE q # p
    <3>1. MyLock(q) \in Lock /\ MyLock(q)' = MyLock(q)
      BY <1>f, LockAssumption DEF MyLock, TypeOK
    <3>2. HoldsLease(q) => MyLock(q) # MyLock(p)
      BY <1>f, LockAssumption DEF LocksHeld
    <3> QED
      BY <2>2, <1>f, <3>1, <3>2 DEF LocksHeld, HoldsLease
  <2> QED
    BY <2>1, <2>2
<1>4. WriterCurrent' /\ ReplacedVisible'
  BY <1>f DEF WriterCurrent, ReplacedVisible
<1>5. NoDeleteUnderProtection'
  BY <1>f DEF NoDeleteUnderProtection, NewEntries
<1> QED
  BY <1>1, <1>2, <1>3, <1>4, <1>5 DEF UnreadableIsEmpty, InsertedSurvives

LEMMA AssessKeepsIInv ==
  ASSUME IInv, NEW p \in Proc, Assess(p)
  PROVE  IInv'
<1> USE DEF IInv, Assess, KeepStore, KeepCommands, KeepProvider
<1>1. CASE Return(p)
  BY <1>1, ReturnKeepsIInv DEF TypeOK
<1>2. CASE ~Return(p)
  <2>c. Continue(p, "purging") /\ key[p] \notin file.entries
    BY <1>2
  <2>f. /\ pc' \in [Proc -> Pc]
        /\ pc[p] = "assess" /\ pc'[p] = "purging"
        /\ \A q \in Proc \ {p} : pc'[q] = pc[q]
        /\ UNCHANGED <<targetLock, storeLock, seen, cmd, key, remote, inflight>>
    BY <2>c, ContinueFacts DEF Pc, LeasePc
  <2>n. \A q \in Proc : pc[q] \notin StorePc
    BY StoreFree
  <2>1. TypeOK'
    BY <2>f DEF TypeOK
  <2>2. Routes'
    BY <2>f DEF Routes, StorePc
  <2>3. LocksHeld'
    BY <2>f DEF LocksHeld, HoldsLease, LeasePc, StorePc, MyLock
  <2>4. WriterCurrent' /\ ReplacedVisible'
    BY <2>f DEF WriterCurrent, ReplacedVisible
  <2>5. NoDeleteUnderProtection'
    BY <2>c, <2>f, <2>n DEF NoDeleteUnderProtection, NewEntries, StorePc
  <2> QED
    BY <2>1, <2>2, <2>3, <2>4, <2>5 DEF UnreadableIsEmpty, InsertedSurvives
<1> QED
  BY <1>1, <1>2

LEMMA PurgeKeepsIInv ==
  ASSUME IInv, NEW p \in Proc, Purge(p)
  PROVE  IInv'
<1> USE DEF IInv, Purge, KeepStore, KeepCommands
<1>f. /\ pc' \in [Proc -> Pc]
      /\ pc[p] = "purging" /\ pc'[p] = "answer"
      /\ \A q \in Proc \ {p} : pc'[q] = pc[q]
      /\ UNCHANGED <<targetLock, storeLock, seen, cmd, key, remote>>
  BY ContinueFacts DEF Pc, LeasePc
<1>1. TypeOK'
  BY <1>f DEF TypeOK
<1>2. Routes'
  BY <1>f DEF Routes, StorePc
<1>3. LocksHeld'
  BY <1>f DEF LocksHeld, HoldsLease, LeasePc, StorePc, MyLock
<1>4. WriterCurrent' /\ ReplacedVisible'
  BY <1>f DEF WriterCurrent, ReplacedVisible
<1>5. NoDeleteUnderProtection'
  BY <1>f DEF NoDeleteUnderProtection, NewEntries
<1> QED
  BY <1>1, <1>2, <1>3, <1>4, <1>5 DEF UnreadableIsEmpty, InsertedSurvives

LEMMA AnswerKeepsIInv ==
  ASSUME IInv, NEW p \in Proc, Answer(p)
  PROVE  IInv'
BY ReturnKeepsIInv DEF Answer, IInv, TypeOK

LEMMA TakeStoreLockKeepsIInv ==
  ASSUME IInv, NEW p \in Proc, TakeStoreLock(p)
  PROVE  IInv'
<1> USE DEF IInv, TakeStoreLock, KeepStore, KeepCommands, KeepProvider
<1>f. /\ pc' \in [Proc -> Pc]
      /\ pc[p] = "lock" /\ pc'[p] = "read"
      /\ \A q \in Proc \ {p} : pc'[q] = pc[q]
      /\ storeLock' = p
      /\ UNCHANGED <<targetLock, seen, cmd, key, remote, inflight>>
  BY DEF TypeOK, Goto, Pc, LeasePc, StorePc
<1>n. \A q \in Proc : pc[q] \notin StorePc
  BY StoreFree
<1>1. TypeOK'
  BY <1>f DEF TypeOK
<1>2. Routes'
  BY <1>f DEF Routes, StorePc
<1>3. LocksHeld'
  BY <1>f, <1>n DEF LocksHeld, HoldsLease, LeasePc, StorePc, MyLock
<1>4. WriterCurrent' /\ ReplacedVisible'
  BY <1>f DEF WriterCurrent, ReplacedVisible
<1>5. NoDeleteUnderProtection'
  BY <1>f DEF NoDeleteUnderProtection, NewEntries
<1> QED
  BY <1>1, <1>2, <1>3, <1>4, <1>5 DEF UnreadableIsEmpty, InsertedSurvives

LEMMA ReadKeepsIInv ==
  ASSUME IInv, NEW p \in Proc, Read(p)
  PROVE  IInv'
<1> USE DEF IInv, Read, KeepStore, KeepCommands, KeepProvider
<1>0. CASE Return(p)
  \* Only `already` may differ from a plain return, and only TypeOK mentions it.
  <2>1. TypeOK'
    BY <1>0, ReturnFacts DEF TypeOK
  <2>2. Routes'
    BY <1>0, ReturnFacts DEF Routes, StorePc
  <2>3. LocksHeld'
    <3> SUFFICES ASSUME NEW q \in Proc, pc'[q] # "idle"
                 PROVE  /\ HoldsLease(q)' => targetLock'[MyLock(q)'] = q
                        /\ pc'[q] \in StorePc => storeLock' = q
      BY DEF LocksHeld, HoldsLease, LeasePc, StorePc
    <3>1. q # p /\ pc'[q] = pc[q]
      BY <1>0, ReturnFacts
    <3>2. MyLock(q) \in Lock /\ MyLock(q)' = MyLock(q)
      BY LockAssumption DEF MyLock, TypeOK
    <3> QED
      BY <1>0, <3>1, <3>2, ReturnFacts DEF LocksHeld, HoldsLease
  <2>4. WriterCurrent' /\ ReplacedVisible'
    BY <1>0, ReturnFacts DEF WriterCurrent, ReplacedVisible
  <2>5. NoDeleteUnderProtection'
    BY <1>0, ReturnFacts DEF NoDeleteUnderProtection, NewEntries
  <2> QED
    BY <2>1, <2>2, <2>3, <2>4, <2>5 DEF UnreadableIsEmpty, InsertedSurvives
<1>1. CASE ~Return(p)
  <2>f. /\ pc' \in [Proc -> Pc]
        /\ pc[p] = "read" /\ pc'[p] = "write"
        /\ \A q \in Proc \ {p} : pc'[q] = pc[q]
        /\ seen' \in [Proc -> SUBSET Key]
        /\ seen'[p] = file.entries
        /\ \A q \in Proc \ {p} : seen'[q] = seen[q]
        /\ cmd[p] = "init" => file.health = "missing"
        /\ UNCHANGED <<targetLock, storeLock, file, disk, cmd, key, remote, inflight,
                       inserted, already>>
    BY <1>1 DEF TypeOK, File, Goto, Pc, LeasePc, StorePc
  <2>1. TypeOK'
    BY <2>f DEF TypeOK
  <2>2. Routes'
    BY <2>f DEF Routes, StorePc
  <2>3. LocksHeld'
    BY <2>f DEF LocksHeld, HoldsLease, LeasePc, StorePc, MyLock
  <2>4. WriterCurrent' /\ ReplacedVisible'
    BY <2>f DEF WriterCurrent, ReplacedVisible, UnreadableIsEmpty
  <2>5. NoDeleteUnderProtection'
    <3> SUFFICES ASSUME NEW q \in Proc, pc[q] \in {"purging", "answer"}
                 PROVE  /\ key[q] \notin file.entries
                        /\ key[q] \notin NewEntries(p)'
                        /\ \A r \in Proc \ {p} :
                             pc[r] = "write" => key[q] \notin NewEntries(r)'
      BY <2>f DEF NoDeleteUnderProtection
    <3>1. key[q] \notin file.entries
      BY DEF NoDeleteUnderProtection
    <3>2. cmd[p] = "protect" => key[q] # key[p]
      <4>1. cmd[p] = "protect" => HoldsLease(p) /\ HoldsLease(q) /\ p # q
        BY <2>f DEF HoldsLease, LeasePc, StorePc, Routes
      <4> QED
        BY <4>1, LeaseHolder
    <3> QED
      BY <2>f, <3>1, <3>2 DEF NewEntries, NoDeleteUnderProtection
  <2> QED
    BY <2>f, <2>1, <2>2, <2>3, <2>4, <2>5 DEF UnreadableIsEmpty, InsertedSurvives
<1> QED
  BY <1>0, <1>1

LEMMA ReplaceKeepsIInv ==
  ASSUME IInv, NEW p \in Proc, Replace(p)
  PROVE  IInv'
<1> USE DEF IInv, Replace, KeepCommands, KeepProvider
<1>f. /\ pc' \in [Proc -> Pc]
      /\ pc[p] = "write" /\ pc'[p] = "sync"
      /\ \A q \in Proc \ {p} : pc'[q] = pc[q]
      /\ UNCHANGED <<targetLock, storeLock, seen, disk, cmd, key, remote, inflight>>
  BY ContinueFacts DEF Pc, LeasePc, StorePc
<1>e. /\ file' \in File
      /\ file'.health = "ok"
      /\ file'.entries = NewEntries(p)
  BY DEF Stored, File, NewEntries, TypeOK
<1>o. \A q \in Proc : pc[q] \in StorePc => q = p
  BY <1>f, StoreHolder DEF StorePc
<1>1. TypeOK'
  BY <1>f, <1>e DEF TypeOK
<1>2. Routes'
  BY <1>f DEF Routes, StorePc
<1>3. LocksHeld'
  BY <1>f DEF LocksHeld, HoldsLease, LeasePc, StorePc, MyLock
<1>4. WriterCurrent'
  BY <1>f, <1>o DEF WriterCurrent, StorePc
<1>5. ReplacedVisible'
  BY <1>f, <1>e, <1>o DEF ReplacedVisible, StorePc, NewEntries
<1>6. NoDeleteUnderProtection'
  BY <1>f, <1>e, <1>o DEF NoDeleteUnderProtection, StorePc
<1>7. InsertedSurvives'
  BY <1>f, <1>e DEF InsertedSurvives, WriterCurrent, NewEntries
<1> QED
  BY <1>f, <1>e, <1>1, <1>2, <1>3, <1>4, <1>5, <1>6, <1>7 DEF UnreadableIsEmpty

LEMMA SyncDirectoryKeepsIInv ==
  ASSUME IInv, NEW p \in Proc, SyncDirectory(p)
  PROVE  IInv'
<1> USE DEF IInv, SyncDirectory, KeepCommands, KeepProvider
<1>1. TypeOK'
  BY ReturnFacts DEF TypeOK
<1>2. Routes'
  BY ReturnFacts DEF Routes, StorePc
<1>3. LocksHeld'
  <2> SUFFICES ASSUME NEW q \in Proc, pc'[q] # "idle"
               PROVE  /\ HoldsLease(q)' => targetLock'[MyLock(q)'] = q
                      /\ pc'[q] \in StorePc => storeLock' = q
    BY DEF LocksHeld, HoldsLease, LeasePc, StorePc
  <2>1. q # p /\ pc'[q] = pc[q]
    BY ReturnFacts
  <2>2. MyLock(q) \in Lock /\ MyLock(q)' = MyLock(q)
    BY LockAssumption DEF MyLock, TypeOK
  <2> QED
    BY <2>1, <2>2, ReturnFacts DEF LocksHeld, HoldsLease
<1>4. WriterCurrent' /\ ReplacedVisible'
  BY ReturnFacts DEF WriterCurrent, ReplacedVisible
<1>5. NoDeleteUnderProtection'
  BY ReturnFacts DEF NoDeleteUnderProtection, NewEntries
<1>6. InsertedSurvives'
  BY DEF InsertedSurvives, ReplacedVisible
<1> QED
  BY <1>1, <1>2, <1>3, <1>4, <1>5, <1>6 DEF UnreadableIsEmpty

LEMMA EnvironmentKeepsIInv ==
  ASSUME IInv, Land \/ Damage \/ WriteBack \/ PowerLoss
  PROVE  IInv'
<1> USE DEF IInv, KeepCommands, KeepProvider
<1>0. CASE Land
  BY <1>0 DEF Land, KeepStore, TypeOK, Routes, LocksHeld, HoldsLease, MyLock,
     WriterCurrent, ReplacedVisible, UnreadableIsEmpty, NoDeleteUnderProtection,
     NewEntries, InsertedSurvives
<1>1. CASE Damage
  <2>f. /\ file' \in File /\ disk' \in File
        /\ file'.entries = {} /\ disk'.entries = {} /\ file'.health # "ok"
        /\ inserted' = {} /\ already' = {}
        /\ UNCHANGED <<targetLock, storeLock, pc, cmd, key, seen, remote, inflight>>
    BY <1>1 DEF Damage, Unreadable, File
  <2>1. TypeOK' /\ Routes' /\ LocksHeld'
    BY <2>f DEF TypeOK, Routes, LocksHeld, HoldsLease, MyLock
  <2>2. WriterCurrent' /\ ReplacedVisible' /\ UnreadableIsEmpty'
    BY <2>f DEF WriterCurrent, ReplacedVisible, UnreadableIsEmpty
  <2>3. NoDeleteUnderProtection' /\ InsertedSurvives'
    BY <2>f DEF NoDeleteUnderProtection, NewEntries, InsertedSurvives
  <2> QED
    BY <2>1, <2>2, <2>3
<1>2. CASE WriteBack
  BY <1>2 DEF WriteBack, TypeOK, Routes, LocksHeld, HoldsLease, MyLock, WriterCurrent,
     ReplacedVisible, UnreadableIsEmpty, NoDeleteUnderProtection, NewEntries,
     InsertedSurvives
<1>3. CASE PowerLoss
  <2>f. /\ \A p \in Proc : pc'[p] = "idle"
        /\ file' = disk
        /\ UNCHANGED <<disk, inserted>>
    BY <1>3 DEF PowerLoss
  <2>1. TypeOK'
    BY <1>3 DEF PowerLoss, TypeOK, Pc
  <2>2. Routes' /\ LocksHeld' /\ WriterCurrent' /\ ReplacedVisible' /\ NoDeleteUnderProtection'
    BY <2>f DEF Routes, LocksHeld, HoldsLease, LeasePc, StorePc, WriterCurrent,
       ReplacedVisible, NoDeleteUnderProtection
  <2> QED
    BY <2>f, <2>1, <2>2 DEF UnreadableIsEmpty, InsertedSurvives
<1> QED
  BY <1>0, <1>1, <1>2, <1>3

LEMMA NextKeepsIInv == IInv /\ [Next]_vars => IInv'
<1> SUFFICES ASSUME IInv, [Next]_vars PROVE IInv'
  OBVIOUS
<1>1. ASSUME NEW p \in Proc, Begin(p) PROVE IInv'
  BY <1>1, BeginKeepsIInv
<1>2. ASSUME NEW p \in Proc,
             Check(p) \/ Recheck(p) \/ Lookup(p) \/ Timeout(p) \/ Abandon(p)
      PROVE  IInv'
  BY <1>2, ReadOnlyKeepsIInv
<1>3. ASSUME NEW p \in Proc, Acquire(p) PROVE IInv'
  BY <1>3, AcquireKeepsIInv
<1>4. ASSUME NEW p \in Proc, Assess(p) PROVE IInv'
  BY <1>4, AssessKeepsIInv
<1>5. ASSUME NEW p \in Proc, Purge(p) PROVE IInv'
  BY <1>5, PurgeKeepsIInv
<1>6. ASSUME NEW p \in Proc, TakeStoreLock(p) PROVE IInv'
  BY <1>6, TakeStoreLockKeepsIInv
<1>7. ASSUME NEW p \in Proc, Read(p) PROVE IInv'
  BY <1>7, ReadKeepsIInv
<1>8. ASSUME NEW p \in Proc, Replace(p) PROVE IInv'
  BY <1>8, ReplaceKeepsIInv
<1>9. ASSUME NEW p \in Proc, SyncDirectory(p) PROVE IInv'
  BY <1>9, SyncDirectoryKeepsIInv
<1>10. CASE Land \/ Damage \/ WriteBack \/ PowerLoss
  BY <1>10, EnvironmentKeepsIInv
<1>11. ASSUME NEW p \in Proc, Answer(p) PROVE IInv'
  BY <1>11, AnswerKeepsIInv
<1>12. CASE UNCHANGED vars
  BY <1>12 DEF vars, IInv, TypeOK, Routes, LocksHeld, HoldsLease, MyLock, WriterCurrent,
     ReplacedVisible, UnreadableIsEmpty, NoDeleteUnderProtection, NewEntries,
     InsertedSurvives
<1> QED
  BY <1>1, <1>2, <1>3, <1>4, <1>5, <1>6, <1>7, <1>8, <1>9, <1>10, <1>11, <1>12 DEF Next, Step, LocalStep, RemoteStep

LEMMA Invariance == Spec => []IInv
BY InitIInv, NextKeepsIInv, PTL DEF Spec

-----------------------------------------------------------------------------
(* The theorems *)

\* Every variable stays in its set.
THEOREM TypeCorrect == Spec => []TypeOK
<1>1. IInv => TypeOK
  BY DEF IInv
<1> QED
  BY <1>1, Invariance, PTL

\* The lease of a run has one holder at a time, however many commands, runs and
\* hash collisions there are.
THEOREM LeasesAreExclusive == Spec => []LeaseExclusive
<1>1. IInv => LeaseExclusive
  BY LeaseHolder DEF IInv, LeaseExclusive
<1> QED
  BY <1>1, Invariance, PTL

\* The executor's assessment stays true for as long as it may issue a DELETE.
THEOREM NoDeleteIsUnderProtection == Spec => []NoDeleteUnderProtection
<1>1. IInv => NoDeleteUnderProtection
  BY DEF IInv
<1> QED
  BY <1>1, Invariance, PTL

\* No concurrent writer, crash or power loss takes a reported protection away.
THEOREM InsertedProtectionsSurvive == Spec => []InsertedSurvives
<1>1. IInv => InsertedSurvives
  BY DEF IInv
<1> QED
  BY <1>1, Invariance, PTL

\* No executor sends a DELETE for a run whose protection has been reported.
THEOREM NoDeleteIsOfProtected == Spec => NoDeleteOfProtected
<1>1. IInv /\ [Next]_vars => [\A k \in inserted : k \in inflight' => k \in inflight]_vars
  <2> SUFFICES ASSUME IInv, Next, NEW k \in inserted, k \in inflight'
               PROVE  k \in inflight
    BY DEF vars
  <2>1. ASSUME NEW p \in Proc, Purge(p) PROVE k \in inflight
    BY <2>1 DEF Purge, IInv, NoDeleteUnderProtection, InsertedSurvives
  <2>2. ASSUME NEW p \in Proc, ~Purge(p), Begin(p) \/ Step(p) \/ Abandon(p)
        PROVE  k \in inflight
    BY <2>2 DEF Begin, Step, LocalStep, RemoteStep, Abandon, Check, Acquire, Recheck, Lookup, Assess, Answer,
       TakeStoreLock, Read, Replace, SyncDirectory, Timeout, KeepProvider
  <2>3. CASE Land \/ Damage \/ WriteBack \/ PowerLoss
    BY <2>3 DEF Land, Damage, WriteBack, PowerLoss, KeepProvider
  <2> QED
    BY <2>1, <2>2, <2>3 DEF Next
<1> QED
  BY <1>1, Invariance, PTL DEF Spec, NoDeleteOfProtected
=============================================================================
